---------------------------- MODULE Routing_proofs ----------------------------
(***************************************************************************)
(* What is proved of Routing, for any number of joiners, things and         *)
(* messages: its types; that messages are served only where they are hosted; *)
(* that a joiner in the network can be reached as long as the leader stays;  *)
(* that no joiner is stuck outside it; that failed announcements do not      *)
(* multiply; and that a confirmed message was served, while no number is     *)
(* taken again too early.  At the end, what is proved of the dormant sensor  *)
(* on top of it: its types, and that it goes dormant only on the word of a   *)
(* leader that has heard this wake.                                         *)
(***************************************************************************)
EXTENDS DormantSensor, Reliable_proofs

-----------------------------------------------------------------------------
(* Types.                                                                   *)

LEMMA LeaderIsNode == Leader \in Node /\ Joiner \subseteq Node
BY RolesAssumption

(* A device's table of things may be announced.                             *)
LEMMA TableIsBody ==
    ASSUME NEW n \in Node
    PROVE  LocalThings[n] \in Body /\ LocalThings[n] \subseteq Thing
BY BodyAssumption, ThingsAssumption

(* Every variable starts with its type.                                     *)
LEMMA InitTypeOK == Init => TypeOK
<1> SUFFICES ASSUME Init PROVE TypeOK
  OBVIOUS
<1>1. ReliableTypeOK
  BY InitType DEF Init
<1>2. QED
  BY <1>1, FaultsAssumption DEF Init, TypeOK, RoutingState, NoOwners

(* Clearing the tables of a device keeps their types.                       *)
LEMMA ClearTablesType ==
    ASSUME TypeOK, NEW n \in Node, ClearTables(n)
    PROVE  /\ thingIdToIp' \in [Node -> [Thing -> Node \cup {NoIp}]]
           /\ localDestinations' \in [Node -> SUBSET Thing]
BY DEF TypeOK, ClearTables, NoOwners

LEMMA RoutingUpdateType ==
    ASSUME TypeOK, NEW n \in Node, RoutingUpdate(n)
    PROVE  TypeOK'
<1>1. CASE OnLightThreadLost(n)
  <2>1. ReliableTypeOK'
    BY <1>1 DEF OnLightThreadLost, TypeOK, ReliableTypeOK, reliableVars
  <2>2. QED
    BY <1>1, <2>1, ClearTablesType DEF OnLightThreadLost, TypeOK, RoutingState, appVars
<1>2. CASE n = Leader /\ LeaderOnLightThreadReady
  <2>1. ReliableTypeOK'
    BY <1>2 DEF LeaderOnLightThreadReady, TypeOK, ReliableTypeOK, reliableVars
  <2>2. /\ thingIdToIp' \in [Node -> [Thing -> Node \cup {NoIp}]]
        /\ localDestinations' \in [Node -> SUBSET Thing]
    BY <1>2, LeaderIsNode, TableIsBody DEF LeaderOnLightThreadReady, TypeOK
  <2>3. QED
    BY <1>2, <2>1, <2>2 DEF LeaderOnLightThreadReady, TypeOK, RoutingState, appVars
<1>3. CASE n \in Joiner /\ JoinerAnnounces(n)
  <2>1. ReliableTypeOK' /\ faults' \in 0 .. MaxFaults
        /\ routingState' \in [Node -> RoutingState]
    <3>1. RoutingAddr \in Addr /\ Leader \in Node /\ LocalThings[n] \in Body
      BY AddrAssumption, LeaderIsNode, TableIsBody DEF LeaderAddr
    <3>2. SendAnnouncement(n)
      BY <1>3 DEF JoinerAnnounces
    <3>3. ASSUME NEW s, NEW result,
                 SendReliable(n, Leader, RoutingAddr, LocalThings[n], s, result)
          PROVE  ReliableTypeOK'
      BY <3>1, <3>3, SendReliableType DEF TypeOK
    <3>4. UNCHANGED reliableVars => ReliableTypeOK'
      BY DEF TypeOK, ReliableTypeOK, reliableVars
    <3>5. ReliableTypeOK'
      BY <3>2, <3>3, <3>4 DEF SendAnnouncement
    <3>6. faults' \in 0 .. MaxFaults
      <4>1. \/ UNCHANGED faults
            \/ faults < MaxFaults /\ faults' = faults + 1
            \/ UNCHANGED <<reliableVars, faults>>
        BY <3>2, Zenon DEF SendAnnouncement
      <4>2. QED
        BY <4>1, FaultsAssumption DEF TypeOK
    <3>7. routingState' \in [Node -> RoutingState]
      <4>1. \E state \in RoutingState :
              routingState' = [routingState EXCEPT ![n] = state]
        BY <3>2 DEF SendAnnouncement, RoutingState
      <4>2. QED
        BY <4>1 DEF TypeOK
    <3>8. QED
      BY <3>5, <3>6, <3>7
  <2>2. /\ thingIdToIp' \in [Node -> [Thing -> Node \cup {NoIp}]]
        /\ localDestinations' \in [Node -> SUBSET Thing]
        /\ networkReady' \in [Node -> BOOLEAN]
    BY <1>3, ClearTablesType DEF JoinerAnnounces, TypeOK
  <2>3. QED
    BY <1>3, <2>1, <2>2 DEF JoinerAnnounces, TypeOK, appVars
<1>4. QED
  BY <1>1, <1>2, <1>3 DEF RoutingUpdate

(* Where a device sends is a device.                                        *)
LEMMA NextHopType ==
    ASSUME TypeOK, NEW n \in Node, NEW a \in Addr, NextHop(n, a) # NoIp
    PROVE  NextHop(n, a) \in Node
BY LeaderIsNode DEF NextHop, TypeOK

LEMMA AppSendType ==
    ASSUME TypeOK, NEW n \in Node, NEW m \in Message, NEW a \in Addr,
           NEW reliable \in BOOLEAN,
           AppSend(n, m, a, reliable) \/ AppSendRefused(n, m, a)
    PROVE  TypeOK'
<1>1. m \in Body /\ NextHop(n, a) \in Node
  BY BodyAssumption, NextHopType DEF AppSend, AppSendRefused
<1>2. ReliableTypeOK'
  <2>1. ASSUME NEW s, NEW result, SendReliable(n, NextHop(n, a), a, m, s, result)
        PROVE  ReliableTypeOK'
    BY <1>1, <2>1, SendReliableType DEF TypeOK
  <2>2. SendPlain(n, NextHop(n, a), a, m, TRUE) => ReliableTypeOK'
    BY <1>1, SendPlainType DEF TypeOK
  <2>3. QED
    BY <2>1, <2>2 DEF AppSend, AppSendRefused
<1>3. CASE AppSend(n, m, a, reliable)
  BY <1>2, <1>3 DEF AppSend, TypeOK, Sent, routingVars, transportVars
<1>4. CASE AppSendRefused(n, m, a)
  BY <1>2, <1>4, FaultsAssumption DEF AppSendRefused, TypeOK, routingVars, appVars
<1>5. QED
  BY <1>3, <1>4

(* A packet that is not plain has a number.                                 *)
LEMMA PacketFields ==
    ASSUME TypeOK, NEW p \in net
    PROVE  /\ p \in Packet /\ p.dst \in Node /\ p.origin \in Node /\ p.addr \in Addr
           /\ p.body \in Body \cup {NoBody}
           /\ p.kind # PlainKind => p.seq \in Seq
BY DEF TypeOK, ReliableTypeOK, Packet, Seq, NoSeq

(* Receiving keeps the types; only an ACK has no payload.                   *)
LEMMA ReceiveType ==
    ASSUME TypeOK, NEW p \in net, p.kind # AckKind => p.body \in Body, Receive(p)
    PROVE  TypeOK'
<1>1. /\ p \in Packet /\ p.dst \in Node /\ p.origin \in Node /\ p.addr \in Addr
      /\ p.kind # PlainKind => p.seq \in Seq
  BY PacketFields
<1>2. CASE ReceiveAck(p)
  <2>1. ReliableTypeOK'
    BY <1>1, <1>2, HandleAckPacketType DEF ReceiveAck, TypeOK
  <2>2. /\ routingState' \in [Node -> RoutingState]
        /\ networkReady' \in [Node -> BOOLEAN]
    BY <1>1, <1>2 DEF ReceiveAck, TypeOK, RoutingState
  <2>3. confirmed' \subseteq Message
    BY <1>2 DEF ReceiveAck, TypeOK
  <2>4. QED
    BY <1>2, <2>1, <2>2, <2>3 DEF ReceiveAck, TypeOK, transportVars
<1>3. CASE ReceiveAnnouncement(p)
  <2>1. p.seq \in Seq
    BY <1>1, <1>3 DEF ReceiveAnnouncement, ReliableKind, PlainKind
  <2>2. ReliableTypeOK'
    BY <1>1, <1>3, <2>1, HandleReliablePacketType DEF ReceiveAnnouncement, TypeOK
  <2>3. /\ thingIdToIp' \in [Node -> [Thing -> Node \cup {NoIp}]]
        /\ localDestinations' \in [Node -> SUBSET Thing]
    <3>1. RegisterThings(p) \in [Thing -> Node \cup {NoIp}]
      BY <1>1 DEF TypeOK, RegisterThings
    <3>2. \/ UNCHANGED <<thingIdToIp, localDestinations>>
          \/ /\ thingIdToIp' = [thingIdToIp EXCEPT ![Leader] = RegisterThings(p)]
             /\ localDestinations' = [localDestinations EXCEPT ![Leader] = @ \ p.body]
      BY <1>3 DEF ReceiveAnnouncement
    <3>3. QED
      BY <3>1, <3>2, LeaderIsNode, ZenonT(60) DEF TypeOK
  <2>4. UNCHANGED <<networkReady, routingState, transportVars, appVars>>
    BY <1>3, Zenon DEF ReceiveAnnouncement
  <2>5. QED
    BY <2>2, <2>3, <2>4 DEF TypeOK, transportVars, appVars
<1>4. CASE p.kind # AckKind /\ Accept(p)
  <2>1. ReliableTypeOK'
    <3>1. CASE p.kind = ReliableKind
      <4>1. p.seq \in Seq
        BY <1>1, <3>1 DEF ReliableKind, PlainKind
      <4>2. QED
        BY <1>1, <1>4, <3>1, <4>1, HandleReliablePacketType DEF Accept, Acknowledge, TypeOK
    <3>2. CASE p.kind # ReliableKind
      BY <1>4, <3>2 DEF Accept, Acknowledge, TypeOK, ReliableTypeOK, reliableVars
    <3>3. QED
      BY <3>1, <3>2
  <2>2. [at |-> p.dst, addr |-> p.addr, body |-> p.body] \in Dispatch
    BY <1>1, <1>4 DEF Dispatch
  <2>3. dispatched' \subseteq Dispatch
    BY <1>4, <2>2 DEF Accept, TypeOK
  <2>4. UNCHANGED <<routingVars, transportVars, sent, confirmed>>
    BY <1>4, Zenon DEF Accept
  <2>5. QED
    BY <2>1, <2>3, <2>4 DEF TypeOK, routingVars, transportVars
<1>7. CASE Acknowledge(p) /\ UNCHANGED <<routingVars, transportVars, appVars>>
  <2>1. ReliableTypeOK'
    <3>1. CASE p.kind = ReliableKind
      <4>1. p.seq \in Seq
        BY <1>1, <3>1 DEF ReliableKind, PlainKind
      <4>2. QED
        BY <1>1, <1>7, <3>1, <4>1, HandleReliablePacketType DEF Acknowledge, TypeOK
    <3>2. CASE p.kind # ReliableKind
      BY <1>7, <3>2 DEF Acknowledge, TypeOK, ReliableTypeOK, reliableVars
    <3>3. QED
      BY <3>1, <3>2
  <2>2. QED
    BY <1>7, <2>1 DEF TypeOK, routingVars, transportVars, appVars
<1>5. CASE Forward(p)
  <2> DEFINE q == [p EXCEPT !.dst = thingIdToIp[p.dst][p.addr], !.life = MaxDelay]
  <2>1. thingIdToIp[p.dst][p.addr] \in Node
    BY <1>1, <1>5 DEF Forward, TypeOK
  <2>2. q \in Packet
    <3> DEFINE r == [p EXCEPT !.dst = thingIdToIp[p.dst][p.addr]]
    <3>1. r \in Packet
      BY <1>1, <2>1 DEF Packet
    <3>2. q = [r EXCEPT !.life = MaxDelay]
      OBVIOUS
    <3> HIDE DEF r, q
    <3>3. QED
      BY <3>1, <3>2, NumbersAssumption DEF Packet
  <2>3. net' \subseteq Packet
    BY <1>5, <2>2, PutType DEF Forward, TypeOK, ReliableTypeOK
  <2>4. ReliableTypeOK'
    BY <1>5, <2>3 DEF Forward, TypeOK, ReliableTypeOK
  <2>5. QED
    BY <1>5, <2>4 DEF Forward, TypeOK, routingVars, transportVars, appVars
<1>6. QED
  BY <1>2, <1>3, <1>4, <1>5, <1>7 DEF Receive, ReceiveControl, ReceiveLocal

LEMMA LoopType ==
    ASSUME TypeOK, Tick \/ \E n \in Node : Pump(n)
    PROVE  TypeOK'
<1>1. CASE Tick
  <2>1. ReliableTypeOK'
    BY <1>1, ReliableTickType DEF Tick, TypeOK
  <2>2. QED
    BY <1>1, <2>1 DEF Tick, TypeOK, routingVars, transportVars, appVars
<1>2. ASSUME NEW n \in Node, Pump(n) PROVE TypeOK'
  <2>1. ReliableTypeOK'
    BY <1>2, PumpReliableType DEF Pump, TypeOK
  <2>2. StateAfterPump(n) \in RoutingState
    BY DEF StateAfterPump, TypeOK, RoutingState
  <2>3. /\ routingState' = [routingState EXCEPT ![n] = StateAfterPump(n)]
        /\ UNCHANGED <<networkReady, thingIdToIp, localDestinations, transportVars, appVars>>
    BY <1>2, Zenon DEF Pump
  <2>4. QED
    BY <2>1, <2>2, <2>3 DEF TypeOK, transportVars, appVars
<1>3. QED
  BY <1>1, <1>2

LEMMA EnvironmentType ==
    ASSUME TypeOK, NEW n \in Node,
           \/ TransportUp(n) \/ TransportDown(n) \/ Sleep(n) \/ PowerCycle(n)
           \/ \E ready \in AppReadyArgs[n] : AppSetNetworkReady(n, ready)
    PROVE  TypeOK'
<1>1. ASSUME TransportUp(n) \/ TransportDown(n) PROVE TypeOK'
  <2>1. ReliableTypeOK'
    BY <1>1 DEF TransportUp, TransportDown, TypeOK, ReliableTypeOK, reliableVars
  <2>2. /\ ltReady' \in [Node -> BOOLEAN]
        /\ faults' \in 0 .. MaxFaults
    <3>1. CASE TransportUp(n)
      <4>1. ltReady' = [ltReady EXCEPT ![n] = TRUE] /\ UNCHANGED faults
        BY <3>1 DEF TransportUp
      <4>2. QED
        BY <4>1 DEF TypeOK
    <3>2. CASE TransportDown(n)
      <4>1. /\ ltReady' = [ltReady EXCEPT ![n] = FALSE]
            /\ faults < MaxFaults /\ faults' = faults + 1
        BY <3>2 DEF TransportDown
      <4>2. QED
        BY <4>1, FaultsAssumption DEF TypeOK
    <3>3. QED
      BY <1>1, <3>1, <3>2
  <2>3. UNCHANGED <<routingVars, wasReady, appVars>>
    BY <1>1 DEF TransportUp, TransportDown
  <2>4. QED
    BY <2>1, <2>2, <2>3 DEF TypeOK, routingVars, appVars
<1>2. CASE Sleep(n) \/ PowerCycle(n)
  <2>1. ReliableTypeOK' /\ Begin(n)
    BY <1>2, WipeRamType DEF Sleep, PowerCycle, TypeOK
  <2>2. faults' \in 0 .. MaxFaults
    BY <1>2, FaultsAssumption DEF Sleep, PowerCycle, TypeOK
  <2>3. QED
    BY <1>2, <2>1, <2>2, ClearTablesType
    DEF Sleep, PowerCycle, Begin, TypeOK, RoutingState, appVars
<1>3. ASSUME NEW ready \in AppReadyArgs[n], AppSetNetworkReady(n, ready) PROVE TypeOK'
  <2>1. ReliableTypeOK'
    BY <1>3 DEF AppSetNetworkReady, TypeOK, ReliableTypeOK, reliableVars
  <2>2. QED
    BY <1>3, <2>1, FaultsAssumption DEF AppSetNetworkReady, TypeOK, transportVars, appVars
<1>4. QED
  BY <1>1, <1>2, <1>3

-----------------------------------------------------------------------------
(* Served by the owner: what devices put into the mesh is for a host of the  *)
(* thing, or for the leader, whose table names hosts only.                   *)

\* What n may send to hop: an announcement only of its own things.
WellSent(n, hop, addr, body) ==
    /\ body \in Body
    /\ addr = RoutingAddr => n \in Joiner /\ hop = Leader /\ body = LocalThings[n]
    /\ hop # Leader => addr \in LocalThings[hop]

EntriesWell == \A n \in Node : \A e \in pending[n] : WellSent(n, e.nextHop, e.addr, e.body)

PacketsWell ==
    \A p \in net : p.kind # AckKind => WellSent(p.origin, p.dst, p.addr, p.body)

TableRight ==
    /\ \A t \in Thing :
         thingIdToIp[Leader][t] # NoIp => t \in LocalThings[thingIdToIp[Leader][t]]
    /\ localDestinations[Leader] \subseteq LocalThings[Leader]

RouteInv == TypeOK /\ EntriesWell /\ PacketsWell /\ TableRight /\ ServedByOwner

(* What delivery does to packets and pending entries keeps them well sent.   *)
LEMMA SendReliableWell ==
    ASSUME TypeOK, EntriesWell, PacketsWell,
           NEW n \in Node, NEW hop, NEW addr, NEW body, NEW s, NEW result,
           result => WellSent(n, hop, addr, body),
           SendReliable(n, hop, addr, body, s, result)
    PROVE  EntriesWell' /\ PacketsWell'
<1>1. CASE ~result
  BY <1>1 DEF SendReliable, EntriesWell, PacketsWell
<1>2. CASE result
  <2> DEFINE entry == NewPending(s, hop, addr, body)
             packet == BuildPacket(ReliableKind, n, hop, s, addr, body)
  <2>1. /\ entry.nextHop = hop /\ entry.addr = addr /\ entry.body = body
        /\ packet.origin = n /\ packet.dst = hop /\ packet.addr = addr
        /\ packet.body = body
    BY DEF NewPending, BuildPacket
  <2>2. WellSent(n, hop, addr, body)
    BY <1>2
  <2>3. /\ pending' = StorePending(n, entry)
        /\ net' = Put({packet})
    BY <1>2 DEF SendReliable
  <2> HIDE DEF entry, packet
  <2>4. EntriesWell'
    BY <2>1, <2>2, <2>3 DEF EntriesWell, StorePending, TypeOK, ReliableTypeOK
  <2>5. PacketsWell'
    BY <2>1, <2>2, <2>3, PutOrigin DEF PacketsWell
  <2>6. QED
    BY <2>4, <2>5
<1>3. QED
  BY <1>1, <1>2

LEMMA SendPlainWell ==
    ASSUME TypeOK, EntriesWell, PacketsWell,
           NEW n \in Node, NEW hop, NEW addr, NEW body, WellSent(n, hop, addr, body),
           SendPlain(n, hop, addr, body, TRUE)
    PROVE  EntriesWell' /\ PacketsWell'
<1> DEFINE packet == BuildPacket(PlainKind, n, hop, NoSeq, addr, body)
<1>1. packet.origin = n /\ packet.dst = hop /\ packet.addr = addr /\ packet.body = body
  BY DEF BuildPacket
<1>2. net' = Put({packet}) /\ pending' = pending
  BY DEF SendPlain
<1> HIDE DEF packet
<1>3. PacketsWell'
  BY <1>1, <1>2, PutOrigin DEF PacketsWell
<1>4. QED
  BY <1>2, <1>3 DEF EntriesWell

LEMMA HandleReliablePacketWell ==
    ASSUME EntriesWell, PacketsWell, NEW p \in net, HandleReliablePacket(p)
    PROVE  EntriesWell' /\ PacketsWell'
<1> DEFINE ack == BuildPacket(AckKind, p.dst, p.origin, p.seq, p.addr, NoBody)
<1>1. ack.kind = AckKind
  BY DEF BuildPacket
<1>2. net' = Put({ack}) /\ pending' = pending
  BY DEF HandleReliablePacket
<1> HIDE DEF ack
<1>3. PacketsWell'
  BY <1>1, <1>2, PutOrigin DEF PacketsWell
<1>4. QED
  BY <1>2, <1>3 DEF EntriesWell

LEMMA PumpWell ==
    ASSUME TypeOK, EntriesWell, PacketsWell, NEW n \in Node, PumpReliable(n)
    PROVE  EntriesWell' /\ PacketsWell'
<1> DEFINE Copy(e) == BuildPacket(ReliableKind, n, e.nextHop, e.seq, e.addr, e.body)
<1>1. Resent(n) \subseteq pending[n] /\ pending[n] \subseteq PendingEntry
  BY DEF Resent, Due, TypeOK, ReliableTypeOK
<1>2. ASSUME NEW e \in Resent(n)
      PROVE  /\ AfterResend(e).nextHop = e.nextHop /\ AfterResend(e).addr = e.addr
             /\ AfterResend(e).body = e.body
             /\ WellSent(n, e.nextHop, e.addr, e.body)
  BY <1>1 DEF AfterResend, PendingEntry, EntriesWell
<1>3. ASSUME NEW e
      PROVE  /\ Copy(e).origin = n /\ Copy(e).dst = e.nextHop
             /\ Copy(e).addr = e.addr /\ Copy(e).body = e.body
  BY DEF BuildPacket
<1>4. pending' = [pending EXCEPT ![n] =
                    (@ \ Due(n)) \cup {AfterResend(e) : e \in Resent(n)}]
  BY DEF PumpReliable
<1>5. net' = Put({Copy(e) : e \in Resent(n)})
  BY DEF PumpReliable
<1> HIDE DEF Copy
<1>6. EntriesWell'
  BY <1>2, <1>4 DEF EntriesWell, TypeOK, ReliableTypeOK
<1>7. PacketsWell'
  BY <1>2, <1>3, <1>5, PutOrigin DEF PacketsWell
<1>8. QED
  BY <1>6, <1>7

LEMMA TickWell ==
    ASSUME TypeOK, EntriesWell, PacketsWell, ReliableTick
    PROVE  EntriesWell' /\ PacketsWell'
<1> DEFINE Sooner(e) == [e EXCEPT !.due = @ - 1]
           Older(p) == [p EXCEPT !.life = @ - 1]
<1>1. ASSUME NEW n \in Node, NEW e \in pending[n]
      PROVE  /\ Sooner(e).nextHop = e.nextHop /\ Sooner(e).addr = e.addr
             /\ Sooner(e).body = e.body
  BY DEF TypeOK, ReliableTypeOK, PendingEntry
<1>2. ASSUME NEW p \in net
      PROVE  /\ Older(p).kind = p.kind /\ Older(p).origin = p.origin
             /\ Older(p).dst = p.dst /\ Older(p).addr = p.addr /\ Older(p).body = p.body
  BY DEF TypeOK, ReliableTypeOK, Packet
<1>3. /\ pending' = [n \in Node |-> {Sooner(e) : e \in pending[n]}]
      /\ net' = {Older(p) : p \in {q \in net : q.life > 0}}
  BY DEF ReliableTick
<1> HIDE DEF Sooner, Older
<1>4. EntriesWell'
  BY <1>1, <1>3 DEF EntriesWell
<1>5. PacketsWell'
  BY <1>2, <1>3 DEF PacketsWell
<1>6. QED
  BY <1>4, <1>5

(* A device that sends to its next hop sends well, announcements apart.      *)
LEMMA NextHopWell ==
    ASSUME RouteInv, NEW n \in Node, NEW a \in Addr \ {RoutingAddr}, NEW m \in Message,
           NextHop(n, a) # NoIp
    PROVE  WellSent(n, NextHop(n, a), a, m)
BY RolesAssumption, BodyAssumption DEF NextHop, WellSent, RouteInv, TableRight

(* The table of the leader is right from its first entry.                   *)
LEMMA UpdateWell ==
    ASSUME RouteInv, NEW n \in Node, RoutingUpdate(n)
    PROVE  (EntriesWell /\ PacketsWell /\ TableRight /\ ServedByOwner)'
<1>1. /\ TypeOK /\ EntriesWell /\ PacketsWell /\ TableRight /\ ServedByOwner
      /\ Leader \in Node
  BY LeaderIsNode DEF RouteInv
<1>2. ClearTables(n) => TableRight'
  BY <1>1 DEF ClearTables, NoOwners, TableRight, TypeOK
<1>3. CASE OnLightThreadLost(n)
  <2>1. ClearTables(n) /\ UNCHANGED <<reliableVars, appVars>>
    BY <1>3 DEF OnLightThreadLost
  <2>2. QED
    BY <1>1, <1>2, <2>1 DEF EntriesWell, PacketsWell, ServedByOwner, reliableVars, appVars
<1>4. CASE LeaderOnLightThreadReady
  <2>1. /\ thingIdToIp'[Leader] =
             [t \in Thing |-> IF t \in LocalThings[Leader] THEN Leader ELSE NoIp]
        /\ localDestinations'[Leader] = LocalThings[Leader]
        /\ UNCHANGED <<reliableVars, appVars>>
    BY <1>1, <1>4 DEF LeaderOnLightThreadReady, TypeOK
  <2>2. TableRight'
    BY <2>1 DEF TableRight
  <2>3. QED
    BY <1>1, <2>1, <2>2 DEF EntriesWell, PacketsWell, ServedByOwner, reliableVars, appVars
<1>5. CASE n \in Joiner /\ JoinerAnnounces(n)
  <2>1. WellSent(n, Leader, RoutingAddr, LocalThings[n])
    BY <1>5, TableIsBody DEF WellSent
  <2>2. EntriesWell' /\ PacketsWell'
    <3>1. ASSUME NEW s, NEW result,
                 SendReliable(n, Leader, RoutingAddr, LocalThings[n], s, result)
          PROVE  EntriesWell' /\ PacketsWell'
      BY <1>1, <2>1, <3>1, SendReliableWell
    <3>2. UNCHANGED reliableVars => EntriesWell' /\ PacketsWell'
      BY <1>1 DEF EntriesWell, PacketsWell, reliableVars
    <3>3. QED
      BY <1>5, <3>1, <3>2 DEF JoinerAnnounces, SendAnnouncement
  <2>3. TableRight'
    <3>1. \/ ClearTables(n)
          \/ UNCHANGED <<thingIdToIp, localDestinations>>
      BY <1>5 DEF JoinerAnnounces
    <3>2. QED
      BY <1>1, <1>2, <3>1 DEF TableRight
  <2>4. ServedByOwner'
    BY <1>1, <1>5 DEF JoinerAnnounces, ServedByOwner, appVars
  <2>5. QED
    BY <2>2, <2>3, <2>4
<1>6. QED
  BY <1>3, <1>4, <1>5 DEF RoutingUpdate

LEMMA SendWell ==
    ASSUME RouteInv, NEW n \in Node, NEW m \in Message, NEW a \in Addr \ {RoutingAddr},
           NEW reliable \in BOOLEAN,
           AppSend(n, m, a, reliable) \/ AppSendRefused(n, m, a)
    PROVE  (EntriesWell /\ PacketsWell /\ TableRight /\ ServedByOwner)'
<1>1. TypeOK /\ EntriesWell /\ PacketsWell /\ TableRight /\ ServedByOwner
  BY DEF RouteInv
<1>2. WellSent(n, NextHop(n, a), a, m)
  BY NextHopWell DEF AppSend, AppSendRefused
<1>3. EntriesWell' /\ PacketsWell'
  <2>1. ASSUME NEW s, NEW result, SendReliable(n, NextHop(n, a), a, m, s, result)
        PROVE  EntriesWell' /\ PacketsWell'
    BY <1>1, <1>2, <2>1, SendReliableWell
  <2>2. SendPlain(n, NextHop(n, a), a, m, TRUE) => EntriesWell' /\ PacketsWell'
    BY <1>1, <1>2, SendPlainWell
  <2>3. QED
    BY <2>1, <2>2 DEF AppSend, AppSendRefused
<1>4. UNCHANGED <<routingVars, dispatched>>
  BY DEF AppSend, AppSendRefused, appVars
<1>5. QED
  BY <1>1, <1>3, <1>4 DEF TableRight, ServedByOwner, routingVars

(* What a device serves it hosts, and what the leader learns is so.         *)
LEMMA ReceiveWell ==
    ASSUME RouteInv, NEW p \in net, Receive(p)
    PROVE  (EntriesWell /\ PacketsWell /\ TableRight /\ ServedByOwner)'
<1>1. /\ TypeOK /\ EntriesWell /\ PacketsWell /\ TableRight /\ ServedByOwner
      /\ Leader \in Node
  BY LeaderIsNode DEF RouteInv
<1>2. /\ p \in Packet /\ p.dst \in Node /\ p.origin \in Node /\ p.addr \in Addr
      /\ p.kind # AckKind => WellSent(p.origin, p.dst, p.addr, p.body)
  BY <1>1, PacketFields DEF PacketsWell
<1>3. CASE ReceiveAck(p)
  <2>1. UNCHANGED <<net, thingIdToIp, localDestinations, dispatched>>
    BY <1>3 DEF ReceiveAck, HandleAckPacket
  <2>2. \A n \in Node : pending'[n] \subseteq pending[n]
    BY <1>1, <1>3 DEF ReceiveAck, HandleAckPacket, TypeOK, ReliableTypeOK
  <2>3. QED
    BY <1>1, <2>1, <2>2 DEF EntriesWell, PacketsWell, TableRight, ServedByOwner
<1>4. CASE ReceiveAnnouncement(p)
  <2>1. p.origin \in Joiner /\ p.dst = Leader /\ p.body = LocalThings[p.origin]
    BY <1>2, <1>4 DEF ReceiveAnnouncement, WellSent, AckKind, ReliableKind
  <2>2. EntriesWell' /\ PacketsWell'
    BY <1>1, <1>4, HandleReliablePacketWell DEF ReceiveAnnouncement
  <2>3. \A t \in Thing :
          RegisterThings(p)[t] # NoIp => t \in LocalThings[RegisterThings(p)[t]]
    BY <1>1, <2>1 DEF RegisterThings, TableRight
  <2>4. TableRight'
    <3>1. \/ UNCHANGED <<thingIdToIp, localDestinations>>
          \/ /\ thingIdToIp' = [thingIdToIp EXCEPT ![Leader] = RegisterThings(p)]
             /\ localDestinations' = [localDestinations EXCEPT ![Leader] = @ \ p.body]
      BY <1>4 DEF ReceiveAnnouncement
    <3>2. QED
      BY <1>1, <2>3, <3>1 DEF TableRight, TypeOK
  <2>5. ServedByOwner'
    BY <1>1, <1>4 DEF ReceiveAnnouncement, ServedByOwner, appVars
  <2>6. QED
    BY <2>2, <2>4, <2>5
<1>5. CASE /\ p.kind # AckKind /\ Accept(p)
           /\ IF p.addr = ControlAddr THEN p.dst = Leader
              ELSE p.addr \in LocalThings[p.dst]
  <2>1. EntriesWell' /\ PacketsWell'
    <3>1. HandleReliablePacket(p) \/ UNCHANGED reliableVars
      BY <1>5 DEF Accept, Acknowledge
    <3>2. QED
      BY <1>1, <3>1, HandleReliablePacketWell DEF EntriesWell, PacketsWell, reliableVars
  <2>2. UNCHANGED routingVars
    BY <1>5 DEF Accept
  <2>3. TableRight'
    BY <1>1, <2>2 DEF TableRight, routingVars
  <2>4. dispatched' \subseteq
          dispatched \cup {[at |-> p.dst, addr |-> p.addr, body |-> p.body]}
    BY <1>5 DEF Accept
  <2>5. ServedByOwner'
    BY <1>1, <1>5, <2>4 DEF ServedByOwner
  <2>6. QED
    BY <2>1, <2>3, <2>5
<1>10. CASE Acknowledge(p) /\ UNCHANGED <<routingVars, appVars>>
  <2>1. EntriesWell' /\ PacketsWell'
    <3>1. HandleReliablePacket(p) \/ UNCHANGED reliableVars
      BY <1>10 DEF Acknowledge
    <3>2. QED
      BY <1>1, <3>1, HandleReliablePacketWell DEF EntriesWell, PacketsWell, reliableVars
  <2>2. TableRight' /\ ServedByOwner'
    BY <1>1, <1>10 DEF TableRight, ServedByOwner, routingVars, appVars
  <2>3. QED
    BY <2>1, <2>2
<1>6. CASE ReceiveControl(p)
  BY <1>5, <1>6, <1>10 DEF ReceiveControl
<1>7. CASE ReceiveLocal(p)
  <2>1. p.addr \in LocalThings[p.dst]
    <3>1. CASE p.dst = Leader
      BY <1>1, <1>7, <3>1, RolesAssumption DEF ReceiveLocal, IsLocal, TableRight
    <3>2. CASE p.dst # Leader
      BY <1>2, <1>7, <3>2 DEF ReceiveLocal, WellSent
    <3>3. QED
      BY <3>1, <3>2
  <2>2. p.addr # ControlAddr
    BY <1>7 DEF ReceiveLocal, Thing, LeaderAddr
  <2>3. QED
    BY <1>5, <1>7, <2>1, <2>2 DEF ReceiveLocal
<1>8. CASE Forward(p)
  <2> DEFINE hop == thingIdToIp[p.dst][p.addr]
             r == [p EXCEPT !.dst = hop]
             q == [r EXCEPT !.life = MaxDelay]
  <2>1. /\ p.dst = Leader /\ p.addr \in Thing /\ p.kind # AckKind
        /\ hop # NoIp /\ net' = Put({q})
        /\ UNCHANGED <<pending, routingVars, dispatched>>
    BY <1>2, <1>8, RolesAssumption DEF Forward, IsLocal, appVars
  <2>2. p.addr \in LocalThings[hop] /\ hop \in Node
    BY <1>1, <2>1 DEF TableRight, TypeOK
  <2>3. /\ r.dst = hop /\ r.kind = p.kind /\ r.origin = p.origin
        /\ r.addr = p.addr /\ r.body = p.body /\ r \in Packet
    BY <1>2, <2>2 DEF Packet
  <2> HIDE DEF hop, r
  <2>4. /\ q.dst = hop /\ q.origin = p.origin /\ q.addr = p.addr /\ q.body = p.body
    BY <2>3 DEF Packet
  <2> HIDE DEF q
  <2>5. WellSent(q.origin, q.dst, q.addr, q.body)
    BY <1>2, <2>1, <2>2, <2>4 DEF WellSent, Thing, LeaderAddr
  <2>6. PacketsWell'
    BY <1>1, <2>1, <2>5, PutOrigin DEF PacketsWell
  <2>7. QED
    BY <1>1, <2>1, <2>6 DEF EntriesWell, TableRight, ServedByOwner, routingVars
<1>9. QED
  BY <1>3, <1>4, <1>6, <1>7, <1>8 DEF Receive

LEMMA LoopWell ==
    ASSUME RouteInv, Tick \/ \E n \in Node : Pump(n)
    PROVE  (EntriesWell /\ PacketsWell /\ TableRight /\ ServedByOwner)'
<1>1. TypeOK /\ EntriesWell /\ PacketsWell /\ TableRight /\ ServedByOwner
  BY DEF RouteInv
<1>2. EntriesWell' /\ PacketsWell'
  BY <1>1, TickWell, PumpWell DEF Tick, Pump
<1>3. UNCHANGED <<thingIdToIp, localDestinations, dispatched>>
  BY DEF Tick, Pump, routingVars, appVars
<1>4. QED
  BY <1>1, <1>2, <1>3 DEF TableRight, ServedByOwner

LEMMA EnvironmentWell ==
    ASSUME RouteInv, NEW n \in Node,
           \/ TransportUp(n) \/ TransportDown(n) \/ Sleep(n) \/ PowerCycle(n)
           \/ \E ready \in AppReadyArgs[n] : AppSetNetworkReady(n, ready)
    PROVE  (EntriesWell /\ PacketsWell /\ TableRight /\ ServedByOwner)'
<1>1. /\ TypeOK /\ EntriesWell /\ PacketsWell /\ TableRight /\ ServedByOwner
      /\ Leader \in Node
  BY LeaderIsNode DEF RouteInv
<1>2. CASE Sleep(n) \/ PowerCycle(n)
  <2>1. /\ pending' = [pending EXCEPT ![n] = {}] /\ net' = net
        /\ ClearTables(n) /\ dispatched' = dispatched
    BY <1>2 DEF Sleep, PowerCycle, WakeFromSleep, ColdBoot, WipeRam, Begin, appVars
  <2>2. TableRight'
    BY <1>1, <2>1 DEF ClearTables, NoOwners, TableRight, TypeOK
  <2>3. EntriesWell'
    BY <1>1, <2>1 DEF EntriesWell, TypeOK, ReliableTypeOK
  <2>4. QED
    BY <1>1, <2>1, <2>2, <2>3 DEF PacketsWell, ServedByOwner
<1>3. CASE ~(Sleep(n) \/ PowerCycle(n))
  <2>1. UNCHANGED <<pending, net, thingIdToIp, localDestinations, dispatched>>
    BY <1>3 DEF TransportUp, TransportDown, AppSetNetworkReady, reliableVars,
                routingVars, appVars
  <2>2. QED
    BY <1>1, <2>1 DEF EntriesWell, PacketsWell, TableRight, ServedByOwner
<1>4. QED
  BY <1>2, <1>3

(* Every step keeps the invariant.                                          *)
LEMMA RouteInvStep == RouteInv /\ [Next]_vars => RouteInv'
<1> SUFFICES ASSUME RouteInv, [Next]_vars PROVE RouteInv'
  OBVIOUS
<1>1. TypeOK
  BY DEF RouteInv
<1>2. ASSUME NEW n \in Node, RoutingUpdate(n) PROVE RouteInv'
  BY <1>1, <1>2, RoutingUpdateType, UpdateWell DEF RouteInv
<1>3. ASSUME NEW n \in Node, Pump(n) PROVE RouteInv'
  BY <1>1, <1>3, LoopType, LoopWell DEF RouteInv
<1>4. CASE Tick
  BY <1>1, <1>4, LoopType, LoopWell DEF RouteInv
<1>5. ASSUME NEW n \in Node,
             \/ TransportUp(n) \/ TransportDown(n) \/ Sleep(n) \/ PowerCycle(n)
             \/ \E ready \in AppReadyArgs[n] : AppSetNetworkReady(n, ready)
      PROVE  RouteInv'
  BY <1>1, <1>5, EnvironmentType, EnvironmentWell DEF RouteInv
<1>6. ASSUME NEW n \in Node, NEW m \in Message, NEW a \in Addr \ {RoutingAddr},
             NEW reliable \in BOOLEAN,
             AppSend(n, m, a, reliable) \/ AppSendRefused(n, m, a)
      PROVE  RouteInv'
  BY <1>1, <1>6, AppSendType, SendWell DEF RouteInv
<1>7. ASSUME NEW p \in net, Receive(p) PROVE RouteInv'
  <2>1. p.kind # AckKind => p.body \in Body
    BY DEF RouteInv, PacketsWell, WellSent
  <2>2. QED
    BY <1>1, <1>7, <2>1, ReceiveType, ReceiveWell DEF RouteInv
<1>8. CASE UNCHANGED vars
  BY <1>8 DEF RouteInv, TypeOK, ReliableTypeOK, EntriesWell, PacketsWell, TableRight,
              ServedByOwner, vars, reliableVars, routingVars, transportVars, appVars
<1>9. QED
  BY <1>2, <1>3, <1>4, <1>5, <1>6, <1>7, <1>8, FaultsAssumption DEF Next

LEMMA RouteInvInit == Init => RouteInv
<1> SUFFICES ASSUME Init PROVE RouteInv
  OBVIOUS
<1>1. TypeOK
  BY InitTypeOK
<1>2. QED
  BY <1>1, LeaderIsNode
  DEF Init, ReliableInit, NoOwners, RouteInv, EntriesWell, PacketsWell, TableRight,
      ServedByOwner

(* A message is served only by a device that hosts its address, and a serial *)
(* packet only by the leader, however often things change hands, devices     *)
(* restart and packets are repeated (handlePacket, routingClassifyPacket).   *)
THEOREM OnlyOwnersServe == Spec => [](TypeOK /\ ServedByOwner)
<1>1. RouteInv => TypeOK /\ ServedByOwner
  BY DEF RouteInv
<1>2. QED
  BY <1>1, RouteInvInit, RouteInvStep, PTL DEF Spec

-----------------------------------------------------------------------------
(* Reachable when ready: until the leader is up nothing happens, and from    *)
(* then on whatever a joiner leaves behind, other than announcements on      *)
(* their way, comes after the leader has registered it.                      *)

LeaderStays ==
    /\ Leader \notin Flappers \cup Sleepers \cup ColdBooters
    /\ \A i \in Node : TRUE \notin AppReadyArgs[i]

Quiet ==
    /\ net = {}
    /\ \A n \in Node : pending[n] = {} /\ seen[n] = {} /\ ~networkReady[n]
    /\ \A j \in Joiner : ~ltReady[j]

LeaderFirst ==
    /\ wasReady[Leader] => ltReady[Leader]
    /\ ~wasReady[Leader] => Quiet

\* A packet that j may have sent, or been sent, before the leader knew it.
Silent(p, j) ==
    /\ p.kind = AckKind => ~(p.dst = j /\ p.addr = RoutingAddr)
    /\ p.kind # AckKind /\ p.origin = j => p.addr = RoutingAddr

\* Nothing tells that the leader has heard of j.
Unheard(j) ==
    /\ ~networkReady[j]
    /\ \A e \in seen[Leader] : e.origin # j
    /\ \A e \in pending[j] : e.addr = RoutingAddr
    /\ \A p \in net : Silent(p, j)

HeardMeansRoutable == \A j \in Joiner : Unheard(j) \/ Routable(j)

ReachInv == RouteInv /\ LeaderFirst /\ HeardMeansRoutable

(* The leader is up first, and stays.                                       *)
LEMMA LeaderFirstStep ==
    ASSUME LeaderStays, RouteInv, LeaderFirst, [Next]_vars
    PROVE  LeaderFirst'
<1>1. TypeOK /\ Leader \in Node /\ Leader \notin Joiner /\ Joiner \subseteq Node
  BY LeaderIsNode, RolesAssumption DEF RouteInv
<1>2. ASSUME NEW n \in Node, RoutingUpdate(n) PROVE LeaderFirst'
  <2>1. CASE OnLightThreadLost(n)
    <3>1. n # Leader
      BY <2>1 DEF OnLightThreadLost, LeaderFirst
    <3>2. /\ wasReady'[Leader] = wasReady[Leader] /\ ltReady' = ltReady
          /\ networkReady' = [networkReady EXCEPT ![n] = FALSE]
          /\ UNCHANGED <<net, pending, seen>>
      BY <1>1, <2>1, <3>1 DEF OnLightThreadLost, TypeOK, reliableVars
    <3>3. QED
      BY <1>1, <3>2 DEF LeaderFirst, Quiet, TypeOK
  <2>2. CASE LeaderOnLightThreadReady
    BY <1>1, <2>2 DEF LeaderOnLightThreadReady, LeaderFirst, TypeOK
  <2>3. CASE n \in Joiner /\ JoinerAnnounces(n)
    <3>1. wasReady[Leader] /\ ltReady[Leader] /\ n # Leader
      BY <1>1, <2>3 DEF JoinerAnnounces, LeaderFirst, Quiet
    <3>2. wasReady'[Leader] /\ ltReady'[Leader]
      BY <1>1, <2>3, <3>1 DEF JoinerAnnounces, TypeOK
    <3>3. QED
      BY <3>2 DEF LeaderFirst
  <2>4. QED
    BY <1>2, <2>1, <2>2, <2>3 DEF RoutingUpdate
<1>3. ASSUME NEW n \in Node, Pump(n) PROVE LeaderFirst'
  <2>1. UNCHANGED <<wasReady, ltReady, networkReady>>
    BY <1>3 DEF Pump, transportVars
  <2>2. ASSUME Quiet PROVE Quiet'
    <3>1. pending[n] = {} /\ seen[n] = {} /\ net = {}
      BY <2>2 DEF Quiet
    <3>2. Resent(n) = {} /\ Trimmed(n) = {}
      BY <3>1 DEF Resent, Due, Trimmed, Renumber
    <3>3. pending'[n] = {} /\ seen'[n] = {} /\ net' = {}
      BY <1>1, <1>3, <3>1, <3>2 DEF Pump, PumpReliable, Put, TypeOK, ReliableTypeOK
    <3>4. \A k \in Node \ {n} : pending'[k] = pending[k] /\ seen'[k] = seen[k]
      BY <1>1, <1>3 DEF Pump, PumpReliable, TypeOK, ReliableTypeOK
    <3>5. QED
      BY <2>1, <2>2, <3>3, <3>4 DEF Quiet
  <2>3. QED
    BY <2>1, <2>2 DEF LeaderFirst
<1>4. CASE Tick
  <2>1. UNCHANGED <<wasReady, ltReady, networkReady>>
    BY <1>4 DEF Tick, routingVars, transportVars
  <2>2. Quiet => Quiet'
    BY <1>4, <2>1 DEF Quiet, Tick, ReliableTick
  <2>3. QED
    BY <2>1, <2>2 DEF LeaderFirst
<1>5. ASSUME NEW n \in Node, TransportUp(n) PROVE LeaderFirst'
  <2>1. /\ ltReady' = [ltReady EXCEPT ![n] = TRUE]
        /\ n \in Joiner => wasReady[Leader]
        /\ UNCHANGED <<wasReady, networkReady, net, pending, seen>>
    BY <1>5 DEF TransportUp, reliableVars, routingVars
  <2>2. QED
    BY <1>1, <2>1, RolesAssumption DEF LeaderFirst, Quiet, TypeOK
<1>6. ASSUME NEW n \in Flappers, TransportDown(n) PROVE LeaderFirst'
  <2>1. /\ ltReady' = [ltReady EXCEPT ![n] = FALSE] /\ n # Leader /\ n \in Node
        /\ UNCHANGED <<wasReady, networkReady, net, pending, seen>>
    BY <1>6, FaultsAssumption DEF TransportDown, LeaderStays, reliableVars, routingVars
  <2>2. QED
    BY <1>1, <2>1 DEF LeaderFirst, Quiet, TypeOK
<1>7. ASSUME NEW n \in Sleepers \cup ColdBooters, Sleep(n) \/ PowerCycle(n)
      PROVE  LeaderFirst'
  <2>1. /\ n # Leader /\ n \in Node
        /\ ltReady' = [ltReady EXCEPT ![n] = FALSE]
        /\ wasReady' = [wasReady EXCEPT ![n] = FALSE]
        /\ networkReady' = [networkReady EXCEPT ![n] = FALSE]
        /\ pending' = [pending EXCEPT ![n] = {}]
        /\ seen' = [seen EXCEPT ![n] = {}]
        /\ net' = net
    BY <1>7, FaultsAssumption
    DEF Sleep, PowerCycle, Begin, WakeFromSleep, ColdBoot, WipeRam, LeaderStays
  <2>2. Quiet => Quiet'
    BY <1>1, <2>1 DEF Quiet, TypeOK, ReliableTypeOK
  <2>3. QED
    BY <1>1, <2>1, <2>2 DEF LeaderFirst, TypeOK
<1>8. ASSUME NEW n \in Node, NEW ready \in AppReadyArgs[n], AppSetNetworkReady(n, ready)
      PROVE  LeaderFirst'
  <2>1. /\ networkReady' = [networkReady EXCEPT ![n] = FALSE]
        /\ UNCHANGED <<wasReady, ltReady, net, pending, seen>>
    <3>1. ready = FALSE
      BY FaultsAssumption DEF LeaderStays
    <3>2. QED
      BY <1>8, <3>1 DEF AppSetNetworkReady, reliableVars, transportVars
  <2>2. QED
    BY <1>1, <2>1 DEF LeaderFirst, Quiet, TypeOK
<1>9. ASSUME NEW n \in Node, NEW m, NEW a, NEW reliable,
             AppSend(n, m, a, reliable) \/ AppSendRefused(n, m, a)
      PROVE  LeaderFirst'
  <2>1. ~Quiet /\ UNCHANGED <<wasReady, ltReady>>
    BY <1>9 DEF AppSend, AppSendRefused, IsReady, Quiet, transportVars
  <2>2. QED
    BY <2>1 DEF LeaderFirst
<1>10. ASSUME NEW p \in net, Receive(p) PROVE LeaderFirst'
  <2>1. ~Quiet /\ UNCHANGED <<wasReady, ltReady>>
    BY <1>10 DEF Receive, ReceiveAck, ReceiveAnnouncement, ReceiveControl, ReceiveLocal,
                 Accept, Acknowledge, Forward, Quiet, transportVars
  <2>2. QED
    BY <2>1 DEF LeaderFirst
<1>11. CASE UNCHANGED vars
  BY <1>11 DEF LeaderFirst, Quiet, vars, reliableVars, routingVars, transportVars
<1>12. QED
  BY <1>2, <1>3, <1>4, <1>5, <1>6, <1>7, <1>8, <1>9, <1>10, <1>11, FaultsAssumption
  DEF Next

(* What is known of j stays known while the leader's table is left alone,    *)
(* and nothing new is known while no trace of it is added.                   *)
LEMMA KnownStays ==
    ASSUME NEW j \in Joiner, Unheard(j) \/ Routable(j),
           UNCHANGED <<thingIdToIp[Leader], localDestinations[Leader]>>,
           Unheard(j) => Unheard(j)'
    PROVE  Unheard(j)' \/ Routable(j)'
BY DEF Routable

LEMMA UpdateHeard ==
    ASSUME LeaderStays, ReachInv, NEW n \in Node, RoutingUpdate(n)
    PROVE  HeardMeansRoutable'
<1>1. /\ TypeOK /\ LeaderFirst /\ HeardMeansRoutable
      /\ Leader \in Node /\ Leader \notin Joiner /\ Joiner \subseteq Node
  BY LeaderIsNode, RolesAssumption DEF ReachInv, RouteInv
<1>2. CASE OnLightThreadLost(n)
  <2>1. /\ n # Leader /\ ClearTables(n)
        /\ networkReady' = [networkReady EXCEPT ![n] = FALSE]
        /\ UNCHANGED <<pending, seen, net>>
    BY <1>1, <1>2 DEF OnLightThreadLost, LeaderFirst, reliableVars
  <2>2. UNCHANGED <<thingIdToIp[Leader], localDestinations[Leader]>>
    BY <1>1, <2>1 DEF ClearTables, TypeOK
  <2>3. \A j \in Joiner : Unheard(j) => Unheard(j)'
    BY <1>1, <2>1 DEF Unheard, TypeOK
  <2>4. QED
    BY <1>1, <2>2, <2>3, KnownStays DEF HeardMeansRoutable
<1>3. CASE LeaderOnLightThreadReady
  <2>1. /\ Quiet
        /\ networkReady' = [networkReady EXCEPT ![Leader] = TRUE]
        /\ UNCHANGED <<pending, seen, net>>
    BY <1>1, <1>3 DEF LeaderOnLightThreadReady, LeaderFirst, reliableVars
  <2>2. \A j \in Joiner : Unheard(j)'
    BY <1>1, <2>1 DEF Quiet, Unheard, TypeOK
  <2>3. QED
    BY <2>2 DEF HeardMeansRoutable
<1>4. CASE n \in Joiner /\ JoinerAnnounces(n)
  <2>1. UNCHANGED <<thingIdToIp[Leader], localDestinations[Leader]>>
    BY <1>1, <1>4 DEF JoinerAnnounces, ClearTables, TypeOK
  <2>2. \A j \in Joiner : networkReady'[j] => networkReady[j]
    BY <1>1, <1>4 DEF JoinerAnnounces, TypeOK
  <2>3. ASSUME NEW j \in Joiner, Unheard(j) PROVE Unheard(j)'
    <3>1. ASSUME NEW s, SendReliable(n, Leader, RoutingAddr, LocalThings[n], s, TRUE)
          PROVE  Unheard(j)'
      <4> DEFINE entry == NewPending(s, Leader, RoutingAddr, LocalThings[n])
                 packet == BuildPacket(ReliableKind, n, Leader, s, RoutingAddr, LocalThings[n])
      <4>1. /\ pending' = StorePending(n, entry) /\ net' = Put({packet}) /\ seen' = seen
        BY <3>1 DEF SendReliable
      <4>2. /\ entry.addr = RoutingAddr
            /\ packet.kind # AckKind /\ packet.addr = RoutingAddr
        BY DEF NewPending, BuildPacket, AckKind, ReliableKind
      <4> HIDE DEF entry, packet
      <4>3. \A e \in pending'[j] : e \in pending[j] \/ e = entry
        BY <1>1, <4>1 DEF StorePending, TypeOK, ReliableTypeOK
      <4>4. \A p \in net' : Silent(p, j)
        BY <2>3, <4>1, <4>2, PutOrigin DEF Unheard, Silent
      <4>5. QED
        BY <2>2, <2>3, <4>1, <4>2, <4>3, <4>4 DEF Unheard
    <3>2. ASSUME UNCHANGED <<pending, net, seen>>
          PROVE  Unheard(j)'
      BY <2>2, <2>3, <3>2 DEF Unheard
    <3>3. \/ \E s \in AllocSeq(n) :
               SendReliable(n, Leader, RoutingAddr, LocalThings[n], s, TRUE)
          \/ UNCHANGED <<pending, net, seen>>
      BY <1>4 DEF JoinerAnnounces, SendAnnouncement, SendReliable, reliableVars
    <3>4. QED
      BY <3>1, <3>2, <3>3
  <2>4. QED
    BY <1>1, <2>1, <2>3, KnownStays DEF HeardMeansRoutable
<1>5. QED
  BY <1>2, <1>3, <1>4 DEF RoutingUpdate

(* A joiner that sends is in the network, and so known.                     *)
LEMMA SendHeard ==
    ASSUME ReachInv, NEW n \in Node, NEW m \in Message, NEW a \in Addr,
           NEW reliable \in BOOLEAN,
           AppSend(n, m, a, reliable) \/ AppSendRefused(n, m, a)
    PROVE  HeardMeansRoutable'
<1>1. TypeOK /\ HeardMeansRoutable /\ Joiner \subseteq Node
  BY LeaderIsNode DEF ReachInv, RouteInv
<1>2. networkReady[n] /\ UNCHANGED <<routingVars, seen>>
  BY DEF AppSend, AppSendRefused, IsReady, SendReliable, SendPlain
<1>3. UNCHANGED <<thingIdToIp[Leader], localDestinations[Leader]>>
  BY <1>2 DEF routingVars
<1>4. ASSUME NEW j \in Joiner, Unheard(j) PROVE Unheard(j)'
  <2>1. j # n
    BY <1>2, <1>4 DEF Unheard
  <2>2. pending'[j] = pending[j]
    BY <1>1, <2>1 DEF AppSend, AppSendRefused, SendReliable, SendPlain, StorePending,
                      TypeOK, ReliableTypeOK
  <2>3. ASSUME NEW p \in net', p \notin net
        PROVE  p.kind # AckKind /\ p.origin = n
    <3> DEFINE hop == NextHop(n, a)
    <3>1. \/ \E s : net' = Put({BuildPacket(ReliableKind, n, hop, s, a, m)})
          \/ net' = Put({BuildPacket(PlainKind, n, hop, NoSeq, a, m)})
          \/ net' = net
      BY DEF AppSend, AppSendRefused, SendReliable, SendPlain
    <3>2. \/ \E s : p = BuildPacket(ReliableKind, n, hop, s, a, m)
          \/ p = BuildPacket(PlainKind, n, hop, NoSeq, a, m)
      BY <2>3, <3>1, PutOrigin
    <3>3. QED
      BY <3>2 DEF BuildPacket, AckKind, ReliableKind, PlainKind
  <2>4. \A p \in net' : Silent(p, j)
    BY <1>4, <2>1, <2>3 DEF Unheard, Silent
  <2>5. QED
    BY <1>2, <1>4, <2>2, <2>4 DEF Unheard, routingVars
<1>5. QED
  BY <1>1, <1>3, <1>4, KnownStays DEF HeardMeansRoutable

(* Handling a reliable packet adds its sender to a window and an ACK to the  *)
(* mesh: no trace of any other device.                                      *)
LEMMA HandleReliablePacketHeard ==
    ASSUME TypeOK, NEW p \in net, HandleReliablePacket(p),
           UNCHANGED networkReady,
           NEW j \in Joiner, Unheard(j), j # p.origin
    PROVE  Unheard(j)'
<1> DEFINE ack == BuildPacket(AckKind, p.dst, p.origin, p.seq, p.addr, NoBody)
<1>1. p \in Packet /\ p.dst \in Node /\ Leader \in Node
  BY PacketFields, LeaderIsNode
<1>2. ack.kind = AckKind /\ ack.dst = p.origin
  BY DEF BuildPacket
<1>3. /\ net' = Put({ack}) /\ pending' = pending
      /\ seen' = [seen EXCEPT ![p.dst] = MarkSeen(p)]
  BY DEF HandleReliablePacket
<1> HIDE DEF ack
<1>4. \A q \in net' : Silent(q, j)
  BY <1>2, <1>3, PutOrigin DEF Unheard, Silent
<1>5. \A e \in seen'[Leader] : e.origin # j
  <2>1. CASE p.dst = Leader
    <3>1. seen'[Leader] = MarkSeen(p)
      BY <1>1, <1>3, <2>1 DEF TypeOK, ReliableTypeOK
    <3>2. QED
      BY <1>1, <2>1, <3>1, MarkSeenKeys DEF Unheard, TypeOK
  <2>2. CASE p.dst # Leader
    BY <1>1, <1>3, <2>2 DEF Unheard, TypeOK, ReliableTypeOK
  <2>3. QED
    BY <2>1, <2>2
<1>6. QED
  BY <1>3, <1>4, <1>5 DEF Unheard

LEMMA AnnouncementHeard ==
    ASSUME ReachInv, NEW p \in net, ReceiveAnnouncement(p)
    PROVE  HeardMeansRoutable'
<1>1. /\ TypeOK /\ HeardMeansRoutable /\ Leader \in Node /\ Leader \notin Joiner
      /\ Joiner \subseteq Node
  BY LeaderIsNode, RolesAssumption DEF ReachInv, RouteInv
<1>2. /\ p.origin \in Joiner /\ p.dst = Leader /\ p.body = LocalThings[p.origin]
      /\ p.body \subseteq Thing
  BY <1>1, TableIsBody
  DEF ReceiveAnnouncement, ReachInv, RouteInv, PacketsWell, WellSent, AckKind, ReliableKind
<1>3. ASSUME NEW j \in Joiner, j # p.origin, Unheard(j) PROVE Unheard(j)'
  BY <1>1, <1>3, HandleReliablePacketHeard DEF ReceiveAnnouncement
<1>4. CASE WasSeen(p)
  <2>1. Routable(p.origin)
    BY <1>1, <1>2, <1>4 DEF HeardMeansRoutable, Unheard, WasSeen, SameKey
  <2>2. UNCHANGED <<thingIdToIp[Leader], localDestinations[Leader]>>
    BY <1>4 DEF ReceiveAnnouncement
  <2>3. QED
    BY <1>1, <1>3, <2>1, <2>2, KnownStays DEF HeardMeansRoutable, Routable
<1>5. CASE ~WasSeen(p)
  <2>1. /\ \A t \in Thing : thingIdToIp'[Leader][t] =
             IF t \in p.body THEN p.origin ELSE thingIdToIp[Leader][t]
        /\ localDestinations'[Leader] = localDestinations[Leader] \ p.body
    BY <1>1, <1>2, <1>5 DEF ReceiveAnnouncement, RegisterThings, TypeOK
  <2>2. ASSUME NEW j \in Joiner, Routable(j) \/ j = p.origin PROVE Routable(j)'
    <3>1. ASSUME NEW t \in LocalThings[j]
          PROVE  /\ thingIdToIp'[Leader][t] \in {n \in Node : t \in LocalThings[n]}
                 /\ thingIdToIp'[Leader][t] = Leader <=> t \in localDestinations'[Leader]
      <4>1. t \in Thing
        BY <1>1, TableIsBody
      <4>2. CASE t \in p.body
        BY <1>1, <1>2, <2>1, <4>1, <4>2
      <4>3. CASE t \notin p.body
        BY <1>2, <2>1, <2>2, <4>1, <4>3 DEF Routable
      <4>4. QED
        BY <4>2, <4>3
    <3>2. QED
      BY <3>1 DEF Routable
  <2>3. QED
    BY <1>1, <1>3, <2>2 DEF HeardMeansRoutable
<1>6. QED
  BY <1>4, <1>5

LEMMA ReceiveHeard ==
    ASSUME ReachInv, NEW p \in net, Receive(p)
    PROVE  HeardMeansRoutable'
<1>1. /\ TypeOK /\ HeardMeansRoutable /\ Leader \in Node /\ Leader \notin Joiner
      /\ Joiner \subseteq Node
  BY LeaderIsNode, RolesAssumption DEF ReachInv, RouteInv
<1>2. p \in Packet /\ p.dst \in Node
  BY <1>1, PacketFields
<1>3. CASE ReceiveAck(p)
  <2>1. /\ pending' = [pending EXCEPT ![p.dst] = @ \ AckMatches(p)]
        /\ UNCHANGED <<net, seen, thingIdToIp, localDestinations>>
    BY <1>3 DEF ReceiveAck, HandleAckPacket
  <2>2. ASSUME NEW j \in Joiner, Unheard(j) PROVE Unheard(j)'
    <3>1. ~networkReady'[j]
      <4>1. CASE \E e \in AckMatches(p) : e.addr = RoutingAddr
        <5>1. p.addr = RoutingAddr /\ p.kind = AckKind
          BY <1>3, <4>1 DEF ReceiveAck, AckMatches
        <5>2. p.dst # j
          BY <2>2, <5>1 DEF Unheard, Silent
        <5>3. QED
          BY <1>1, <1>3, <2>2, <5>2 DEF ReceiveAck, Unheard, TypeOK
      <4>2. CASE ~\E e \in AckMatches(p) : e.addr = RoutingAddr
        BY <1>1, <1>2, <1>3, <2>2, <4>2 DEF ReceiveAck, Unheard, TypeOK
      <4>3. QED
        BY <4>1, <4>2
    <3>2. pending'[j] \subseteq pending[j]
      BY <1>1, <2>1 DEF TypeOK, ReliableTypeOK
    <3>3. QED
      BY <2>1, <2>2, <3>1, <3>2 DEF Unheard
  <2>3. QED
    BY <1>1, <2>1, <2>2, KnownStays DEF HeardMeansRoutable
<1>4. CASE ReceiveAnnouncement(p)
  BY <1>4, AnnouncementHeard
<1>5. CASE /\ p.kind # AckKind /\ p.addr # RoutingAddr
           /\ Acknowledge(p) /\ UNCHANGED routingVars
  <2>1. UNCHANGED routingVars
    BY <1>5
  <2>2. ASSUME NEW j \in Joiner, Unheard(j) PROVE Unheard(j)'
    <3>1. p.origin # j
      BY <1>5, <2>2 DEF Unheard, Silent
    <3>2. HandleReliablePacket(p) \/ UNCHANGED reliableVars
      BY <1>5 DEF Acknowledge
    <3>3. QED
      BY <1>1, <2>1, <2>2, <3>1, <3>2, HandleReliablePacketHeard
      DEF Unheard, reliableVars, routingVars
  <2>3. QED
    BY <1>1, <2>1, <2>2, KnownStays DEF HeardMeansRoutable, routingVars
<1>6. CASE ReceiveControl(p) \/ ReceiveLocal(p)
  <2>1. p.addr # RoutingAddr
    BY <1>6, AddrAssumption DEF ReceiveControl, ReceiveLocal, Thing, LeaderAddr
  <2>2. QED
    BY <1>5, <1>6, <2>1 DEF ReceiveControl, ReceiveLocal, Accept
<1>7. CASE Forward(p)
  <2> DEFINE r == [p EXCEPT !.dst = thingIdToIp[p.dst][p.addr]]
             q == [r EXCEPT !.life = MaxDelay]
  <2>1. /\ p.kind # AckKind /\ p.addr # RoutingAddr /\ net' = Put({q})
        /\ UNCHANGED <<pending, seen, routingVars>>
    BY <1>7 DEF Forward, Thing, LeaderAddr
  <2>2. q.kind = p.kind /\ q.origin = p.origin /\ q.addr = p.addr
    BY <1>2 DEF Packet
  <2> HIDE DEF q
  <2>3. ASSUME NEW j \in Joiner, Unheard(j) PROVE Unheard(j)'
    <3>1. \A s \in net' : Silent(s, j)
      BY <2>1, <2>2, <2>3, PutOrigin DEF Unheard, Silent
    <3>2. QED
      BY <2>1, <2>3, <3>1 DEF Unheard, routingVars
  <2>4. QED
    BY <1>1, <2>1, <2>3, KnownStays DEF HeardMeansRoutable, routingVars
<1>8. QED
  BY <1>3, <1>4, <1>6, <1>7 DEF Receive

LEMMA PumpHeard ==
    ASSUME ReachInv, NEW n \in Node, Pump(n)
    PROVE  HeardMeansRoutable'
<1>1. TypeOK /\ HeardMeansRoutable /\ Leader \in Node /\ Joiner \subseteq Node
  BY LeaderIsNode DEF ReachInv, RouteInv
<1>2. UNCHANGED <<networkReady, thingIdToIp, localDestinations>> /\ PumpReliable(n)
  BY DEF Pump
<1>3. ASSUME NEW j \in Joiner, Unheard(j) PROVE Unheard(j)'
  <2> DEFINE Copy(e) == BuildPacket(ReliableKind, n, e.nextHop, e.seq, e.addr, e.body)
  <2>1. net' = Put({Copy(e) : e \in Resent(n)})
    BY <1>2 DEF PumpReliable
  <2>2. ASSUME NEW e
        PROVE  Copy(e).kind # AckKind /\ Copy(e).origin = n /\ Copy(e).addr = e.addr
    BY DEF BuildPacket, AckKind, ReliableKind
  <2> HIDE DEF Copy
  <2>3. Resent(n) \subseteq pending[n] /\ pending[n] \subseteq PendingEntry
    BY <1>1 DEF Resent, Due, TypeOK, ReliableTypeOK
  <2>4. \A p \in net' : Silent(p, j)
    BY <1>3, <2>1, <2>2, <2>3, PutOrigin DEF Unheard, Silent
  <2>5. \A e \in pending'[j] : e.addr = RoutingAddr
    <3>1. \A e \in Resent(n) : AfterResend(e).addr = e.addr
      BY <2>3 DEF AfterResend, PendingEntry
    <3>2. pending' = [pending EXCEPT ![n] =
                        (@ \ Due(n)) \cup {AfterResend(e) : e \in Resent(n)}]
      BY <1>2 DEF PumpReliable
    <3>3. CASE n = j
      BY <1>1, <1>3, <2>3, <3>1, <3>2, <3>3, Z3 DEF Unheard, TypeOK, ReliableTypeOK
    <3>4. CASE n # j
      BY <1>1, <1>3, <3>2, <3>4 DEF Unheard, TypeOK, ReliableTypeOK
    <3>5. QED
      BY <3>3, <3>4
  <2>6. \A e \in seen'[Leader] : e.origin # j
    <3>1. seen' = [seen EXCEPT ![n] = Trimmed(n)]
      BY <1>2 DEF PumpReliable
    <3>2. \A g \in Trimmed(n) : \E e \in seen[n] : g.origin = e.origin
      BY <1>1, TrimmedType DEF TypeOK
    <3>3. QED
      BY <1>1, <1>3, <3>1, <3>2 DEF Unheard, TypeOK, ReliableTypeOK
  <2>7. QED
    BY <1>2, <1>3, <2>4, <2>5, <2>6 DEF Unheard
<1>4. QED
  BY <1>1, <1>2, <1>3, KnownStays DEF HeardMeansRoutable

LEMMA TickHeard ==
    ASSUME ReachInv, Tick
    PROVE  HeardMeansRoutable'
<1>1. TypeOK /\ HeardMeansRoutable /\ Leader \in Node /\ Joiner \subseteq Node
  BY LeaderIsNode DEF ReachInv, RouteInv
<1>2. UNCHANGED routingVars /\ ReliableTick
  BY DEF Tick
<1>3. ASSUME NEW j \in Joiner, Unheard(j) PROVE Unheard(j)'
  <2> DEFINE Sooner(e) == [e EXCEPT !.due = @ - 1]
             Aged(e) == [e EXCEPT !.age = @ + 1]
             Older(p) == [p EXCEPT !.life = @ - 1]
  <2>1. /\ pending'[j] = {Sooner(e) : e \in pending[j]}
        /\ seen'[Leader] = {Aged(e) : e \in seen[Leader]}
        /\ net' = {Older(p) : p \in {q \in net : q.life > 0}}
    BY <1>1, <1>2 DEF ReliableTick
  <2>2. /\ \A e \in pending[j] : Sooner(e).addr = e.addr
        /\ \A e \in seen[Leader] : Aged(e).origin = e.origin
    BY <1>1 DEF TypeOK, ReliableTypeOK, PendingEntry, SeenEntry
  <2>3. \A p \in net : /\ Older(p).kind = p.kind /\ Older(p).origin = p.origin
                       /\ Older(p).dst = p.dst /\ Older(p).addr = p.addr
    BY <1>1 DEF TypeOK, ReliableTypeOK, Packet
  <2> HIDE DEF Sooner, Aged, Older
  <2>4. \A p \in net' : Silent(p, j)
    BY <1>3, <2>1, <2>3 DEF Unheard, Silent
  <2>5. QED
    BY <1>2, <1>3, <2>1, <2>2, <2>4 DEF Unheard, routingVars
<1>4. QED
  BY <1>1, <1>2, <1>3, KnownStays DEF HeardMeansRoutable, routingVars

LEMMA EnvironmentHeard ==
    ASSUME LeaderStays, ReachInv, NEW n \in Node,
           \/ TransportUp(n) \/ TransportDown(n)
           \/ n \in Sleepers /\ Sleep(n)
           \/ n \in ColdBooters /\ PowerCycle(n)
           \/ \E ready \in AppReadyArgs[n] : AppSetNetworkReady(n, ready)
    PROVE  HeardMeansRoutable'
<1>1. TypeOK /\ HeardMeansRoutable /\ Leader \in Node /\ Joiner \subseteq Node
  BY LeaderIsNode DEF ReachInv, RouteInv
<1>2. CASE n # Leader /\ (Sleep(n) \/ PowerCycle(n))
  <2>1. /\ networkReady' = [networkReady EXCEPT ![n] = FALSE]
        /\ pending' = [pending EXCEPT ![n] = {}]
        /\ seen' = [seen EXCEPT ![n] = {}]
        /\ net' = net
        /\ ClearTables(n)
    BY <1>2 DEF Sleep, PowerCycle, Begin, WakeFromSleep, ColdBoot, WipeRam
  <2>2. UNCHANGED <<thingIdToIp[Leader], localDestinations[Leader]>>
    BY <1>1, <1>2, <2>1 DEF ClearTables, TypeOK
  <2>3. \A j \in Joiner : Unheard(j) => Unheard(j)'
    BY <1>1, <1>2, <2>1 DEF Unheard, TypeOK, ReliableTypeOK
  <2>4. QED
    BY <1>1, <2>2, <2>3, KnownStays DEF HeardMeansRoutable
<1>3. CASE TransportUp(n) \/ TransportDown(n)
  <2>1. UNCHANGED <<networkReady, thingIdToIp, localDestinations, pending, seen, net>>
    BY <1>3 DEF TransportUp, TransportDown, reliableVars, routingVars
  <2>2. QED
    BY <1>1, <2>1 DEF HeardMeansRoutable, Unheard, Silent, Routable
<1>4. ASSUME NEW ready \in AppReadyArgs[n], AppSetNetworkReady(n, ready)
      PROVE  HeardMeansRoutable'
  <2>1. /\ networkReady' = [networkReady EXCEPT ![n] = FALSE]
        /\ UNCHANGED <<thingIdToIp, localDestinations, pending, seen, net>>
    <3>1. ready = FALSE
      BY FaultsAssumption DEF LeaderStays
    <3>2. QED
      BY <1>4, <3>1 DEF AppSetNetworkReady, reliableVars
  <2>2. \A j \in Joiner : Unheard(j) => Unheard(j)'
    BY <1>1, <2>1 DEF Unheard, Silent, TypeOK
  <2>3. QED
    BY <1>1, <2>1, <2>2, KnownStays DEF HeardMeansRoutable
<1>5. QED
  BY <1>2, <1>3, <1>4 DEF LeaderStays

(* Every step keeps what is known of the joiners.                           *)
LEMMA ReachInvStep ==
    ASSUME LeaderStays, ReachInv, [Next]_vars
    PROVE  ReachInv'
<1>1. RouteInv' /\ LeaderFirst'
  BY RouteInvStep, LeaderFirstStep DEF ReachInv
<1>2. ASSUME NEW n \in Node, RoutingUpdate(n) PROVE HeardMeansRoutable'
  BY <1>2, UpdateHeard
<1>3. ASSUME NEW n \in Node, Pump(n) PROVE HeardMeansRoutable'
  BY <1>3, PumpHeard
<1>4. ASSUME Tick PROVE HeardMeansRoutable'
  BY <1>4, TickHeard
<1>5. ASSUME NEW n \in Node,
             \/ TransportUp(n) \/ TransportDown(n)
             \/ n \in Sleepers /\ Sleep(n)
             \/ n \in ColdBooters /\ PowerCycle(n)
             \/ \E ready \in AppReadyArgs[n] : AppSetNetworkReady(n, ready)
      PROVE  HeardMeansRoutable'
  BY <1>5, EnvironmentHeard
<1>6. ASSUME NEW n \in Node, NEW m \in Message, NEW a \in Addr \ {RoutingAddr},
             NEW reliable \in BOOLEAN,
             AppSend(n, m, a, reliable) \/ AppSendRefused(n, m, a)
      PROVE  HeardMeansRoutable'
  BY <1>6, SendHeard
<1>7. ASSUME NEW p \in net, Receive(p) PROVE HeardMeansRoutable'
  BY <1>7, ReceiveHeard
<1>8. ASSUME UNCHANGED vars PROVE HeardMeansRoutable'
  BY <1>8 DEF ReachInv, HeardMeansRoutable, Unheard, Silent, Routable, vars, reliableVars,
              routingVars
<1>9. HeardMeansRoutable'
  BY <1>2, <1>3, <1>4, <1>5, <1>6, <1>7, <1>8, FaultsAssumption DEF Next
<1>10. QED
  BY <1>1, <1>9 DEF ReachInv

LEMMA ReachInvInit == Init => ReachInv
<1> SUFFICES ASSUME Init PROVE ReachInv
  OBVIOUS
<1>1. RouteInv
  BY RouteInvInit
<1>2. QED
  BY <1>1, LeaderIsNode
  DEF Init, ReliableInit, ReachInv, LeaderFirst, Quiet, HeardMeansRoutable, Unheard

(* A joiner that believes it is in the network can be reached by way of the  *)
(* leader, if the leader neither loses the mesh nor restarts and no sketch   *)
(* marks a network ready: no stale ACK, repeated packet or reused sequence   *)
(* number makes it believe so too early (routingHandleAck, wasSeenAndMark,   *)
(* registerThingOwner).                                                      *)
THEOREM ReadyIsRoutable == ASSUME LeaderStays PROVE Spec => []RoutableWhenReady
<1>1. ReachInv /\ [Next]_vars => ReachInv'
  BY ReachInvStep
<1>2. ReachInv => RoutableWhenReady
  BY DEF ReachInv, HeardMeansRoutable, Unheard, RoutableWhenReady
<1>3. QED
  BY <1>1, <1>2, ReachInvInit, PTL DEF Spec

-----------------------------------------------------------------------------
(* Never stuck: a step that ends a joiner's announcement either brings the   *)
(* joiner into the network or makes it announce again.                       *)

\* What NeverStuck asks of a joiner that has a transport.
Trying(j) ==
    \/ networkReady[j]
    \/ routingState[j] = "READY_TO_ANNOUNCE"
    \/ /\ routingState[j] = "WAITING_FOR_ACK"
       /\ \E e \in pending[j] : e.addr = RoutingAddr

(* A joiner that keeps its readiness, its state and its announcements keeps  *)
(* trying.                                                                   *)
LEMMA StillTrying ==
    ASSUME NEW j \in Joiner, wasReady[j] => Trying(j),
           wasReady'[j] => wasReady[j],
           networkReady[j] => networkReady'[j],
           UNCHANGED routingState[j],
           \A e \in pending[j] :
             e.addr = RoutingAddr => \E g \in pending'[j] : g.addr = RoutingAddr
    PROVE  (wasReady[j] => Trying(j))'
BY DEF Trying

LEMMA UpdateTrying ==
    ASSUME TypeOK, NeverStuck, NEW n \in Node, RoutingUpdate(n)
    PROVE  NeverStuck'
<1>1. Joiner \subseteq Node /\ Leader \notin Joiner
  BY LeaderIsNode, RolesAssumption
<1>2. SUFFICES ASSUME NEW j \in Joiner PROVE (wasReady[j] => Trying(j))'
  BY DEF NeverStuck, Trying
<1>3. wasReady[j] => Trying(j)
  BY DEF NeverStuck, Trying
<1>4. CASE OnLightThreadLost(n)
  <2>1. CASE j = n
    BY <1>1, <1>4, <2>1 DEF OnLightThreadLost, TypeOK
  <2>2. CASE j # n
    <3>1. /\ pending' = pending /\ wasReady'[j] = wasReady[j]
          /\ networkReady'[j] = networkReady[j] /\ routingState'[j] = routingState[j]
      BY <1>1, <1>4, <2>2 DEF OnLightThreadLost, TypeOK, reliableVars
    <3>2. QED
      BY <1>3, <3>1, StillTrying
  <2>3. QED
    BY <2>1, <2>2
<1>5. CASE n = Leader /\ LeaderOnLightThreadReady
  <2>1. /\ pending' = pending /\ wasReady'[j] = wasReady[j]
        /\ networkReady'[j] = networkReady[j] /\ routingState'[j] = routingState[j]
    BY <1>1, <1>5 DEF LeaderOnLightThreadReady, TypeOK, reliableVars
  <2>2. QED
    BY <1>3, <2>1, StillTrying
<1>6. CASE n \in Joiner /\ JoinerAnnounces(n)
  <2>1. /\ SendAnnouncement(n)
        /\ wasReady' = [wasReady EXCEPT ![n] = TRUE]
        /\ networkReady' = networkReady \/ networkReady' = [networkReady EXCEPT ![n] = FALSE]
    BY <1>6 DEF JoinerAnnounces
  <2>2. CASE j = n
    <3>1. ASSUME NEW s \in AllocSeq(j),
                 SendReliable(j, Leader, RoutingAddr, LocalThings[j], s, TRUE)
          PROVE  \E e \in pending'[j] : e.addr = RoutingAddr
      <4>1. pending' = StorePending(j, NewPending(s, Leader, RoutingAddr, LocalThings[j]))
        BY <3>1 DEF SendReliable
      <4>2. NewPending(s, Leader, RoutingAddr, LocalThings[j]).addr = RoutingAddr
        BY DEF NewPending
      <4>3. QED
        BY <1>1, <4>1, <4>2 DEF StorePending, TypeOK, ReliableTypeOK
    <3>2. \/ /\ routingState'[j] = "WAITING_FOR_ACK"
             /\ \E e \in pending'[j] : e.addr = RoutingAddr
          \/ routingState'[j] = "READY_TO_ANNOUNCE"
      BY <1>1, <2>1, <2>2, <3>1 DEF SendAnnouncement, TypeOK
    <3>3. QED
      BY <3>2 DEF Trying
  <2>3. CASE j # n
    <3>1. pending'[j] = pending[j]
      BY <1>1, <2>1, <2>3
      DEF SendAnnouncement, SendReliable, StorePending, reliableVars, TypeOK, ReliableTypeOK
    <3>2. routingState'[j] = routingState[j]
      BY <1>1, <2>1, <2>3 DEF SendAnnouncement, TypeOK
    <3>3. wasReady'[j] = wasReady[j] /\ networkReady'[j] = networkReady[j]
      BY <1>1, <2>1, <2>3 DEF TypeOK
    <3>4. QED
      BY <1>3, <3>1, <3>2, <3>3, StillTrying
  <2>4. QED
    BY <2>2, <2>3
<1>7. QED
  BY <1>4, <1>5, <1>6 DEF RoutingUpdate

LEMMA SendTrying ==
    ASSUME TypeOK, NeverStuck, NEW n \in Node, NEW m \in Message, NEW a \in Addr,
           NEW reliable \in BOOLEAN,
           AppSend(n, m, a, reliable) \/ AppSendRefused(n, m, a)
    PROVE  NeverStuck'
<1>1. SUFFICES ASSUME NEW j \in Joiner PROVE (wasReady[j] => Trying(j))'
  BY DEF NeverStuck, Trying
<1>2. (wasReady[j] => Trying(j)) /\ j \in Node
  BY LeaderIsNode DEF NeverStuck, Trying
<1>3. networkReady[n] /\ UNCHANGED <<routingVars, wasReady>>
  BY DEF AppSend, AppSendRefused, IsReady, transportVars
<1>4. CASE j = n
  BY <1>3, <1>4 DEF Trying, routingVars
<1>5. CASE j # n
  <2>1. pending'[j] = pending[j]
    BY <1>2, <1>5 DEF AppSend, AppSendRefused, SendReliable, SendPlain, StorePending,
                      TypeOK, ReliableTypeOK
  <2>2. QED
    BY <1>2, <1>3, <2>1, StillTrying DEF routingVars
<1>6. QED
  BY <1>4, <1>5

LEMMA ReceiveTrying ==
    ASSUME TypeOK, NeverStuck, NEW p \in net, Receive(p)
    PROVE  NeverStuck'
<1>1. SUFFICES ASSUME NEW j \in Joiner PROVE (wasReady[j] => Trying(j))'
  BY DEF NeverStuck, Trying
<1>2. (wasReady[j] => Trying(j)) /\ j \in Node /\ p.dst \in Node
  BY LeaderIsNode, PacketFields DEF NeverStuck, Trying
<1>3. CASE ReceiveAck(p)
  <2>1. /\ pending' = [pending EXCEPT ![p.dst] = @ \ AckMatches(p)]
        /\ wasReady' = wasReady
    BY <1>3 DEF ReceiveAck, HandleAckPacket, transportVars
  <2> DEFINE announced == \E e \in AckMatches(p) : e.addr = RoutingAddr
  <2>2. /\ routingState' = [routingState EXCEPT ![p.dst] = IF announced THEN "IDLE" ELSE @]
        /\ networkReady' = [networkReady EXCEPT ![p.dst] = announced \/ @]
    BY <1>3 DEF ReceiveAck
  <2>3. CASE j = p.dst /\ announced
    BY <1>2, <2>2, <2>3 DEF Trying, TypeOK
  <2>4. CASE j = p.dst /\ ~announced
    <3>1. routingState'[j] = routingState[j] /\ networkReady'[j] = networkReady[j]
      BY <1>2, <2>2, <2>4 DEF TypeOK
    <3>2. \A e \in pending[j] : e.addr = RoutingAddr => e \in pending'[j]
      BY <1>2, <2>1, <2>4 DEF TypeOK, ReliableTypeOK
    <3>3. QED
      BY <1>2, <2>1, <3>1, <3>2, StillTrying
  <2>5. CASE j # p.dst
    <3>1. /\ routingState'[j] = routingState[j] /\ networkReady'[j] = networkReady[j]
          /\ pending'[j] = pending[j]
      BY <1>2, <2>1, <2>2, <2>5 DEF TypeOK, ReliableTypeOK
    <3>2. QED
      BY <1>2, <2>1, <3>1, StillTrying
  <2>6. QED
    BY <2>3, <2>4, <2>5
<1>4. CASE ~ReceiveAck(p)
  <2>1. UNCHANGED <<pending, wasReady, networkReady, routingState>>
    BY <1>4 DEF Receive, ReceiveAnnouncement, ReceiveControl, ReceiveLocal, Accept,
                Acknowledge, Forward, HandleReliablePacket, reliableVars, routingVars, transportVars
  <2>2. QED
    BY <1>2, <2>1, StillTrying
<1>5. QED
  BY <1>3, <1>4

LEMMA PumpTrying ==
    ASSUME TypeOK, NeverStuck, NEW n \in Node, Pump(n)
    PROVE  NeverStuck'
<1>1. SUFFICES ASSUME NEW j \in Joiner PROVE (wasReady[j] => Trying(j))'
  BY DEF NeverStuck, Trying
<1>2. (wasReady[j] => Trying(j)) /\ j \in Node
  BY LeaderIsNode DEF NeverStuck, Trying
<1>3. /\ pending' = [pending EXCEPT ![n] =
                       (@ \ Due(n)) \cup {AfterResend(e) : e \in Resent(n)}]
      /\ routingState' = [routingState EXCEPT ![n] = StateAfterPump(n)]
      /\ UNCHANGED <<wasReady, networkReady>>
  BY DEF Pump, PumpReliable, transportVars
<1>4. CASE j = n /\ \E e \in Exhausted(n) : e.addr = RoutingAddr
  BY <1>2, <1>3, <1>4 DEF StateAfterPump, Trying, TypeOK
<1>5. CASE j = n /\ ~\E e \in Exhausted(n) : e.addr = RoutingAddr
  <2>1. routingState'[j] = routingState[j]
    BY <1>2, <1>3, <1>5 DEF StateAfterPump, TypeOK
  <2>2. pending'[j] = (pending[j] \ Due(j)) \cup {AfterResend(e) : e \in Resent(j)}
    BY <1>2, <1>3, <1>5 DEF TypeOK, ReliableTypeOK
  <2>3. ASSUME NEW e \in pending[j], e.addr = RoutingAddr
        PROVE  \E g \in pending'[j] : g.addr = RoutingAddr
    <3>1. CASE e \in Due(j)
      <4>1. e \in Resent(j)
        BY <1>5, <2>3, <3>1 DEF Resent
      <4>2. AfterResend(e).addr = RoutingAddr
        BY <1>2, <2>3 DEF AfterResend, TypeOK, ReliableTypeOK, PendingEntry
      <4>3. QED
        BY <2>2, <4>1, <4>2
    <3>2. CASE e \notin Due(j)
      BY <2>2, <2>3, <3>2
    <3>3. QED
      BY <3>1, <3>2
  <2>4. QED
    BY <1>2, <1>3, <2>1, <2>3, StillTrying
<1>6. CASE j # n
  <2>1. pending'[j] = pending[j] /\ routingState'[j] = routingState[j]
    BY <1>2, <1>3, <1>6 DEF TypeOK, ReliableTypeOK
  <2>2. QED
    BY <1>2, <1>3, <2>1, StillTrying
<1>7. QED
  BY <1>4, <1>5, <1>6

LEMMA TickTrying ==
    ASSUME TypeOK, NeverStuck, Tick
    PROVE  NeverStuck'
<1>1. SUFFICES ASSUME NEW j \in Joiner PROVE (wasReady[j] => Trying(j))'
  BY DEF NeverStuck, Trying
<1>2. (wasReady[j] => Trying(j)) /\ j \in Node
  BY LeaderIsNode DEF NeverStuck, Trying
<1> DEFINE Sooner(e) == [e EXCEPT !.due = @ - 1]
<1>3. pending'[j] = {Sooner(e) : e \in pending[j]} /\ UNCHANGED <<routingVars, transportVars>>
  BY <1>2 DEF Tick, ReliableTick
<1>4. \A e \in pending[j] : Sooner(e).addr = e.addr
  BY <1>2 DEF TypeOK, ReliableTypeOK, PendingEntry
<1> HIDE DEF Sooner
<1>5. \A e \in pending[j] :
        e.addr = RoutingAddr => \E g \in pending'[j] : g.addr = RoutingAddr
  BY <1>3, <1>4
<1>6. QED
  BY <1>2, <1>3, <1>5, StillTrying DEF routingVars, transportVars

LEMMA EnvironmentTrying ==
    ASSUME \A i \in Node : FALSE \notin AppReadyArgs[i], TypeOK, NeverStuck, NEW n \in Node,
           \/ TransportUp(n) \/ TransportDown(n) \/ Sleep(n) \/ PowerCycle(n)
           \/ \E ready \in AppReadyArgs[n] : AppSetNetworkReady(n, ready)
    PROVE  NeverStuck'
<1>1. SUFFICES ASSUME NEW j \in Joiner PROVE (wasReady[j] => Trying(j))'
  BY DEF NeverStuck, Trying
<1>2. (wasReady[j] => Trying(j)) /\ j \in Node
  BY LeaderIsNode DEF NeverStuck, Trying
<1>3. CASE TransportUp(n) \/ TransportDown(n)
  <2>1. UNCHANGED <<pending, wasReady, networkReady, routingState>>
    BY <1>3 DEF TransportUp, TransportDown, reliableVars, routingVars
  <2>2. QED
    BY <1>2, <2>1, StillTrying
<1>4. CASE Sleep(n) \/ PowerCycle(n)
  <2>1. Begin(n) /\ pending' = [pending EXCEPT ![n] = {}]
    BY <1>4 DEF Sleep, PowerCycle, WakeFromSleep, ColdBoot, WipeRam
  <2>2. CASE j = n
    BY <1>2, <2>1, <2>2 DEF Begin, TypeOK
  <2>3. CASE j # n
    <3>1. /\ pending'[j] = pending[j] /\ wasReady'[j] = wasReady[j]
          /\ networkReady'[j] = networkReady[j] /\ routingState'[j] = routingState[j]
      BY <1>2, <2>1, <2>3 DEF Begin, TypeOK, ReliableTypeOK
    <3>2. QED
      BY <1>2, <3>1, StillTrying
  <2>4. QED
    BY <2>2, <2>3
<1>5. ASSUME NEW ready \in AppReadyArgs[n], AppSetNetworkReady(n, ready)
      PROVE  (wasReady[j] => Trying(j))'
  <2>1. ready = TRUE
    BY FaultsAssumption, ZenonT(60)
  <2>2. /\ networkReady' = [networkReady EXCEPT ![n] = TRUE]
        /\ UNCHANGED <<pending, wasReady, routingState>>
    BY <1>5, <2>1 DEF AppSetNetworkReady, reliableVars, transportVars
  <2>3. networkReady[j] => networkReady'[j]
    BY <1>2, <2>2 DEF TypeOK
  <2>4. QED
    BY <1>2, <2>2, <2>3, StillTrying
<1>6. QED
  BY <1>3, <1>4, <1>5

(* A joiner that has a transport is never stuck outside the network, unless  *)
(* its sketch leaves it: a lost ACK, a stale one, an announcement that fails *)
(* or is refused and a loss of the mesh at any point each lead to another    *)
(* announcement (routingStrategyUpdate, routingHandleAckFailure).            *)
THEOREM JoinerNeverStuck ==
    ASSUME \A i \in Node : FALSE \notin AppReadyArgs[i]
    PROVE  Spec => []NeverStuck
<1>1. Init => NeverStuck
  BY LeaderIsNode DEF Init, NeverStuck
<1>2. ASSUME RouteInv, NeverStuck, [Next]_vars PROVE NeverStuck'
  <2>1. TypeOK
    BY <1>2 DEF RouteInv
  <2>2. ASSUME NEW n \in Node, RoutingUpdate(n) PROVE NeverStuck'
    BY <1>2, <2>1, <2>2, UpdateTrying
  <2>3. ASSUME NEW n \in Node, Pump(n) PROVE NeverStuck'
    BY <1>2, <2>1, <2>3, PumpTrying
  <2>4. CASE Tick
    BY <1>2, <2>1, <2>4, TickTrying
  <2>5. ASSUME NEW n \in Node,
               \/ TransportUp(n) \/ TransportDown(n) \/ Sleep(n) \/ PowerCycle(n)
               \/ \E ready \in AppReadyArgs[n] : AppSetNetworkReady(n, ready)
        PROVE  NeverStuck'
    BY <1>2, <2>1, <2>5, EnvironmentTrying
  <2>6. ASSUME NEW n \in Node, NEW m \in Message, NEW a \in Addr \ {RoutingAddr},
               NEW reliable \in BOOLEAN,
               AppSend(n, m, a, reliable) \/ AppSendRefused(n, m, a)
        PROVE  NeverStuck'
    BY <1>2, <2>1, <2>6, SendTrying
  <2>7. ASSUME NEW p \in net, Receive(p) PROVE NeverStuck'
    BY <1>2, <2>1, <2>7, ReceiveTrying
  <2>8. CASE UNCHANGED vars
    BY <1>2, <2>8 DEF NeverStuck, vars, reliableVars, routingVars, transportVars
  <2>9. QED
    BY <1>2, <2>2, <2>3, <2>4, <2>5, <2>6, <2>7, <2>8, FaultsAssumption DEF Next
<1>3. QED
  BY <1>1, <1>2, RouteInvInit, RouteInvStep, PTL DEF Spec

-----------------------------------------------------------------------------
(* Announcements do not pile up: a joiner owes at most one announcement more *)
(* than it has pending, and only a fault lets it owe another.                *)

Announcements(j) == {e \in pending[j] : e.addr = RoutingAddr}

\* Whether j is going to announce without any further fault.
Owed(j) ==
    IF wasReady[j] /\ ltReady[j] /\ routingState[j] # "READY_TO_ANNOUNCE" THEN 0 ELSE 1

AnnouncementsPaid(j) ==
    /\ IsFiniteSet(Announcements(j))
    /\ Cardinality(Announcements(j)) + Owed(j) <= faults + 1

(* The image of a finite set is finite and no larger.                       *)
LEMMA ImageNoLarger ==
    ASSUME NEW S, IsFiniteSet(S), NEW f, f = [x \in S |-> f[x]]
    PROVE  /\ IsFiniteSet({f[x] : x \in S})
           /\ Cardinality({f[x] : x \in S}) <= Cardinality(S)
<1>1. f \in Surjection(S, {f[x] : x \in S})
  BY DEF Surjection
<1>2. QED
  BY <1>1, FS_Surjection

(* Fewer announcements and no new reason to announce, or more faults.       *)
LEMMA StillPaid ==
    ASSUME NEW j, AnnouncementsPaid(j), faults \in Nat, faults' \in Nat,
           Announcements(j)' \subseteq Announcements(j),
           \/ Owed(j)' <= Owed(j) /\ faults' = faults
           \/ faults' = faults + 1
    PROVE  AnnouncementsPaid(j)'
<1>1. /\ IsFiniteSet(Announcements(j)')
      /\ Cardinality(Announcements(j)') <= Cardinality(Announcements(j))
  BY FS_Subset DEF AnnouncementsPaid
<1>2. Cardinality(Announcements(j)) \in Nat /\ Cardinality(Announcements(j)') \in Nat
  BY <1>1, FS_CardinalityType DEF AnnouncementsPaid
<1>3. Owed(j) \in {0, 1} /\ Owed(j)' \in {0, 1}
  BY DEF Owed
<1>4. QED
  BY <1>1, <1>2, <1>3 DEF AnnouncementsPaid

LEMMA SendPaid ==
    ASSUME TypeOK, NEW j \in Joiner, AnnouncementsPaid(j),
           NEW n \in Node, NEW m \in Message, NEW a \in Addr \ {RoutingAddr},
           NEW reliable \in BOOLEAN,
           AppSend(n, m, a, reliable) \/ AppSendRefused(n, m, a)
    PROVE  AnnouncementsPaid(j)'
<1>1. j \in Node /\ faults \in Nat
  BY LeaderIsNode, FaultsAssumption DEF TypeOK
<1>2. \/ pending' = pending
      \/ \E s : pending' = StorePending(n, NewPending(s, NextHop(n, a), a, m))
  BY DEF AppSend, AppSendRefused, SendReliable, SendPlain
<1>3. Announcements(j)' \subseteq Announcements(j)
  <2>1. CASE pending' = pending
    BY <2>1 DEF Announcements
  <2>2. ASSUME NEW s, pending' = StorePending(n, NewPending(s, NextHop(n, a), a, m))
        PROVE  Announcements(j)' \subseteq Announcements(j)
    <3> DEFINE entry == NewPending(s, NextHop(n, a), a, m)
    <3>1. entry.addr # RoutingAddr
      BY DEF NewPending
    <3> HIDE DEF entry
    <3>2. pending' = StorePending(n, entry)
      BY <2>2 DEF entry
    <3>3. pending'[j] \subseteq pending[j] \cup {entry}
      BY <1>1, <3>2 DEF StorePending, TypeOK, ReliableTypeOK
    <3>4. QED
      BY <3>1, <3>3 DEF Announcements
  <2>3. QED
    BY <1>2, <2>1, <2>2
<1>4. Owed(j)' = Owed(j)
  BY DEF AppSend, AppSendRefused, Owed, routingVars, transportVars
<1>5. faults' = faults \/ faults' = faults + 1
  BY DEF AppSend, AppSendRefused, transportVars
<1>6. faults' \in Nat
  BY <1>1, <1>5
<1>7. Owed(j) \in Int
  BY DEF Owed
<1>8. QED
  BY <1>1, <1>3, <1>4, <1>5, <1>6, <1>7, StillPaid

LEMMA ReceivePaid ==
    ASSUME TypeOK, NEW j \in Joiner, AnnouncementsPaid(j), NEW p \in net, Receive(p)
    PROVE  AnnouncementsPaid(j)'
<1>1. j \in Node /\ p.dst \in Node /\ faults \in Nat /\ Owed(j) \in Int
  BY LeaderIsNode, PacketFields, FaultsAssumption DEF TypeOK, Owed
<1>2. /\ UNCHANGED transportVars
      /\ \/ pending' = [pending EXCEPT ![p.dst] = @ \ AckMatches(p)]
         \/ pending' = pending
      /\ \/ routingState' = routingState
         \/ \E announced \in BOOLEAN :
              routingState' = [routingState EXCEPT ![p.dst] =
                                 IF announced THEN "IDLE" ELSE @]
  BY DEF Receive, ReceiveAck, HandleAckPacket, ReceiveAnnouncement, ReceiveControl,
         ReceiveLocal, Accept, Acknowledge, Forward, HandleReliablePacket, reliableVars, routingVars
<1>3. Announcements(j)' \subseteq Announcements(j)
  <2>1. CASE pending' = pending
    BY <2>1 DEF Announcements
  <2>2. CASE pending' = [pending EXCEPT ![p.dst] = @ \ AckMatches(p)]
    <3>1. pending'[j] \subseteq pending[j]
      BY <1>1, <2>2 DEF TypeOK, ReliableTypeOK
    <3>2. QED
      BY <3>1 DEF Announcements
  <2>3. QED
    BY <1>2, <2>1, <2>2
<1>4. routingState'[j] = routingState[j] \/ routingState'[j] = "IDLE"
  BY <1>1, <1>2 DEF TypeOK
<1>5. Owed(j)' <= Owed(j) /\ faults' = faults
  BY <1>2, <1>4 DEF Owed, transportVars
<1>6. QED
  BY <1>1, <1>3, <1>5, StillPaid

LEMMA PumpPaid ==
    ASSUME TypeOK, NEW j \in Joiner, AnnouncementsPaid(j), NEW n \in Node, Pump(n)
    PROVE  AnnouncementsPaid(j)'
<1>1. /\ j \in Node /\ faults \in Nat /\ Owed(j) \in {0, 1}
      /\ pending[j] \subseteq PendingEntry
  BY LeaderIsNode, FaultsAssumption DEF TypeOK, ReliableTypeOK, Owed
<1>2. /\ pending' = [pending EXCEPT ![n] =
                       (@ \ Due(n)) \cup {AfterResend(e) : e \in Resent(n)}]
      /\ routingState' = [routingState EXCEPT ![n] = StateAfterPump(n)]
      /\ UNCHANGED transportVars
  BY DEF Pump, PumpReliable
<1>3. CASE n # j
  <2>1. pending'[j] = pending[j] /\ routingState'[j] = routingState[j]
    BY <1>1, <1>2, <1>3 DEF TypeOK, ReliableTypeOK
  <2>2. Announcements(j)' = Announcements(j) /\ Owed(j)' = Owed(j) /\ faults' = faults
    BY <1>2, <2>1 DEF Announcements, Owed, transportVars
  <2>3. QED
    BY <1>1, <2>2, StillPaid
<1>4. CASE n = j
  <2>1. pending'[j] = (pending[j] \ Due(j)) \cup {AfterResend(e) : e \in Resent(j)}
    BY <1>1, <1>2, <1>4 DEF TypeOK, ReliableTypeOK
  <2> DEFINE Lost == {e \in Exhausted(j) : e.addr = RoutingAddr}
             Kept == Announcements(j) \ Lost
             after == [e \in Kept |-> IF e \in Due(j) THEN AfterResend(e) ELSE e]
  <2>2. Announcements(j)' \subseteq {after[e] : e \in Kept}
    <3> SUFFICES ASSUME NEW g \in pending'[j], g.addr = RoutingAddr
                 PROVE  \E e \in Kept : g = after[e]
      BY DEF Announcements
    <3>1. CASE g \in pending[j] \ Due(j)
      <4>1. g \in Kept
        BY <3>1 DEF Announcements, Exhausted
      <4>2. QED
        BY <3>1, <4>1
    <3>2. ASSUME NEW e \in Resent(j), g = AfterResend(e)
          PROVE  \E x \in Kept : g = after[x]
      <4>1. e \in pending[j] /\ e \in Due(j) /\ e \notin Exhausted(j)
        BY DEF Resent, Due
      <4>2. e.addr = RoutingAddr
        BY <1>1, <3>2, <4>1 DEF AfterResend, PendingEntry
      <4>3. e \in Kept
        BY <4>1, <4>2 DEF Announcements
      <4>4. QED
        BY <3>2, <4>1, <4>3
    <3>3. QED
      BY <2>1, <3>1, <3>2
  <2>3. IsFiniteSet(Kept) /\ Cardinality(Kept) <= Cardinality(Announcements(j))
    BY FS_Subset DEF AnnouncementsPaid
  <2>4. after = [e \in Kept |-> after[e]]
    OBVIOUS
  <2>5. Lost # {} => Cardinality(Kept) < Cardinality(Announcements(j))
    <3> SUFFICES ASSUME NEW e \in Lost
                 PROVE  Cardinality(Kept) < Cardinality(Announcements(j))
      OBVIOUS
    <3>1. Kept # Announcements(j) /\ Kept \in SUBSET Announcements(j)
      BY DEF Announcements, Exhausted, Due
    <3>2. Cardinality(Kept) # Cardinality(Announcements(j))
      BY <3>1, FS_Subset DEF AnnouncementsPaid
    <3>3. Cardinality(Kept) \in Nat /\ Cardinality(Announcements(j)) \in Nat
      BY <2>3, FS_CardinalityType DEF AnnouncementsPaid
    <3>4. QED
      BY <2>3, <3>2, <3>3
  <2>6. Lost = {} => Owed(j)' = Owed(j)
    BY <1>1, <1>2, <1>4 DEF Owed, StateAfterPump, transportVars, TypeOK
  <2>7. Owed(j)' \in {0, 1} /\ faults' = faults
    BY <1>2 DEF Owed, transportVars
  <2> HIDE DEF after, Kept, Lost
  <2>8. /\ IsFiniteSet({after[e] : e \in Kept})
        /\ Cardinality({after[e] : e \in Kept}) <= Cardinality(Kept)
    BY <2>3, <2>4, ImageNoLarger
  <2>9. /\ IsFiniteSet(Announcements(j)')
        /\ Cardinality(Announcements(j)') <= Cardinality({after[e] : e \in Kept})
    BY <2>2, <2>8, FS_Subset
  <2>10. /\ Cardinality(Announcements(j)') \in Nat
         /\ Cardinality({after[e] : e \in Kept}) \in Nat
         /\ Cardinality(Kept) \in Nat /\ Cardinality(Announcements(j)) \in Nat
    BY <2>3, <2>8, <2>9, FS_CardinalityType DEF AnnouncementsPaid
  <2>11. Cardinality(Announcements(j)) + Owed(j) <= faults + 1
    BY DEF AnnouncementsPaid
  <2>12. Cardinality(Announcements(j)') + Owed(j)' <= faults' + 1
    BY <1>1, <2>3, <2>5, <2>6, <2>7, <2>8, <2>9, <2>10, <2>11
  <2>13. QED
    BY <2>9, <2>12 DEF AnnouncementsPaid
<1>5. QED
  BY <1>3, <1>4

LEMMA TickPaid ==
    ASSUME TypeOK, NEW j \in Joiner, AnnouncementsPaid(j), Tick
    PROVE  AnnouncementsPaid(j)'
<1>1. /\ j \in Node /\ faults \in Nat /\ Owed(j) \in {0, 1}
      /\ pending[j] \subseteq PendingEntry
  BY LeaderIsNode, FaultsAssumption DEF TypeOK, ReliableTypeOK, Owed
<1> DEFINE older == [e \in Announcements(j) |-> [e EXCEPT !.due = @ - 1]]
<1>2. pending'[j] = {[e EXCEPT !.due = @ - 1] : e \in pending[j]}
  BY <1>1 DEF Tick, ReliableTick
<1>3. Owed(j)' = Owed(j) /\ faults' = faults
  BY DEF Tick, routingVars, transportVars, Owed
<1>4. Announcements(j)' \subseteq {older[e] : e \in Announcements(j)}
  <2> SUFFICES ASSUME NEW e \in pending[j], [e EXCEPT !.due = @ - 1].addr = RoutingAddr
               PROVE  e \in Announcements(j)
    BY <1>2 DEF Announcements
  <2>1. e.addr = RoutingAddr
    BY <1>1 DEF PendingEntry
  <2>2. QED
    BY <2>1 DEF Announcements
<1>5. older = [e \in Announcements(j) |-> older[e]]
  OBVIOUS
<1> HIDE DEF older
<1>6. /\ IsFiniteSet({older[e] : e \in Announcements(j)})
      /\ Cardinality({older[e] : e \in Announcements(j)}) <= Cardinality(Announcements(j))
  BY <1>5, ImageNoLarger DEF AnnouncementsPaid
<1>7. /\ IsFiniteSet(Announcements(j)')
      /\ Cardinality(Announcements(j)') <= Cardinality({older[e] : e \in Announcements(j)})
  BY <1>4, <1>6, FS_Subset
<1>8. /\ Cardinality(Announcements(j)') \in Nat
      /\ Cardinality({older[e] : e \in Announcements(j)}) \in Nat
      /\ Cardinality(Announcements(j)) \in Nat
  BY <1>6, <1>7, FS_CardinalityType DEF AnnouncementsPaid
<1>9. Cardinality(Announcements(j)) + Owed(j) <= faults + 1
  BY DEF AnnouncementsPaid
<1>10. Cardinality(Announcements(j)') + Owed(j)' <= faults' + 1
  BY <1>1, <1>3, <1>6, <1>7, <1>8, <1>9
<1>11. QED
  BY <1>7, <1>10 DEF AnnouncementsPaid

LEMMA UpdatePaid ==
    ASSUME TypeOK, NEW j \in Joiner, AnnouncementsPaid(j), NEW n \in Node, RoutingUpdate(n)
    PROVE  AnnouncementsPaid(j)'
<1>1. /\ j \in Node /\ j # Leader /\ faults \in Nat /\ Owed(j) \in {0, 1}
  BY LeaderIsNode, RolesAssumption, FaultsAssumption DEF TypeOK, Owed
<1>2. CASE OnLightThreadLost(n)
  <2>1. /\ pending' = pending /\ faults' = faults /\ ltReady' = ltReady
        /\ ~ltReady[n] /\ wasReady' = [wasReady EXCEPT ![n] = FALSE]
        /\ routingState' = [routingState EXCEPT ![n] = "IDLE"]
    BY <1>2 DEF OnLightThreadLost, reliableVars
  <2>2. Announcements(j)' = Announcements(j)
    BY <2>1 DEF Announcements
  <2>3. Owed(j)' <= Owed(j)
    <3>1. CASE n = j
      <4>1. Owed(j) = 1
        BY <2>1, <3>1 DEF Owed
      <4>2. QED
        BY <4>1 DEF Owed
    <3>2. CASE n # j
      <4>1. wasReady'[j] = wasReady[j] /\ routingState'[j] = routingState[j]
        BY <1>1, <2>1, <3>2 DEF TypeOK
      <4>2. QED
        BY <2>1, <4>1 DEF Owed
    <3>3. QED
      BY <3>1, <3>2
  <2>4. QED
    BY <1>1, <2>1, <2>2, <2>3, StillPaid
<1>3. CASE n = Leader /\ LeaderOnLightThreadReady
  <2>1. /\ pending' = pending /\ faults' = faults /\ ltReady' = ltReady
        /\ wasReady'[j] = wasReady[j] /\ routingState'[j] = routingState[j]
    BY <1>1, <1>3 DEF LeaderOnLightThreadReady, reliableVars, TypeOK
  <2>2. Announcements(j)' = Announcements(j) /\ Owed(j)' = Owed(j)
    BY <2>1 DEF Announcements, Owed
  <2>3. QED
    BY <1>1, <2>1, <2>2, StillPaid
<1>4. CASE n \in Joiner /\ JoinerAnnounces(n)
  <2>1. /\ SendAnnouncement(n) /\ ltReady[n] /\ MustAnnounce(n)
        /\ ltReady' = ltReady /\ wasReady' = [wasReady EXCEPT ![n] = TRUE]
    BY <1>4 DEF JoinerAnnounces
  <2>2. faults' = faults \/ faults' = faults + 1
    BY <2>1 DEF SendAnnouncement
  <2>3. CASE n # j
    <3>1. pending'[j] = pending[j] /\ routingState'[j] = routingState[j]
          /\ wasReady'[j] = wasReady[j]
      BY <1>1, <2>1, <2>3
      DEF SendAnnouncement, SendReliable, StorePending, reliableVars, TypeOK, ReliableTypeOK
    <3>2. Announcements(j)' = Announcements(j) /\ Owed(j)' = Owed(j)
      BY <2>1, <3>1 DEF Announcements, Owed
    <3>3. QED
      BY <1>1, <2>2, <3>2, StillPaid
  <2>4. CASE n = j
    <3>1. Owed(j) = 1
      BY <2>1, <2>4 DEF Owed, MustAnnounce
    <3>2. CASE pending' = pending
      <4>1. Announcements(j)' = Announcements(j) /\ Owed(j)' <= Owed(j)
        BY <3>1, <3>2 DEF Announcements, Owed
      <4>2. QED
        BY <1>1, <2>2, <4>1, StillPaid
    <3>3. ASSUME NEW s, SendReliable(j, Leader, RoutingAddr, LocalThings[j], s, TRUE),
                 routingState' = [routingState EXCEPT ![j] = "WAITING_FOR_ACK"],
                 faults' = faults
          PROVE  AnnouncementsPaid(j)'
      <4> DEFINE entry == NewPending(s, Leader, RoutingAddr, LocalThings[j])
      <4>1. pending' = StorePending(j, entry)
        BY <3>3 DEF SendReliable
      <4> HIDE DEF entry
      <4>2. Announcements(j)' \subseteq Announcements(j) \cup {entry}
        BY <1>1, <4>1 DEF Announcements, StorePending, TypeOK, ReliableTypeOK
      <4>3. /\ IsFiniteSet(Announcements(j) \cup {entry})
            /\ Cardinality(Announcements(j) \cup {entry}) <= Cardinality(Announcements(j)) + 1
        BY FS_AddElement, FS_CardinalityType DEF AnnouncementsPaid
      <4>4. /\ IsFiniteSet(Announcements(j)')
            /\ Cardinality(Announcements(j)')
                 <= Cardinality(Announcements(j) \cup {entry})
        BY <4>2, <4>3, FS_Subset
      <4>5. Owed(j)' = 0
        BY <1>1, <2>1, <2>4, <3>3 DEF Owed, TypeOK
      <4>6. /\ Cardinality(Announcements(j)') \in Nat
            /\ Cardinality(Announcements(j) \cup {entry}) \in Nat
            /\ Cardinality(Announcements(j)) \in Nat
        BY <4>3, <4>4, FS_CardinalityType DEF AnnouncementsPaid
      <4>7. Cardinality(Announcements(j)) + Owed(j) <= faults + 1
        BY DEF AnnouncementsPaid
      <4>8. Cardinality(Announcements(j)') + Owed(j)' <= faults' + 1
        BY <1>1, <3>1, <3>3, <4>3, <4>4, <4>5, <4>6, <4>7
      <4>9. QED
        BY <4>4, <4>8 DEF AnnouncementsPaid
    <3>4. QED
      BY <2>1, <2>4, <3>2, <3>3 DEF SendAnnouncement, SendReliable, reliableVars
  <2>5. QED
    BY <2>3, <2>4
<1>5. QED
  BY <1>2, <1>3, <1>4 DEF RoutingUpdate

LEMMA EnvironmentPaid ==
    ASSUME TypeOK, NEW j \in Joiner, AnnouncementsPaid(j), NEW n \in Node,
           \/ TransportUp(n) \/ TransportDown(n) \/ Sleep(n) \/ PowerCycle(n)
           \/ \E ready \in AppReadyArgs[n] : AppSetNetworkReady(n, ready)
    PROVE  AnnouncementsPaid(j)'
<1>1. /\ j \in Node /\ faults \in Nat /\ Owed(j) \in {0, 1}
  BY LeaderIsNode, FaultsAssumption DEF TypeOK, Owed
<1>2. CASE TransportDown(n) \/ Sleep(n) \/ PowerCycle(n)
  <2>1. /\ faults' = faults + 1
        /\ pending' = pending \/ pending' = [pending EXCEPT ![n] = {}]
    BY <1>2 DEF TransportDown, Sleep, PowerCycle, WakeFromSleep, ColdBoot, WipeRam,
                reliableVars
  <2>2. Announcements(j)' \subseteq Announcements(j)
    BY <1>1, <2>1 DEF Announcements, TypeOK, ReliableTypeOK
  <2>3. QED
    BY <1>1, <2>1, <2>2, StillPaid
<1>3. CASE TransportUp(n)
  <2>1. /\ pending' = pending /\ faults' = faults
        /\ wasReady' = wasReady /\ routingState' = routingState
        /\ ltReady[j] => ltReady'[j]
    BY <1>1, <1>3 DEF TransportUp, reliableVars, routingVars, TypeOK
  <2>2. Announcements(j)' = Announcements(j) /\ Owed(j)' <= Owed(j)
    BY <2>1 DEF Announcements, Owed
  <2>3. QED
    BY <1>1, <2>1, <2>2, StillPaid
<1>4. CASE \E ready \in AppReadyArgs[n] : AppSetNetworkReady(n, ready)
  <2>1. UNCHANGED <<pending, faults, wasReady, ltReady, routingState>>
    BY <1>4 DEF AppSetNetworkReady, reliableVars, transportVars
  <2>2. Announcements(j)' = Announcements(j) /\ Owed(j)' = Owed(j)
    BY <2>1 DEF Announcements, Owed
  <2>3. QED
    BY <1>1, <2>1, <2>2, StillPaid
<1>5. QED
  BY <1>2, <1>3, <1>4

(* However announcements fail, time out, are refused or are answered late,   *)
(* a joiner never has more of them pending than it has met faults, and one:  *)
(* a lost ACK by itself starts no second series (routingStrategyUpdate,      *)
(* routingHandleAck, routingHandleAckFailure).                               *)
THEOREM FewAnnouncements == Spec => []AnnouncementsBounded
<1> DEFINE Inv == \A j \in Joiner : AnnouncementsPaid(j)
<1>1. Init => Inv
  <2> SUFFICES ASSUME Init, NEW j \in Joiner PROVE AnnouncementsPaid(j)
    OBVIOUS
  <2>1. Announcements(j) = {} /\ faults = 0 /\ Owed(j) = 1
    BY LeaderIsNode DEF Init, ReliableInit, Announcements, Owed
  <2>2. QED
    BY <2>1, FS_EmptySet DEF AnnouncementsPaid
<1>2. ASSUME RouteInv, Inv, [Next]_vars PROVE Inv'
  <2> SUFFICES ASSUME NEW j \in Joiner PROVE AnnouncementsPaid(j)'
    OBVIOUS
  <2>1. TypeOK /\ AnnouncementsPaid(j)
    BY <1>2 DEF RouteInv
  <2>2. ASSUME NEW n \in Node, RoutingUpdate(n) PROVE AnnouncementsPaid(j)'
    BY <2>1, <2>2, UpdatePaid
  <2>3. ASSUME NEW n \in Node, Pump(n) PROVE AnnouncementsPaid(j)'
    BY <2>1, <2>3, PumpPaid
  <2>4. CASE Tick
    BY <2>1, <2>4, TickPaid
  <2>5. ASSUME NEW n \in Node,
               \/ TransportUp(n) \/ TransportDown(n) \/ Sleep(n) \/ PowerCycle(n)
               \/ \E ready \in AppReadyArgs[n] : AppSetNetworkReady(n, ready)
        PROVE  AnnouncementsPaid(j)'
    BY <2>1, <2>5, EnvironmentPaid
  <2>6. ASSUME NEW n \in Node, NEW m \in Message, NEW a \in Addr \ {RoutingAddr},
               NEW reliable \in BOOLEAN,
               AppSend(n, m, a, reliable) \/ AppSendRefused(n, m, a)
        PROVE  AnnouncementsPaid(j)'
    BY <2>1, <2>6, SendPaid
  <2>7. ASSUME NEW p \in net, Receive(p) PROVE AnnouncementsPaid(j)'
    BY <2>1, <2>7, ReceivePaid
  <2>8. CASE UNCHANGED vars
    <3>1. UNCHANGED <<pending, faults, wasReady, ltReady, routingState>>
      BY <2>8 DEF vars, reliableVars, routingVars, transportVars
    <3>2. QED
      BY <2>1, <3>1 DEF AnnouncementsPaid, Announcements, Owed
  <2>9. QED
    BY <1>2, <2>2, <2>3, <2>4, <2>5, <2>6, <2>7, <2>8, FaultsAssumption DEF Next
<1>3. RouteInv /\ Inv => AnnouncementsBounded
  <2> SUFFICES ASSUME RouteInv, Inv, NEW j \in Joiner
               PROVE  Cardinality(Announcements(j)) <= faults + 1
    BY DEF AnnouncementsBounded, Announcements
  <2>1. Cardinality(Announcements(j)) \in Nat /\ Owed(j) \in {0, 1} /\ faults \in Nat
    BY FS_CardinalityType, FaultsAssumption DEF AnnouncementsPaid, Owed, RouteInv, TypeOK
  <2>2. QED
    BY <2>1 DEF AnnouncementsPaid
<1> HIDE DEF Inv
<1>4. QED
  BY <1>1, <1>2, <1>3, RouteInvInit, RouteInvStep, PTL DEF Spec

-----------------------------------------------------------------------------
(* Confirmed means served, as long as no number comes back while something   *)
(* of its last use is about.                                                *)

\* No packet of n, no ACK for it and no window holds the number s.
Forgotten(n, s) ==
    /\ \A p \in net : p.seq = s => IF p.kind = AckKind THEN p.dst # n ELSE p.origin # n
    /\ \A d \in Node : \A e \in seen[d] : e.seq = s => e.origin # n

\* A number that a device takes is forgotten.
TakesForgotten ==
    \A n \in Node : nextSeq'[n] \notin {nextSeq[n], NoSeq} => Forgotten(n, nextSeq'[n])

(* 65535 numbers outlast the mesh and the windows, and a cold boot does not  *)
(* happen to draw one of them: a condition on behaviours, not on a state.    *)
NoNumberReturns == [][TakesForgotten]_vars

\* n still sends, or the mesh still holds, the body b for a under number s.
Carried(n, s, a, b) ==
    \/ \E e \in pending[n] : e.seq = s /\ e.addr = a /\ e.body = b
    \/ \E p \in net : /\ p.kind = ReliableKind /\ p.origin = n
                      /\ p.seq = s /\ p.addr = a /\ p.body = b

\* A device has accepted number s of n: it remembers, or its ACK is under way.
Accepted(n, s) ==
    \/ \E d \in Node : \E e \in seen[d] : e.origin = n /\ e.seq = s
    \/ \E p \in net : p.kind = AckKind /\ p.dst = n /\ p.seq = s

Served(b) == \E d \in dispatched : d.body = b

NumbersCarryOne ==
    \A n \in Node : \A s, a, b, c, d : Carried(n, s, a, b) /\ Carried(n, s, c, d)
                                          => a = c /\ b = d

\* What a device accepts without serving it to anyone.
Unserved == {RoutingAddr, IgnoredAddr}

AcceptedIsServed ==
    \A n \in Node : \A s, a, b : Accepted(n, s) /\ Carried(n, s, a, b)
                                    => a \in Unserved \/ Served(b)

\* What is still sent for an action that the leader ignores is on record as sent.
IgnoredIsSent ==
    \A n \in Node : \A e \in pending[n] :
        e.addr = IgnoredAddr => \E s \in sent : s.body = e.body /\ s.addr = IgnoredAddr

CountersValid == \A n \in Node : ~seqValid[n] => nextSeq[n] = NoSeq

ServeInv == NumbersCarryOne /\ AcceptedIsServed /\ CountersValid /\ ConfirmedMeansServed

(* A step that carries and accepts nothing new keeps what is served.        *)
LEMMA NothingNew ==
    ASSUME NumbersCarryOne, AcceptedIsServed,
           \A n \in Node : \A s, a, b : Carried(n, s, a, b)' => Carried(n, s, a, b),
           \A n \in Node : \A s : Accepted(n, s)' => Accepted(n, s),
           dispatched \subseteq dispatched'
    PROVE  NumbersCarryOne' /\ AcceptedIsServed'
<1>1. NumbersCarryOne'
  BY DEF NumbersCarryOne
<1>2. \A b : Served(b) => Served(b)'
  BY DEF Served
<1>3. AcceptedIsServed'
  <2> SUFFICES ASSUME NEW n \in Node, NEW s, NEW a, NEW b, Accepted(n, s)', Carried(n, s, a, b)',
                      a \notin Unserved
               PROVE  Served(b)'
    BY DEF AcceptedIsServed
  <2>1. Accepted(n, s) /\ Carried(n, s, a, b)
    OBVIOUS
  <2>2. QED
    BY <1>2, <2>1 DEF AcceptedIsServed
<1>4. QED
  BY <1>1, <1>3

(* What is neither pending anew nor put into the mesh is not carried anew.   *)
LEMMA NothingPut ==
    ASSUME \A n \in Node : pending'[n] \subseteq pending[n],
           \A n \in Node : \A e \in seen'[n] :
              \E g \in seen[n] : g.origin = e.origin /\ g.seq = e.seq,
           net' \subseteq net
    PROVE  /\ \A n \in Node : \A s, a, b : Carried(n, s, a, b)' => Carried(n, s, a, b)
           /\ \A n \in Node : \A s : Accepted(n, s)' => Accepted(n, s)
<1>1. \A n \in Node : \A s, a, b : Carried(n, s, a, b)' => Carried(n, s, a, b)
  BY DEF Carried
<1>2. \A n \in Node : \A s : Accepted(n, s)' => Accepted(n, s)
  BY DEF Accepted
<1>3. QED
  BY <1>1, <1>2

(* A new number carries what is sent under it, and has not been accepted.    *)
LEMMA SendServes ==
    ASSUME TypeOK, NumbersCarryOne, AcceptedIsServed, CountersValid, TakesForgotten,
           NEW n \in Node, NEW hop \in Node, NEW addr \in Addr, NEW body, NEW t,
           NEW result \in BOOLEAN,
           SendReliable(n, hop, addr, body, t, result),
           dispatched \subseteq dispatched'
    PROVE  NumbersCarryOne' /\ AcceptedIsServed' /\ CountersValid'
<1>1. t \in Seq /\ t # nextSeq[n] /\ nextSeq' = [nextSeq EXCEPT ![n] = t]
      /\ seqValid' = [seqValid EXCEPT ![n] = TRUE] /\ seen' = seen
  <2>1. t \in Seq /\ t \in AllocSeq(n)
    BY AllocSeqType DEF SendReliable, TypeOK
  <2>2. t # nextSeq[n]
    <3>1. CASE seqValid[n]
      <4>1. t = Bump(nextSeq[n]) /\ nextSeq[n] \in 0 .. SeqMod - 1
        BY <2>1, <3>1, NumbersAssumption DEF AllocSeq, TypeOK, ReliableTypeOK, Seq, NoSeq
      <4>2. QED
        BY <4>1, BumpValue, NumbersAssumption
    <3>2. CASE ~seqValid[n]
      BY <2>1, <3>2 DEF CountersValid, Seq, NoSeq
    <3>3. QED
      BY <3>1, <3>2
  <2>3. QED
    BY <2>1, <2>2 DEF SendReliable, RetainSeq
<1>2. CountersValid'
  BY <1>1 DEF CountersValid, TypeOK, ReliableTypeOK
<1>3. Forgotten(n, t)
  <2>1. nextSeq'[n] = t /\ t \notin {nextSeq[n], NoSeq}
    BY <1>1 DEF TypeOK, ReliableTypeOK, Seq, NoSeq
  <2>2. QED
    BY <2>1 DEF TakesForgotten
<1>4. CASE ~result
  <2>1. UNCHANGED <<pending, net, seen>>
    BY <1>1, <1>4 DEF SendReliable
  <2>2. QED
    BY <1>2, <2>1, NothingPut, NothingNew
<1>5. CASE result
  <2> DEFINE entry == NewPending(t, hop, addr, body)
             packet == BuildPacket(ReliableKind, n, hop, t, addr, body)
  <2>1. /\ entry.seq = t /\ entry.addr = addr /\ entry.body = body
        /\ packet.kind = ReliableKind /\ packet.kind # AckKind
        /\ packet.origin = n /\ packet.seq = t /\ packet.addr = addr /\ packet.body = body
    BY DEF NewPending, BuildPacket, ReliableKind, AckKind
  <2>2. /\ pending' = StorePending(n, entry)
        /\ net' = Put({packet})
    BY <1>5 DEF SendReliable
  <2> HIDE DEF entry, packet
  <2>3. /\ pending'[n] = {e \in pending[n] : e.seq # t} \cup {entry}
        /\ \A k \in Node \ {n} : pending'[k] = pending[k]
        /\ net' \subseteq net \cup {packet}
    BY <2>1, <2>2 DEF StorePending, TypeOK, ReliableTypeOK, Put
  <2>4. \A k \in Node : \A s : Accepted(k, s)' => Accepted(k, s)
    BY <1>1, <2>1, <2>3 DEF Accepted
  <2>5. ~Accepted(n, t)
    BY <1>3 DEF Accepted, Forgotten
  <2>6. ASSUME NEW k \in Node, NEW s, NEW a, NEW b, Carried(k, s, a, b)',
               ~(k = n /\ s = t)
        PROVE  Carried(k, s, a, b)
    <3>1. CASE \E e \in pending'[k] : e.seq = s /\ e.addr = a /\ e.body = b
      BY <2>1, <2>3, <2>6, <3>1 DEF Carried
    <3>2. CASE \E p \in net' : /\ p.kind = ReliableKind /\ p.origin = k
                               /\ p.seq = s /\ p.addr = a /\ p.body = b
      BY <2>1, <2>3, <2>6, <3>2 DEF Carried
    <3>3. QED
      BY <2>6, <3>1, <3>2 DEF Carried
  <2>7. ASSUME NEW a, NEW b, Carried(n, t, a, b)'
        PROVE  a = addr /\ b = body
    <3>1. CASE \E e \in pending'[n] : e.seq = t /\ e.addr = a /\ e.body = b
      BY <2>1, <2>3, <3>1
    <3>2. CASE \E p \in net' : /\ p.kind = ReliableKind /\ p.origin = n
                               /\ p.seq = t /\ p.addr = a /\ p.body = b
      BY <1>3, <2>1, <2>3, <3>2 DEF Forgotten, ReliableKind, AckKind
    <3>3. QED
      BY <2>7, <3>1, <3>2 DEF Carried
  <2>8. NumbersCarryOne'
    <3> SUFFICES ASSUME NEW k \in Node, NEW s, NEW a, NEW b, NEW c, NEW d,
                        Carried(k, s, a, b)', Carried(k, s, c, d)'
                 PROVE  a = c /\ b = d
      BY DEF NumbersCarryOne
    <3>1. CASE k = n /\ s = t
      BY <2>7, <3>1
    <3>2. CASE ~(k = n /\ s = t)
      BY <2>6, <3>2 DEF NumbersCarryOne
    <3>3. QED
      BY <3>1, <3>2
  <2>9. AcceptedIsServed'
    <3> SUFFICES ASSUME NEW k \in Node, NEW s, NEW a, NEW b,
                        Accepted(k, s)', Carried(k, s, a, b)', a \notin Unserved
                 PROVE  Served(b)'
      BY DEF AcceptedIsServed
    <3>1. Accepted(k, s)
      BY <2>4
    <3>2. Carried(k, s, a, b)
      BY <2>5, <2>6, <3>1
    <3>3. Served(b)
      BY <3>1, <3>2 DEF AcceptedIsServed
    <3>4. QED
      BY <3>3 DEF Served
  <2>10. QED
    BY <1>2, <2>8, <2>9
<1>6. QED
  BY <1>4, <1>5

(* A reliable packet is served where it is first accepted.                  *)
LEMMA AcceptServes ==
    ASSUME TypeOK, NumbersCarryOne, AcceptedIsServed,
           NEW p \in net, p.kind = ReliableKind, HandleReliablePacket(p),
           dispatched \subseteq dispatched',
           p.addr \in Unserved \/ WasSeen(p) \/ Served(p.body)'
    PROVE  NumbersCarryOne' /\ AcceptedIsServed'
<1> DEFINE ack == BuildPacket(AckKind, p.dst, p.origin, p.seq, p.addr, NoBody)
<1>1. /\ ack.kind = AckKind /\ ack.kind # ReliableKind
      /\ ack.dst = p.origin /\ ack.seq = p.seq
  BY DEF BuildPacket, ReliableKind, AckKind
<1>2. pending' = pending /\ net' = Put({ack}) /\ seen' = [seen EXCEPT ![p.dst] = MarkSeen(p)]
  BY DEF HandleReliablePacket
<1> HIDE DEF ack
<1>3. net' \subseteq net \cup {ack}
  BY <1>2 DEF Put
<1>4. p \in Packet /\ p.dst \in Node /\ p.origin \in Node
  BY PacketFields
<1>5. \A e \in MarkSeen(p) : \/ e.origin = p.origin /\ e.seq = p.seq
                             \/ \E g \in seen[p.dst] : g.origin = e.origin /\ g.seq = e.seq
  BY <1>4, MarkSeenKeys DEF TypeOK
<1>6. ASSUME NEW n \in Node, NEW s, Accepted(n, s)', ~(n = p.origin /\ s = p.seq)
      PROVE  Accepted(n, s)
  <2>1. CASE \E d \in Node : \E e \in seen'[d] : e.origin = n /\ e.seq = s
    <3>1. PICK d \in Node : \E e \in seen'[d] : e.origin = n /\ e.seq = s
      BY <2>1
    <3>2. CASE d = p.dst
      <4>1. seen'[d] = MarkSeen(p)
        BY <1>2, <1>4, <3>2 DEF TypeOK, ReliableTypeOK
      <4>2. QED
        BY <1>4, <1>5, <1>6, <3>1, <3>2, <4>1 DEF Accepted
    <3>3. CASE d # p.dst
      BY <1>2, <3>1, <3>3 DEF Accepted, TypeOK, ReliableTypeOK
    <3>4. QED
      BY <3>2, <3>3
  <2>2. CASE \E q \in net' : q.kind = AckKind /\ q.dst = n /\ q.seq = s
    BY <1>1, <1>3, <1>6, <2>2 DEF Accepted
  <2>3. QED
    BY <1>6, <2>1, <2>2 DEF Accepted
<1>7. \A n \in Node : \A s, a, b : Carried(n, s, a, b)' => Carried(n, s, a, b)
  BY <1>1, <1>2, <1>3 DEF Carried
<1>8. Carried(p.origin, p.seq, p.addr, p.body)
  BY DEF Carried
<1>9. \A b : Served(b) => Served(b)'
  BY DEF Served
<1>10. WasSeen(p) => Accepted(p.origin, p.seq)
  BY <1>4 DEF WasSeen, SameKey, Accepted
<1>11. p.addr \in Unserved \/ Served(p.body)'
  BY <1>4, <1>8, <1>9, <1>10 DEF AcceptedIsServed
<1>12. AcceptedIsServed'
  <2> SUFFICES ASSUME NEW n \in Node, NEW s, NEW a, NEW b,
                      Accepted(n, s)', Carried(n, s, a, b)', a \notin Unserved
               PROVE  Served(b)'
    BY DEF AcceptedIsServed
  <2>1. Carried(n, s, a, b)
    BY <1>7
  <2>2. CASE n = p.origin /\ s = p.seq
    <3>1. a = p.addr /\ b = p.body
      BY <1>8, <2>1, <2>2 DEF NumbersCarryOne
    <3>2. QED
      BY <1>11, <3>1
  <2>3. CASE ~(n = p.origin /\ s = p.seq)
    <3>1. Accepted(n, s)
      BY <1>6, <2>3
    <3>2. Served(b)
      BY <2>1, <3>1 DEF AcceptedIsServed
    <3>3. QED
      BY <1>9, <3>2
  <2>4. QED
    BY <2>2, <2>3
<1>13. NumbersCarryOne'
  BY <1>7 DEF NumbersCarryOne
<1>14. QED
  BY <1>12, <1>13

(* A plain packet and a forwarded one are not new to the mesh.              *)
LEMMA ForwardServes ==
    ASSUME TypeOK, NumbersCarryOne, AcceptedIsServed, NEW q,
           \/ q.kind = PlainKind
           \/ \E p \in net : /\ q.kind = p.kind /\ p.kind # AckKind
                             /\ q.origin = p.origin /\ q.seq = p.seq
                             /\ q.addr = p.addr /\ q.body = p.body,
           net' = Put({q}), pending' = pending, seen' = seen,
           dispatched \subseteq dispatched'
    PROVE  NumbersCarryOne' /\ AcceptedIsServed'
<1>1. net' \subseteq net \cup {q}
  BY DEF Put
<1>2. \A n \in Node : \A s, a, b : Carried(n, s, a, b)' => Carried(n, s, a, b)
  BY <1>1 DEF Carried, PlainKind, ReliableKind, AckKind
<1>3. \A n \in Node : \A s : Accepted(n, s)' => Accepted(n, s)
  BY <1>1 DEF Accepted, PlainKind, ReliableKind, AckKind
<1>4. QED
  BY <1>2, <1>3, NothingNew

LEMMA PumpServes ==
    ASSUME TypeOK, NumbersCarryOne, AcceptedIsServed, NEW k \in Node, PumpReliable(k),
           dispatched' = dispatched
    PROVE  NumbersCarryOne' /\ AcceptedIsServed'
<1>1. pending[k] \in SUBSET PendingEntry /\ IsFiniteSet(seen[k]) /\ seen[k] \in SUBSET SeenEntry
  BY DEF TypeOK, ReliableTypeOK
<1> DEFINE Packets == {BuildPacket(ReliableKind, k, e.nextHop, e.seq, e.addr, e.body)
                         : e \in Resent(k)}
<1>2. \A q \in Packets : /\ q.kind = ReliableKind /\ q.origin = k
                         /\ \E e \in pending[k] : e.seq = q.seq /\ e.addr = q.addr
                                                  /\ e.body = q.body
  BY DEF BuildPacket, Resent, Due
<1>3. net' = Put(Packets)
  BY DEF PumpReliable
<1> HIDE DEF Packets
<1>4. net' \subseteq net \cup Packets
  BY <1>3 DEF Put
<1>5. \A e \in pending'[k] : \E g \in pending[k] :
        g.seq = e.seq /\ g.addr = e.addr /\ g.body = e.body
  <2>1. pending'[k] = (pending[k] \ Due(k)) \cup {AfterResend(e) : e \in Resent(k)}
    BY DEF PumpReliable, TypeOK, ReliableTypeOK
  <2>2. \A e \in Resent(k) : /\ e \in pending[k] /\ AfterResend(e).seq = e.seq
                             /\ AfterResend(e).addr = e.addr /\ AfterResend(e).body = e.body
    BY <1>1 DEF Resent, Due, AfterResend, PendingEntry
  <2>3. QED
    BY <2>1, <2>2
<1>6. \A n \in Node \ {k} : pending'[n] = pending[n] /\ seen'[n] = seen[n]
  BY DEF PumpReliable, TypeOK, ReliableTypeOK
<1>7. \A e \in seen'[k] : \E g \in seen[k] : g.origin = e.origin /\ g.seq = e.seq
  <2>1. seen'[k] = Trimmed(k)
    BY DEF PumpReliable, TypeOK, ReliableTypeOK
  <2>2. \A e \in Trimmed(k) : \E g \in seen[k] : g.origin = e.origin /\ g.seq = e.seq
    BY TrimmedType DEF TypeOK
  <2>3. QED
    BY <2>1, <2>2
<1>8. ASSUME NEW n \in Node, NEW s, NEW a, NEW b, Carried(n, s, a, b)'
      PROVE  Carried(n, s, a, b)
  <2>1. CASE \E e \in pending'[n] : e.seq = s /\ e.addr = a /\ e.body = b
    BY <1>5, <1>6, <2>1 DEF Carried
  <2>2. CASE \E p \in net' : /\ p.kind = ReliableKind /\ p.origin = n
                             /\ p.seq = s /\ p.addr = a /\ p.body = b
    BY <1>2, <1>4, <2>2 DEF Carried
  <2>3. QED
    BY <1>8, <2>1, <2>2 DEF Carried
<1>9. ASSUME NEW n \in Node, NEW s, Accepted(n, s)' PROVE Accepted(n, s)
  <2>1. CASE \E d \in Node : \E e \in seen'[d] : e.origin = n /\ e.seq = s
    BY <1>6, <1>7, <2>1 DEF Accepted
  <2>2. CASE \E p \in net' : p.kind = AckKind /\ p.dst = n /\ p.seq = s
    BY <1>2, <1>4, <2>2 DEF Accepted, AckKind, ReliableKind
  <2>3. QED
    BY <1>9, <2>1, <2>2 DEF Accepted
<1>10. QED
  BY <1>8, <1>9, NothingNew

LEMMA TickServes ==
    ASSUME TypeOK, NumbersCarryOne, AcceptedIsServed, ReliableTick,
           dispatched' = dispatched
    PROVE  NumbersCarryOne' /\ AcceptedIsServed'
<1> DEFINE Sooner(e) == [e EXCEPT !.due = @ - 1]
           Older(e) == [e EXCEPT !.age = @ + 1]
           Later(p) == [p EXCEPT !.life = @ - 1]
<1>1. /\ \A n \in Node : pending'[n] = {Sooner(e) : e \in pending[n]}
      /\ \A n \in Node : seen'[n] = {Older(e) : e \in seen[n]}
      /\ net' = {Later(p) : p \in {q \in net : q.life > 0}}
  BY DEF ReliableTick
<1>2. \A n \in Node : \A e \in pending[n] :
        Sooner(e).seq = e.seq /\ Sooner(e).addr = e.addr /\ Sooner(e).body = e.body
  BY DEF TypeOK, ReliableTypeOK, PendingEntry
<1>3. \A n \in Node : \A e \in seen[n] : Older(e).origin = e.origin /\ Older(e).seq = e.seq
  BY DEF TypeOK, ReliableTypeOK, SeenEntry
<1>4. \A p \in net : /\ Later(p).kind = p.kind /\ Later(p).origin = p.origin
                     /\ Later(p).dst = p.dst /\ Later(p).seq = p.seq
                     /\ Later(p).addr = p.addr /\ Later(p).body = p.body
  BY DEF TypeOK, ReliableTypeOK, Packet
<1> HIDE DEF Sooner, Older, Later
<1>5. ASSUME NEW n \in Node, NEW s, NEW a, NEW b, Carried(n, s, a, b)'
      PROVE  Carried(n, s, a, b)
  BY <1>1, <1>2, <1>4, <1>5 DEF Carried
<1>6. ASSUME NEW n \in Node, NEW s, Accepted(n, s)' PROVE Accepted(n, s)
  BY <1>1, <1>3, <1>4, <1>6 DEF Accepted
<1>7. QED
  BY <1>5, <1>6, NothingNew

(* Only a sketch's send() puts something on record as sent.                 *)
LEMMA SentKept ==
    ASSUME [Next]_vars
    PROVE  sent \subseteq sent'
<1>1. ASSUME NEW n \in Node, RoutingUpdate(n) PROVE sent' = sent
  BY <1>1 DEF RoutingUpdate, OnLightThreadLost, LeaderOnLightThreadReady, JoinerAnnounces, appVars
<1>2. ASSUME NEW n \in Node,
             \/ Pump(n) \/ TransportUp(n) \/ TransportDown(n) \/ Sleep(n) \/ PowerCycle(n)
             \/ \E ready \in AppReadyArgs[n] : AppSetNetworkReady(n, ready)
      PROVE  sent' = sent
  BY <1>2 DEF Pump, TransportUp, TransportDown, Sleep, PowerCycle, AppSetNetworkReady, appVars
<1>3. ASSUME NEW n, NEW m, NEW a, NEW reliable,
             AppSend(n, m, a, reliable) \/ AppSendRefused(n, m, a)
      PROVE  sent \subseteq sent'
  BY <1>3 DEF AppSend, AppSendRefused, appVars
<1>4. ASSUME NEW p \in net, Receive(p) PROVE sent' = sent
  BY <1>4 DEF Receive, ReceiveAck, ReceiveAnnouncement, ReceiveControl, ReceiveLocal, Accept,
              Forward, appVars
<1>5. Tick \/ UNCHANGED vars => sent' = sent
  BY DEF Tick, vars, appVars
<1>6. QED
  BY <1>1, <1>2, <1>3, <1>4, <1>5, FaultsAssumption DEF Next

\* What was served or on record stays so, while no more is confirmed.
LEMMA StillServed ==
    ASSUME ConfirmedMeansServed, confirmed' = confirmed, dispatched \subseteq dispatched',
           sent \subseteq sent'
    PROVE  ConfirmedMeansServed'
BY DEF ConfirmedMeansServed

LEMMA ReceiveServes ==
    ASSUME RouteInv, IgnoredIsSent, ServeInv, [Next]_vars, NEW p \in net, Receive(p)
    PROVE  ServeInv'
<1>1. /\ TypeOK /\ p \in Packet /\ p.dst \in Node /\ p.origin \in Node
      /\ NumbersCarryOne /\ AcceptedIsServed /\ CountersValid /\ ConfirmedMeansServed
  BY PacketFields DEF RouteInv, ServeInv
<1>2. UNCHANGED <<seqValid, nextSeq>> /\ dispatched \subseteq dispatched'
  BY DEF Receive, ReceiveAck, HandleAckPacket, ReceiveAnnouncement, ReceiveControl,
         ReceiveLocal, Accept, Acknowledge, Forward, HandleReliablePacket, reliableVars, appVars
<1>3. CountersValid' /\ sent \subseteq sent'
  BY <1>1, <1>2, SentKept DEF CountersValid
<1>4. CASE ReceiveAck(p)
  <2>1. /\ pending' = [pending EXCEPT ![p.dst] = @ \ AckMatches(p)]
        /\ UNCHANGED <<seen, net, dispatched>>
        /\ confirmed' = confirmed \cup ({e.body : e \in AckMatches(p)} \cap Message)
        /\ p.kind = AckKind
    BY <1>4 DEF ReceiveAck, HandleAckPacket
  <2>2. \A n \in Node : pending'[n] \subseteq pending[n]
    BY <1>1, <2>1 DEF TypeOK, ReliableTypeOK
  <2>3. NumbersCarryOne' /\ AcceptedIsServed'
    BY <1>1, <2>1, <2>2, NothingPut, NothingNew
  <2>4. ASSUME NEW e \in AckMatches(p), e.body \in Message
        PROVE  Served(e.body) \/ \E s \in sent : s.body = e.body /\ s.addr = IgnoredAddr
    <3>1. e \in pending[p.dst] /\ e.seq = p.seq
      BY DEF AckMatches
    <3>2. Carried(p.dst, p.seq, e.addr, e.body) /\ Accepted(p.dst, p.seq)
      BY <2>1, <3>1 DEF Carried, Accepted
    <3>3. e.addr # RoutingAddr
      <4>1. WellSent(p.dst, e.nextHop, e.addr, e.body)
        BY <1>1, <3>1 DEF RouteInv, EntriesWell
      <4>2. QED
        BY <1>1, <2>4, <4>1, BodyAssumption DEF WellSent
    <3>4. CASE e.addr = IgnoredAddr
      BY <1>1, <3>1, <3>4 DEF IgnoredIsSent
    <3>5. CASE e.addr # IgnoredAddr
      BY <1>1, <3>2, <3>3, <3>5 DEF AcceptedIsServed, Unserved
    <3>6. QED
      BY <3>4, <3>5
  <2>5. ConfirmedMeansServed'
    BY <1>1, <1>3, <2>1, <2>4 DEF ConfirmedMeansServed, Served
  <2>6. QED
    BY <1>3, <2>3, <2>5 DEF ServeInv
<1>5. CASE ~ReceiveAck(p)
  <2>1. confirmed' = confirmed
    BY <1>5 DEF Receive, ReceiveAnnouncement, ReceiveControl, ReceiveLocal, Accept, Forward,
                appVars
  <2>2. ConfirmedMeansServed'
    BY <1>1, <1>2, <1>3, <2>1, StillServed
  <2>3. CASE ReceiveAnnouncement(p)
    <3>1. p.kind = ReliableKind /\ HandleReliablePacket(p) /\ p.addr = RoutingAddr
      BY <2>3 DEF ReceiveAnnouncement
    <3>2. p.addr \in Unserved
      BY <3>1 DEF Unserved
    <3>3. QED
      BY <1>1, <1>2, <1>3, <2>2, <3>1, <3>2, AcceptServes DEF ServeInv
  <2>7. CASE Acknowledge(p) /\ p.addr \in Unserved
    <3>1. CASE p.kind = ReliableKind
      <4>1. HandleReliablePacket(p)
        BY <2>7, <3>1 DEF Acknowledge
      <4>2. QED
        BY <1>1, <1>2, <1>3, <2>2, <2>7, <3>1, <4>1, AcceptServes DEF ServeInv
    <3>2. CASE p.kind # ReliableKind
      <4>1. UNCHANGED <<pending, seen, net>>
        BY <2>7, <3>2 DEF Acknowledge, reliableVars
      <4>2. QED
        BY <1>1, <1>2, <1>3, <2>2, <4>1, NothingPut, NothingNew DEF ServeInv
    <3>3. QED
      BY <3>1, <3>2
  <2>4. CASE Accept(p)
    <3>1. CASE p.kind = ReliableKind
      <4>1. HandleReliablePacket(p) /\ (WasSeen(p) \/ Served(p.body)')
        <5>1. HandleReliablePacket(p)
          BY <2>4, <3>1 DEF Accept, Acknowledge
        <5>2. ASSUME ~WasSeen(p) PROVE Served(p.body)'
          <6> DEFINE d == [at |-> p.dst, addr |-> p.addr, body |-> p.body]
          <6>1. dispatched' = dispatched \cup {d}
            BY <2>4, <5>2 DEF Accept
          <6>2. d.body = p.body
            OBVIOUS
          <6>3. QED
            BY <6>1, <6>2 DEF Served
        <5>3. QED
          BY <5>1, <5>2
      <4>2. QED
        BY <1>1, <1>2, <1>3, <2>2, <3>1, <4>1, AcceptServes DEF ServeInv
    <3>2. CASE p.kind # ReliableKind
      <4>1. UNCHANGED reliableVars
        BY <2>4, <3>2 DEF Accept, Acknowledge
      <4>2. UNCHANGED <<pending, seen, net>>
        BY <4>1 DEF reliableVars
      <4>3. QED
        BY <1>1, <1>2, <1>3, <2>2, <4>2, NothingPut, NothingNew DEF ServeInv
    <3>3. QED
      BY <3>1, <3>2
  <2>5. CASE Forward(p)
    <3> DEFINE q == [p EXCEPT !.dst = thingIdToIp[p.dst][p.addr], !.life = MaxDelay]
    <3>1. net' = Put({q}) /\ pending' = pending /\ seen' = seen /\ p.kind # AckKind
      BY <2>5 DEF Forward
    <3>2. /\ q.kind = p.kind /\ q.origin = p.origin /\ q.seq = p.seq
          /\ q.addr = p.addr /\ q.body = p.body
      BY <1>1 DEF Packet
    <3> HIDE DEF q
    <3>3. NumbersCarryOne' /\ AcceptedIsServed'
      BY <1>1, <1>2, <3>1, <3>2, ForwardServes
    <3>4. QED
      BY <1>3, <2>2, <3>3 DEF ServeInv
  <2>8. CASE ReceiveControl(p)
    <3>1. p.addr = ControlAddr => p.dst = Leader
      <4>1. WellSent(p.origin, p.dst, p.addr, p.body)
        BY <1>1, <2>8 DEF RouteInv, PacketsWell, ReceiveControl
      <4>2. p.addr = ControlAddr => p.addr \notin LocalThings[p.dst]
        BY <1>1, ThingsAssumption DEF Thing, LeaderAddr
      <4>3. QED
        BY <4>1, <4>2 DEF WellSent
    <3>2. QED
      BY <2>4, <2>7, <2>8, <3>1 DEF ReceiveControl, Unserved
  <2>6. QED
    BY <1>5, <2>3, <2>4, <2>5, <2>8 DEF Receive, ReceiveLocal
<1>6. QED
  BY <1>4, <1>5

(* Every step that takes no number too early keeps what is confirmed served. *)
LEMMA ServeInvStep ==
    ASSUME RouteInv, IgnoredIsSent, ServeInv, [Next]_vars, [TakesForgotten]_vars
    PROVE  ServeInv'
<1>20. ASSUME dispatched' = dispatched, confirmed' = confirmed
       PROVE  ConfirmedMeansServed'
  BY <1>20, SentKept, StillServed DEF ServeInv
<1>1. /\ TypeOK /\ Leader \in Node /\ Joiner \subseteq Node
      /\ NumbersCarryOne /\ AcceptedIsServed /\ CountersValid /\ ConfirmedMeansServed
  BY LeaderIsNode DEF RouteInv, ServeInv
<1>2. CASE UNCHANGED reliableVars /\ UNCHANGED appVars
  <2>1. UNCHANGED <<pending, seen, net, seqValid, nextSeq, dispatched, confirmed>>
    BY <1>2 DEF reliableVars, appVars
  <2>2. NumbersCarryOne' /\ AcceptedIsServed'
    BY <1>1, <2>1, NothingPut, NothingNew
  <2>3. CountersValid' /\ ConfirmedMeansServed'
    BY <1>1, <1>20, <2>1 DEF CountersValid
  <2>4. QED
    BY <2>2, <2>3 DEF ServeInv
<1>3. CASE UNCHANGED vars
  BY <1>2, <1>3 DEF vars
<1>4. SUFFICES ASSUME Next, TakesForgotten PROVE ServeInv'
  BY <1>3
<1>5. ASSUME NEW n \in Node, NEW hop \in Node, NEW a \in Addr, NEW b, NEW s,
             NEW result \in BOOLEAN, SendReliable(n, hop, a, b, s, result),
             UNCHANGED <<dispatched, confirmed>>
      PROVE  ServeInv'
  <2>1. NumbersCarryOne' /\ AcceptedIsServed' /\ CountersValid'
    BY <1>1, <1>4, <1>5, SendServes
  <2>2. ConfirmedMeansServed'
    BY <1>5, <1>20
  <2>3. QED
    BY <2>1, <2>2 DEF ServeInv
<1>6. ASSUME NEW n \in Node, RoutingUpdate(n) PROVE ServeInv'
  <2>1. CASE OnLightThreadLost(n) \/ LeaderOnLightThreadReady
    BY <1>2, <2>1 DEF OnLightThreadLost, LeaderOnLightThreadReady
  <2>2. CASE JoinerAnnounces(n)
    <3>1. SendAnnouncement(n) /\ UNCHANGED appVars
      BY <2>2 DEF JoinerAnnounces
    <3>2. RoutingAddr \in Addr
      BY AddrAssumption DEF LeaderAddr
    <3>3. ASSUME NEW s, NEW result \in BOOLEAN,
                 SendReliable(n, Leader, RoutingAddr, LocalThings[n], s, result)
          PROVE  ServeInv'
      BY <1>1, <1>5, <3>1, <3>2, <3>3 DEF appVars
    <3>4. CASE UNCHANGED reliableVars
      BY <1>2, <3>1, <3>4
    <3>5. QED
      BY <3>1, <3>3, <3>4 DEF SendAnnouncement
  <2>3. QED
    BY <1>6, <2>1, <2>2 DEF RoutingUpdate
<1>7. ASSUME NEW n \in Node, Pump(n) PROVE ServeInv'
  <2>1. PumpReliable(n) /\ UNCHANGED <<dispatched, confirmed, seqValid, nextSeq>>
    BY <1>7 DEF Pump, PumpReliable, appVars
  <2>2. NumbersCarryOne' /\ AcceptedIsServed'
    BY <1>1, <2>1, PumpServes
  <2>3. QED
    BY <1>1, <1>20, <2>1, <2>2 DEF ServeInv, CountersValid
<1>8. CASE Tick
  <2>1. ReliableTick /\ UNCHANGED <<dispatched, confirmed, seqValid, nextSeq>>
    BY <1>8 DEF Tick, ReliableTick, appVars
  <2>2. NumbersCarryOne' /\ AcceptedIsServed'
    BY <1>1, <2>1, TickServes
  <2>3. QED
    BY <1>1, <1>20, <2>1, <2>2 DEF ServeInv, CountersValid
<1>9. ASSUME NEW n \in Node,
             \/ TransportUp(n) \/ TransportDown(n)
             \/ \E ready \in AppReadyArgs[n] : AppSetNetworkReady(n, ready)
      PROVE  ServeInv'
  BY <1>2, <1>9 DEF TransportUp, TransportDown, AppSetNetworkReady
<1>10. ASSUME NEW n \in Node, Sleep(n) \/ PowerCycle(n) PROVE ServeInv'
  <2>1. /\ pending' = [pending EXCEPT ![n] = {}] /\ seen' = [seen EXCEPT ![n] = {}]
        /\ UNCHANGED <<net, dispatched, confirmed>>
    BY <1>10 DEF Sleep, PowerCycle, WakeFromSleep, ColdBoot, WipeRam, appVars
  <2>2. /\ \A k \in Node : pending'[k] \subseteq pending[k]
        /\ \A k \in Node : seen'[k] \subseteq seen[k]
    BY <1>1, <2>1 DEF TypeOK, ReliableTypeOK
  <2>3. NumbersCarryOne' /\ AcceptedIsServed'
    BY <1>1, <2>1, <2>2, NothingPut, NothingNew
  <2>4. CountersValid'
    BY <1>1, <1>10, ZenonT(60) DEF Sleep, PowerCycle, WakeFromSleep, ColdBoot, CountersValid, TypeOK,
                       ReliableTypeOK
  <2>5. QED
    BY <1>20, <2>1, <2>3, <2>4 DEF ServeInv
<1>11. ASSUME NEW n \in Node, NEW m \in Message, NEW a \in Addr \ {RoutingAddr},
              NEW reliable \in BOOLEAN,
              AppSend(n, m, a, reliable) \/ AppSendRefused(n, m, a)
       PROVE  ServeInv'
  <2>1. NextHop(n, a) \in Node /\ UNCHANGED <<dispatched, confirmed>>
    BY <1>1, <1>11, NextHopType DEF AppSend, AppSendRefused, appVars
  <2>2. ASSUME NEW s, NEW result \in BOOLEAN, SendReliable(n, NextHop(n, a), a, m, s, result)
        PROVE  ServeInv'
    BY <1>5, <2>1, <2>2
  <2>3. CASE SendPlain(n, NextHop(n, a), a, m, TRUE)
    <3> DEFINE q == BuildPacket(PlainKind, n, NextHop(n, a), NoSeq, a, m)
    <3>1. q.kind = PlainKind
      BY DEF BuildPacket
    <3>2. net' = Put({q}) /\ UNCHANGED <<pending, seen, seqValid, nextSeq>>
      BY <2>3 DEF SendPlain
    <3> HIDE DEF q
    <3>3. NumbersCarryOne' /\ AcceptedIsServed'
      BY <1>1, <2>1, <3>1, <3>2, ForwardServes
    <3>4. QED
      BY <1>1, <1>20, <2>1, <3>2, <3>3 DEF ServeInv, CountersValid
  <2>4. QED
    BY <1>11, <2>2, <2>3 DEF AppSend, AppSendRefused
<1>12. ASSUME NEW p \in net, Receive(p) PROVE ServeInv'
  BY <1>4, <1>12, ReceiveServes
<1>13. QED
  BY <1>4, <1>6, <1>7, <1>8, <1>9, <1>10, <1>11, <1>12, FaultsAssumption DEF Next

(* What waits for an ACK of an ignored action was sent by a sketch.          *)
LEMMA IgnoredIsSentStep ==
    ASSUME TypeOK, IgnoredIsSent, [Next]_vars
    PROVE  IgnoredIsSent'
<1>1. sent \subseteq sent'
  BY SentKept
<1>2. ASSUME \A n \in Node : \A e \in pending'[n] :
               \/ e.addr # IgnoredAddr
               \/ \E g \in pending[n] : g.addr = e.addr /\ g.body = e.body
               \/ \E s \in sent' : s.body = e.body /\ s.addr = IgnoredAddr
      PROVE  IgnoredIsSent'
  BY <1>1, <1>2 DEF IgnoredIsSent
<1>3. CASE \A n \in Node : pending'[n] \subseteq pending[n]
  BY <1>2, <1>3
<1>4. CASE pending' = pending
  BY <1>3, <1>4
<1>5. ASSUME NEW n \in Node, NEW hop, NEW a, NEW b, NEW s, NEW result,
             SendReliable(n, hop, a, b, s, result),
             \/ ~result
             \/ a # IgnoredAddr
             \/ \E x \in sent' : x.body = b /\ x.addr = IgnoredAddr
      PROVE  IgnoredIsSent'
  <2>1. CASE ~result
    BY <1>4, <1>5, <2>1 DEF SendReliable
  <2>2. CASE result
    <3> DEFINE entry == NewPending(s, hop, a, b)
    <3>1. pending' = StorePending(n, entry) /\ entry.addr = a /\ entry.body = b
      BY <1>5, <2>2 DEF SendReliable, NewPending
    <3> HIDE DEF entry
    <3>2. /\ pending'[n] \subseteq pending[n] \cup {entry}
          /\ \A k \in Node \ {n} : pending'[k] = pending[k]
      BY <3>1 DEF StorePending, TypeOK, ReliableTypeOK
    <3>3. QED
      BY <1>2, <1>5, <2>2, <3>1, <3>2
  <2>3. QED
    BY <2>1, <2>2
<1>6. ASSUME NEW n \in Node, RoutingUpdate(n) PROVE IgnoredIsSent'
  <2>1. CASE OnLightThreadLost(n) \/ LeaderOnLightThreadReady
    BY <1>4, <2>1 DEF OnLightThreadLost, LeaderOnLightThreadReady, reliableVars
  <2>2. CASE JoinerAnnounces(n)
    <3>1. ASSUME NEW s, NEW result, SendReliable(n, Leader, RoutingAddr, LocalThings[n], s, result)
          PROVE  IgnoredIsSent'
      BY <1>5, <3>1, AddrAssumption
    <3>2. CASE UNCHANGED reliableVars
      BY <1>4, <3>2 DEF reliableVars
    <3>3. QED
      BY <2>2, <3>1, <3>2 DEF JoinerAnnounces, SendAnnouncement
  <2>3. QED
    BY <1>6, <2>1, <2>2 DEF RoutingUpdate
<1>7. ASSUME NEW n \in Node, Pump(n) PROVE IgnoredIsSent'
  <2>1. pending'[n] = (pending[n] \ Due(n)) \cup {AfterResend(e) : e \in Resent(n)}
    BY <1>7 DEF Pump, PumpReliable, TypeOK, ReliableTypeOK
  <2>2. \A e \in Resent(n) : /\ e \in pending[n]
                             /\ AfterResend(e).addr = e.addr /\ AfterResend(e).body = e.body
    BY DEF Resent, Due, AfterResend, PendingEntry, TypeOK, ReliableTypeOK
  <2>3. \A k \in Node \ {n} : pending'[k] = pending[k]
    BY <1>7 DEF Pump, PumpReliable, TypeOK, ReliableTypeOK
  <2>4. QED
    BY <1>2, <2>1, <2>2, <2>3
<1>8. CASE Tick
  <2> DEFINE Sooner(e) == [e EXCEPT !.due = @ - 1]
  <2>1. \A n \in Node : pending'[n] = {Sooner(e) : e \in pending[n]}
    BY <1>8 DEF Tick, ReliableTick
  <2>2. \A n \in Node : \A e \in pending[n] :
          Sooner(e).addr = e.addr /\ Sooner(e).body = e.body
    BY DEF TypeOK, ReliableTypeOK, PendingEntry
  <2> HIDE DEF Sooner
  <2>3. QED
    BY <1>2, <2>1, <2>2
<1>9. ASSUME NEW n \in Node,
             \/ TransportUp(n) \/ TransportDown(n)
             \/ \E ready \in AppReadyArgs[n] : AppSetNetworkReady(n, ready)
      PROVE  IgnoredIsSent'
  BY <1>4, <1>9 DEF TransportUp, TransportDown, AppSetNetworkReady, reliableVars
<1>10. ASSUME NEW n \in Node, Sleep(n) \/ PowerCycle(n) PROVE IgnoredIsSent'
  <2>1. pending' = [pending EXCEPT ![n] = {}]
    BY <1>10 DEF Sleep, PowerCycle, WakeFromSleep, ColdBoot, WipeRam
  <2>2. QED
    BY <1>3, <2>1 DEF TypeOK, ReliableTypeOK
<1>11. ASSUME NEW n \in Node, NEW m \in Message, NEW a, NEW reliable \in BOOLEAN,
              AppSend(n, m, a, reliable) \/ AppSendRefused(n, m, a)
       PROVE  IgnoredIsSent'
  <2>1. CASE AppSend(n, m, a, reliable)
    <3>1. \E x \in sent' : x.body = m /\ x.addr = a
      <4> DEFINE x == [body |-> m, origin |-> n, addr |-> a]
      <4>1. x \in sent' /\ x.body = m /\ x.addr = a
        BY <2>1 DEF AppSend
      <4>2. QED
        BY <4>1
    <3>2. ASSUME NEW s, SendReliable(n, NextHop(n, a), a, m, s, TRUE) PROVE IgnoredIsSent'
      BY <1>5, <3>1, <3>2
    <3>3. CASE SendPlain(n, NextHop(n, a), a, m, TRUE)
      BY <1>4, <3>3 DEF SendPlain
    <3>4. QED
      BY <2>1, <3>2, <3>3 DEF AppSend
  <2>2. CASE AppSendRefused(n, m, a)
    BY <1>4, <2>2 DEF AppSendRefused, SendReliable
  <2>3. QED
    BY <1>11, <2>1, <2>2
<1>12. ASSUME NEW p \in net, Receive(p) PROVE IgnoredIsSent'
  <2>1. p.dst \in Node
    BY PacketFields
  <2>2. pending' = [pending EXCEPT ![p.dst] = @ \ AckMatches(p)] \/ pending' = pending
    BY <1>12 DEF Receive, ReceiveAck, HandleAckPacket, ReceiveAnnouncement, ReceiveControl,
                 ReceiveLocal, Accept, Acknowledge, Forward, HandleReliablePacket, reliableVars
  <2>3. QED
    BY <1>3, <1>4, <2>1, <2>2 DEF TypeOK, ReliableTypeOK
<1>13. CASE UNCHANGED vars
  BY <1>4, <1>13 DEF vars, reliableVars
<1>14. QED
  BY <1>6, <1>7, <1>8, <1>9, <1>10, <1>11, <1>12, <1>13, FaultsAssumption DEF Next

(* A message that onAckSuccess reports has been served by its owner, through *)
(* any losses, repeats, restarts and changes of hands, as long as no number  *)
(* is taken again while a packet, an ACK or a duplicate window holds it; or  *)
(* it was for an action of the leader's own that the leader ignores          *)
(* (handleReliablePacket, handleAckPacket, dispatchLocalPacket).            *)
THEOREM ConfirmedOnceServed == Spec /\ NoNumberReturns => []ConfirmedMeansServed
<1>1. Init => ServeInv /\ IgnoredIsSent
  <2> SUFFICES ASSUME Init PROVE ServeInv /\ IgnoredIsSent
    OBVIOUS
  <2>1. \A n \in Node : \A s, a, b : ~Carried(n, s, a, b)
    BY DEF Init, ReliableInit, Carried
  <2>2. QED
    BY <2>1 DEF Init, ReliableInit, ServeInv, NumbersCarryOne, AcceptedIsServed, CountersValid,
                ConfirmedMeansServed, IgnoredIsSent
<1>2. RouteInv /\ IgnoredIsSent /\ ServeInv /\ [Next]_vars /\ [TakesForgotten]_vars
        => ServeInv'
  BY ServeInvStep
<1>5. RouteInv /\ IgnoredIsSent /\ [Next]_vars => IgnoredIsSent'
  BY IgnoredIsSentStep DEF RouteInv
<1>3. ServeInv => ConfirmedMeansServed
  BY DEF ServeInv
<1>4. QED
  BY <1>1, <1>2, <1>3, <1>5, RouteInvInit, RouteInvStep, PTL DEF Spec, NoNumberReturns


-----------------------------------------------------------------------------
(* The sensor: types.  But for the report and for deep sleep, what it and   *)
(* the leader do are steps of Routing, and keep what all of its steps keep.  *)

LEMMA SensorIsNode == Sensor \in Node /\ Sensor # Leader
BY LeaderIsNode, RolesAssumption, SensorAssumption

LEMMA SketchType ==
    ASSUME power \in Power, packetSent \in BOOLEAN, reportAcked \in BOOLEAN,
           heard \in BOOLEAN, refusals \in 0 .. MaxRefusals, SensorNext
    PROVE  /\ power' \in Power /\ packetSent' \in BOOLEAN /\ reportAcked' \in BOOLEAN
           /\ heard' \in BOOLEAN /\ refusals' \in 0 .. MaxRefusals
<1>1. MaxRefusals \in Nat
  BY SensorAssumption
<1>2. ASSUME NEW p \in net, SensorReceiveAck(p)
      PROVE  /\ power' \in Power /\ packetSent' \in BOOLEAN /\ reportAcked' \in BOOLEAN
             /\ heard' \in BOOLEAN /\ refusals' \in 0 .. MaxRefusals
  <2>1. /\ power' \in {power, "goingDormant"}
        /\ refusals' = refusals \/ (refusals < MaxRefusals /\ refusals' = refusals + 1)
        /\ UNCHANGED <<packetSent, heard>>
    BY <1>2 DEF SensorReceiveAck, SuccessReceive
  <2>2. reportAcked' \in BOOLEAN
    BY <1>2 DEF SensorReceiveAck
  <2>3. QED
    BY <1>1, <2>1, <2>2 DEF Power
<1>3. ASSUME NEW p \in net, LeaderReceive(p)
      PROVE  UNCHANGED <<packetSent, power, reportAcked, refusals>> /\ heard' \in BOOLEAN
  BY <1>3 DEF LeaderReceive
<1>4. QED
  BY <1>2, <1>3 DEF SensorNext, Report, SensorUpdate, LeaderUpdate, FallAsleep, WakeUp,
                    TimePasses, sketchVars, Power

(* The report is a packet that a joiner may send to the leader.             *)
LEMMA ReportKeeps ==
    ASSUME RouteInv, NEW accepted \in BOOLEAN, Report(accepted)
    PROVE  RouteInv'
<1>1. /\ TypeOK /\ EntriesWell /\ PacketsWell /\ TableRight /\ ServedByOwner
      /\ Sensor \in Node /\ Leader \in Node /\ IgnoredAddr \in Addr
      /\ IgnoredAddr # RoutingAddr
  BY LeaderIsNode, SensorIsNode, AddrAssumption DEF RouteInv, LeaderAddr
<1>2. ASSUME NEW s, NEW m \in Message, SendReliable(Sensor, Leader, IgnoredAddr, m, s, accepted)
      PROVE  ReliableTypeOK' /\ EntriesWell' /\ PacketsWell'
  <2>1. m \in Body
    BY BodyAssumption
  <2>2. WellSent(Sensor, Leader, IgnoredAddr, m)
    BY <1>1, <2>1 DEF WellSent
  <2>3. QED
    BY <1>1, <1>2, <2>1, <2>2, SendReliableType, SendReliableWell DEF TypeOK
<1>3. ReliableTypeOK' /\ EntriesWell' /\ PacketsWell'
  BY <1>2 DEF Report
<1>4. /\ UNCHANGED <<ltReady, wasReady, networkReady, routingState, thingIdToIp,
                     localDestinations, sent, dispatched, confirmed>>
      /\ faults' = faults \/ (faults < MaxFaults /\ faults' = faults + 1)
  BY DEF Report, routingVars, appVars
<1>5. TypeOK'
  BY <1>1, <1>3, <1>4, FaultsAssumption DEF TypeOK
<1>6. TableRight' /\ ServedByOwner'
  BY <1>1, <1>4 DEF TableRight, ServedByOwner
<1>7. QED
  BY <1>3, <1>5, <1>6 DEF RouteInv

(* Deep sleep leaves the sensor as begin() finds it.                        *)
LEMMA FallAsleepKeeps ==
    ASSUME RouteInv, FallAsleep
    PROVE  RouteInv'
<1>1. /\ TypeOK /\ EntriesWell /\ PacketsWell /\ TableRight /\ ServedByOwner
      /\ Sensor \in Node /\ Sensor # Leader
  BY SensorIsNode DEF RouteInv
<1>2. /\ WakeFromSleep(Sensor) /\ Begin(Sensor)
      /\ UNCHANGED <<faults, sent, dispatched, confirmed>>
  BY DEF FallAsleep, appVars
<1>3. ReliableTypeOK'
  BY <1>1, <1>2, WipeRamType DEF TypeOK
<1>4. TypeOK'
  BY <1>1, <1>2, <1>3, ClearTablesType DEF Begin, TypeOK, RoutingState
<1>5. pending' = [pending EXCEPT ![Sensor] = {}] /\ net' = net
  BY <1>2 DEF WakeFromSleep, WipeRam
<1>6. EntriesWell' /\ PacketsWell'
  BY <1>1, <1>5 DEF EntriesWell, PacketsWell, TypeOK, ReliableTypeOK
<1>7. thingIdToIp'[Leader] = thingIdToIp[Leader]
      /\ localDestinations'[Leader] = localDestinations[Leader]
  BY <1>1, <1>2 DEF Begin, ClearTables, TypeOK
<1>8. TableRight' /\ ServedByOwner'
  BY <1>1, <1>2, <1>7 DEF TableRight, ServedByOwner
<1>9. QED
  BY <1>4, <1>6, <1>8 DEF RouteInv

(* All other steps are steps of Routing.                                    *)
LEMMA SensorStepsAreRoutings ==
    ASSUME SensorNext, ~FallAsleep, \A accepted \in BOOLEAN : ~Report(accepted)
    PROVE  [Next]_vars
<1>1. Sensor \in Node /\ Leader \in Node
  BY SensorIsNode, LeaderIsNode
<1>2. CASE \E p \in net : p.dst = Sensor /\ SensorReceiveAck(p)
  BY <1>2 DEF SensorReceiveAck, Receive, Next
<1>3. CASE \E p \in net : LeaderReceive(p)
  BY <1>3 DEF LeaderReceive, Next
<1>4. CASE SensorUpdate \/ LeaderUpdate
  BY <1>1, <1>4 DEF SensorUpdate, LeaderUpdate, Next
<1>5. CASE WakeUp
  BY <1>5 DEF WakeUp
<1>6. CASE TimePasses
  BY <1>6 DEF TimePasses, Next
<1>7. QED
  BY <1>2, <1>3, <1>4, <1>5, <1>6 DEF SensorNext

SketchTypeOK ==
    /\ power \in Power
    /\ packetSent \in BOOLEAN /\ reportAcked \in BOOLEAN /\ heard \in BOOLEAN
    /\ refusals \in 0 .. MaxRefusals

SensorInv == RouteInv /\ SketchTypeOK

LEMMA SensorInvInit == SensorInit => SensorInv
<1> SUFFICES ASSUME SensorInit PROVE SensorInv
  OBVIOUS
<1>1. RouteInv
  BY RouteInvInit DEF SensorInit
<1>2. SketchTypeOK
  <2>1. power \in Power
    BY DEF SensorInit, Power
  <2>2. packetSent \in BOOLEAN /\ reportAcked \in BOOLEAN /\ heard \in BOOLEAN
    BY Zenon DEF SensorInit
  <2>3. refusals \in 0 .. MaxRefusals
    <3>1. refusals = 0 /\ MaxRefusals \in Nat
      BY SensorAssumption DEF SensorInit
    <3>2. QED
      BY <3>1
  <2>4. QED
    BY <2>1, <2>2, <2>3 DEF SketchTypeOK
<1>3. QED
  BY <1>1, <1>2 DEF SensorInv

LEMMA SensorInvStep == SensorInv /\ [SensorNext]_sensorVars => SensorInv'
<1> SUFFICES ASSUME SensorInv, [SensorNext]_sensorVars PROVE SensorInv'
  OBVIOUS
<1>1. RouteInv /\ SketchTypeOK
  BY DEF SensorInv
<1>2. CASE UNCHANGED sensorVars
  <2>1. UNCHANGED vars /\ UNCHANGED sketchVars
    BY <1>2 DEF sensorVars
  <2>2. RouteInv'
    BY <1>1, <2>1, RouteInvStep
  <2>3. SketchTypeOK'
    BY <1>1, <2>1 DEF SketchTypeOK, sketchVars
  <2>4. QED
    BY <2>2, <2>3 DEF SensorInv
<1>3. CASE SensorNext
  <2>1. SketchTypeOK'
    BY <1>1, <1>3, SketchType DEF SketchTypeOK
  <2>2. RouteInv'
    BY <1>1, <1>3, ReportKeeps, FallAsleepKeeps, SensorStepsAreRoutings, RouteInvStep
  <2>3. QED
    BY <2>1, <2>2 DEF SensorInv
<1>4. QED
  BY <1>2, <1>3

LEMMA SensorInvariant == SensorSpec => []SensorInv
BY SensorInvInit, SensorInvStep, PTL DEF SensorSpec

(* The state of the sketch, of both devices and of the mesh keeps its types, *)
(* whatever the order of wakes, refusals, losses and answers.               *)
THEOREM SensorTypes == SensorSpec => []SensorTypeOK
<1>1. SensorInv => SensorTypeOK
  BY DEF SensorInv, SketchTypeOK, RouteInv, SensorTypeOK
<1>2. QED
  BY <1>1, SensorInvariant, PTL

-----------------------------------------------------------------------------
(* The sensor: dormant on fresh word.                                       *)

\* No ACK for the sensor that is still in the mesh has number s.
NoStaleAck(s) == \A a \in net : a.kind = AckKind /\ a.dst = Sensor => a.seq # s

(* The counter outlives sleep, and 65535 numbers outlast the mesh: the        *)
(* sensor takes no number that an ACK still in the mesh bears.               *)
FreshForAcks ==
    [][nextSeq'[Sensor] # nextSeq[Sensor] => NoStaleAck(nextSeq'[Sensor])]_sensorVars

(* An ACK that could complete a packet the sensor waits for was sent by a    *)
(* leader that handled that packet in this wake.                            *)
AcksAreFresh ==
    \A a \in net : a.kind = AckKind /\ a.dst = Sensor =>
        \A e \in pending[Sensor] : e.seq = a.seq /\ e.addr = a.addr => heard

WordInv == AcksAreFresh /\ CountersValid /\ DormantOnFreshWord

\* Nothing new is pending and no ACK is new.
LEMMA NoNewWord ==
    ASSUME AcksAreFresh, heard => heard',
           \A e \in pending'[Sensor] :
              \E g \in pending[Sensor] : g.seq = e.seq /\ g.addr = e.addr,
           \A a \in net' : a.kind = AckKind /\ a.dst = Sensor =>
              \E b \in net : /\ b.kind = AckKind /\ b.dst = Sensor
                             /\ b.seq = a.seq /\ b.addr = a.addr
    PROVE  AcksAreFresh'
BY DEF AcksAreFresh

(* What the sensor sends bears a number that no ACK bears.                  *)
LEMMA SendWord ==
    ASSUME TypeOK, AcksAreFresh, CountersValid, NEW hop, NEW addr, NEW body, NEW s,
           NEW result \in BOOLEAN, SendReliable(Sensor, hop, addr, body, s, result),
           nextSeq'[Sensor] # nextSeq[Sensor] => NoStaleAck(nextSeq'[Sensor]),
           heard' = heard
    PROVE  AcksAreFresh' /\ CountersValid'
<1>1. Sensor \in Node
  BY SensorIsNode
<1>2. /\ s \in AllocSeq(Sensor) /\ s \in Seq
      /\ nextSeq' = [nextSeq EXCEPT ![Sensor] = s]
      /\ seqValid' = [seqValid EXCEPT ![Sensor] = TRUE]
  BY <1>1, AllocSeqType DEF SendReliable, RetainSeq, TypeOK
<1>3. CountersValid'
  BY <1>1, <1>2 DEF CountersValid, TypeOK, ReliableTypeOK
<1>4. s # nextSeq[Sensor]
  <2>1. CASE seqValid[Sensor]
    <3>1. s = Bump(nextSeq[Sensor]) /\ nextSeq[Sensor] \in 0 .. SeqMod - 1
      BY <1>1, <1>2, <2>1, NumbersAssumption DEF AllocSeq, TypeOK, ReliableTypeOK, Seq, NoSeq
    <3>2. QED
      BY <3>1, BumpValue, NumbersAssumption
  <2>2. CASE ~seqValid[Sensor]
    BY <1>1, <1>2, <2>2 DEF CountersValid, Seq, NoSeq
  <2>3. QED
    BY <2>1, <2>2
<1>5. NoStaleAck(s)
  BY <1>1, <1>2, <1>4 DEF TypeOK, ReliableTypeOK
<1>6. CASE ~result
  <2>1. UNCHANGED <<pending, net>>
    BY <1>6 DEF SendReliable
  <2>2. AcksAreFresh'
    BY <2>1 DEF AcksAreFresh
  <2>3. QED
    BY <1>3, <2>2
<1>7. CASE result
  <2> DEFINE entry == NewPending(s, hop, addr, body)
             packet == BuildPacket(ReliableKind, Sensor, hop, s, addr, body)
  <2>1. entry.seq = s /\ packet.kind # AckKind
    BY DEF NewPending, BuildPacket, ReliableKind, AckKind
  <2>2. pending' = StorePending(Sensor, entry) /\ net' = Put({packet})
    BY <1>7 DEF SendReliable
  <2> HIDE DEF entry, packet
  <2>3. pending'[Sensor] \subseteq pending[Sensor] \cup {entry}
    BY <1>1, <2>2 DEF StorePending, TypeOK, ReliableTypeOK
  <2>4. net' \subseteq net \cup {packet}
    BY <2>2 DEF Put
  <2>5. AcksAreFresh'
    BY <1>5, <2>1, <2>3, <2>4 DEF AcksAreFresh, NoStaleAck
  <2>6. QED
    BY <1>3, <2>5
<1>8. QED
  BY <1>6, <1>7

(* A packet that the leader handles makes it have heard what its ACK tells.  *)
LEMMA LeaderReceiveWord ==
    ASSUME TypeOK, WordInv, NEW p \in net, LeaderReceive(p)
    PROVE  WordInv'
<1>1. /\ Sensor \in Node /\ Sensor # Leader /\ Leader \in Node
      /\ p \in Packet /\ p.dst = Leader
      /\ AcksAreFresh /\ CountersValid /\ DormantOnFreshWord
  BY SensorIsNode, LeaderIsNode, PacketFields DEF WordInv, LeaderReceive
<1>2. /\ power' = power /\ Receive(p)
      /\ heard' = (heard \/ \E e \in pending[Sensor] : e.seq = p.seq /\ e.addr = p.addr)
  BY DEF LeaderReceive
<1> DEFINE ack == BuildPacket(AckKind, p.dst, p.origin, p.seq, p.addr, NoBody)
           copy == [p EXCEPT !.dst = thingIdToIp[p.dst][p.addr], !.life = MaxDelay]
<1>3. ack.seq = p.seq /\ ack.addr = p.addr /\ copy.kind = p.kind
  BY <1>1 DEF BuildPacket, Packet
<1>4. /\ pending'[Sensor] = pending[Sensor]
      /\ UNCHANGED <<seqValid, nextSeq>>
      /\ \/ net' = net
         \/ net' = Put({ack})
         \/ net' = Put({copy}) /\ p.kind # AckKind
  <2>1. CASE ReceiveAck(p)
    BY <1>1, <2>1 DEF ReceiveAck, HandleAckPacket, TypeOK, ReliableTypeOK
  <2>2. CASE HandleReliablePacket(p)
    BY <2>2 DEF HandleReliablePacket
  <2>3. CASE UNCHANGED reliableVars
    BY <2>3 DEF reliableVars
  <2>4. CASE Forward(p)
    BY <2>4 DEF Forward
  <2>5. QED
    BY <1>2, <2>1, <2>2, <2>3, <2>4
    DEF Receive, ReceiveAnnouncement, ReceiveControl, ReceiveLocal, Accept, Acknowledge
<1> HIDE DEF ack, copy
<1>5. \/ net' \subseteq net \cup {ack}
      \/ net' \subseteq net \cup {copy} /\ p.kind # AckKind
  BY <1>4 DEF Put
<1>6. AcksAreFresh'
  <2> SUFFICES ASSUME NEW a \in net', a.kind = AckKind, a.dst = Sensor,
                      NEW e \in pending[Sensor], e.seq = a.seq, e.addr = a.addr
               PROVE  heard'
    BY <1>4 DEF AcksAreFresh
  <2>1. CASE a \in net
    BY <1>1, <1>2, <2>1 DEF AcksAreFresh
  <2>2. CASE a = ack
    BY <1>2, <1>3, <2>2
  <2>3. QED
    BY <1>3, <1>5, <2>1, <2>2
<1>7. QED
  BY <1>1, <1>2, <1>4, <1>6 DEF WordInv, CountersValid, DormantOnFreshWord

(* The pump sends no ACK.                                                   *)
LEMMA PumpWord ==
    ASSUME TypeOK, AcksAreFresh, NEW n \in Node, PumpReliable(n), heard' = heard
    PROVE  AcksAreFresh'
<1>1. Sensor \in Node /\ pending[n] \subseteq PendingEntry
  BY SensorIsNode DEF TypeOK, ReliableTypeOK
<1> DEFINE Packets == {BuildPacket(ReliableKind, n, e.nextHop, e.seq, e.addr, e.body)
                         : e \in Resent(n)}
<1>2. \A q \in Packets : q.kind # AckKind
  BY DEF BuildPacket, ReliableKind, AckKind
<1>3. net' = Put(Packets)
  BY DEF PumpReliable
<1> HIDE DEF Packets
<1>4. net' \subseteq net \cup Packets
  BY <1>3 DEF Put
<1>5. pending' = [pending EXCEPT ![n] = (@ \ Due(n)) \cup {AfterResend(e) : e \in Resent(n)}]
  BY DEF PumpReliable
<1>6. \A e \in Resent(n) : /\ e \in pending[n] /\ AfterResend(e).seq = e.seq
                           /\ AfterResend(e).addr = e.addr
  BY <1>1 DEF Resent, Due, AfterResend, PendingEntry
<1>7. \A e \in pending'[Sensor] :
         \E g \in pending[Sensor] : g.seq = e.seq /\ g.addr = e.addr
  <2>1. CASE n = Sensor
    <3>1. pending'[Sensor] = (pending[n] \ Due(n)) \cup {AfterResend(e) : e \in Resent(n)}
      BY <1>1, <1>5, <2>1 DEF TypeOK, ReliableTypeOK
    <3>2. QED
      BY <1>6, <2>1, <3>1
  <2>2. CASE n # Sensor
    BY <1>1, <1>5, <2>2 DEF TypeOK, ReliableTypeOK
  <2>3. QED
    BY <2>1, <2>2
<1>8. QED
  BY <1>2, <1>4, <1>7, NoNewWord

LEMMA TickWord ==
    ASSUME TypeOK, AcksAreFresh, ReliableTick, heard' = heard
    PROVE  AcksAreFresh'
<1> DEFINE Sooner(e) == [e EXCEPT !.due = @ - 1]
           Later(p) == [p EXCEPT !.life = @ - 1]
<1>1. /\ pending'[Sensor] = {Sooner(e) : e \in pending[Sensor]}
      /\ net' = {Later(p) : p \in {q \in net : q.life > 0}}
  BY SensorIsNode DEF ReliableTick
<1>2. \A e \in pending[Sensor] : Sooner(e).seq = e.seq /\ Sooner(e).addr = e.addr
  BY SensorIsNode DEF TypeOK, ReliableTypeOK, PendingEntry
<1>3. \A p \in net : /\ Later(p).kind = p.kind /\ Later(p).dst = p.dst
                     /\ Later(p).seq = p.seq /\ Later(p).addr = p.addr
  BY DEF TypeOK, ReliableTypeOK, Packet
<1> HIDE DEF Sooner, Later
<1>4. QED
  BY <1>1, <1>2, <1>3, NoNewWord

LEMMA WordInvStep ==
    ASSUME SensorInv, WordInv, SensorNext,
           nextSeq'[Sensor] # nextSeq[Sensor] => NoStaleAck(nextSeq'[Sensor])
    PROVE  WordInv'
<1>1. /\ TypeOK /\ Sensor \in Node /\ Leader \in Node /\ Sensor # Leader
      /\ AcksAreFresh /\ CountersValid /\ DormantOnFreshWord
  BY SensorIsNode, LeaderIsNode DEF SensorInv, RouteInv, WordInv
<1>2. ASSUME NEW hop, NEW addr, NEW body, NEW s, NEW result \in BOOLEAN,
             SendReliable(Sensor, hop, addr, body, s, result),
             UNCHANGED <<heard, power>>
      PROVE  WordInv'
  <2>1. AcksAreFresh' /\ CountersValid'
    BY <1>1, <1>2, SendWord
  <2>2. QED
    BY <1>1, <1>2, <2>1 DEF WordInv, DormantOnFreshWord
<1>3. CASE UNCHANGED <<pending, net, seqValid, nextSeq, heard, power>>
  BY <1>1, <1>3 DEF WordInv, AcksAreFresh, CountersValid, DormantOnFreshWord
<1>4. ASSUME NEW accepted \in BOOLEAN, Report(accepted) PROVE WordInv'
  BY <1>2, <1>4 DEF Report
<1>5. ASSUME NEW p \in net, p.dst = Sensor, SensorReceiveAck(p) PROVE WordInv'
  <2>1. /\ p.kind = AckKind /\ heard' = heard
        /\ pending' = [pending EXCEPT ![p.dst] = @ \ AckMatches(p)]
        /\ UNCHANGED <<net, seqValid, nextSeq>>
    BY <1>5 DEF SensorReceiveAck, ReceiveAck, HandleAckPacket
  <2>2. pending'[Sensor] \subseteq pending[Sensor]
    BY <1>1, <1>5, <2>1 DEF TypeOK, ReliableTypeOK
  <2>3. AcksAreFresh' /\ CountersValid'
    BY <1>1, <2>1, <2>2 DEF AcksAreFresh, CountersValid
  <2>4. power' = "goingDormant" => heard
    <3>1. CASE Completes(p)
      <4>1. PICK e \in pending[Sensor] : e.seq = p.seq /\ e.addr = p.addr
        BY <1>5, <3>1 DEF Completes, AckMatches
      <4>2. QED
        BY <1>1, <1>5, <2>1, <4>1 DEF AcksAreFresh
    <3>2. CASE ~Completes(p)
      BY <1>1, <1>5, <3>2 DEF SensorReceiveAck, DormantOnFreshWord
    <3>3. QED
      BY <3>1, <3>2
  <2>5. QED
    BY <2>1, <2>3, <2>4 DEF WordInv, DormantOnFreshWord
<1>6. ASSUME NEW p \in net, LeaderReceive(p) PROVE WordInv'
  BY <1>1, <1>6, LeaderReceiveWord
<1>7. ASSUME NEW n \in {Sensor, Leader}, UNCHANGED sketchVars,
             RoutingUpdate(n) \/ Pump(n) \/ TransportUp(n)
      PROVE  WordInv'
  <2>1. UNCHANGED <<heard, power>> /\ n \in Node
    BY <1>1, <1>7 DEF sketchVars
  <2>2. CASE Pump(n)
    <3>1. PumpReliable(n) /\ UNCHANGED <<seqValid, nextSeq>>
      BY <2>2 DEF Pump, PumpReliable
    <3>2. AcksAreFresh'
      BY <1>1, <2>1, <3>1, PumpWord
    <3>3. QED
      BY <1>1, <2>1, <3>1, <3>2 DEF WordInv, CountersValid, DormantOnFreshWord
  <2>3. CASE TransportUp(n) \/ OnLightThreadLost(n) \/ LeaderOnLightThreadReady
    BY <1>3, <2>1, <2>3 DEF TransportUp, OnLightThreadLost, LeaderOnLightThreadReady,
                            reliableVars
  <2>4. CASE n \in Joiner /\ JoinerAnnounces(n)
    <3>1. n = Sensor /\ SendAnnouncement(n)
      BY <1>7, <2>4, RolesAssumption DEF JoinerAnnounces
    <3>2. ASSUME NEW s, NEW result \in BOOLEAN,
                 SendReliable(Sensor, Leader, RoutingAddr, LocalThings[Sensor], s, result)
          PROVE  WordInv'
      BY <1>2, <2>1, <3>2
    <3>3. CASE UNCHANGED reliableVars
      BY <1>3, <2>1, <3>3 DEF reliableVars
    <3>4. QED
      BY <3>1, <3>2, <3>3 DEF SendAnnouncement
  <2>5. QED
    BY <1>7, <2>2, <2>3, <2>4 DEF RoutingUpdate
<1>8. CASE FallAsleep
  <2>1. /\ pending' = [pending EXCEPT ![Sensor] = {}]
        /\ UNCHANGED <<seqValid, nextSeq>> /\ power' = "asleep"
    BY <1>8 DEF FallAsleep, WakeFromSleep, WipeRam
  <2>2. pending'[Sensor] = {}
    BY <1>1, <2>1 DEF TypeOK, ReliableTypeOK
  <2>3. QED
    BY <1>1, <2>1, <2>2 DEF WordInv, AcksAreFresh, CountersValid, DormantOnFreshWord
<1>9. CASE WakeUp
  <2>1. UNCHANGED <<pending, net, seqValid, nextSeq, heard>> /\ power' = "awake"
    BY <1>9 DEF WakeUp, vars, reliableVars
  <2>2. QED
    BY <1>1, <2>1 DEF WordInv, AcksAreFresh, CountersValid, DormantOnFreshWord
<1>10. CASE TimePasses
  <2>1. /\ ReliableTick /\ UNCHANGED <<seqValid, nextSeq, heard>>
        /\ power' # "goingDormant"
    BY <1>10 DEF TimePasses, Tick, ReliableTick
  <2>2. AcksAreFresh'
    BY <1>1, <2>1, TickWord
  <2>3. QED
    BY <1>1, <2>1, <2>2 DEF WordInv, CountersValid, DormantOnFreshWord
<1>11. CASE SensorUpdate \/ LeaderUpdate
  BY <1>7, <1>11 DEF SensorUpdate, LeaderUpdate
<1>12. QED
  BY <1>4, <1>5, <1>6, <1>8, <1>9, <1>10, <1>11 DEF SensorNext

(* The sensor goes dormant only when a leader has handled a packet of this   *)
(* wake: no ACK that outlived a sleep completes anything, because the        *)
(* counter in RTC memory does not start over (goDormant in onAckSuccess,     *)
(* allocSeq), as long as it does not come full circle meanwhile.            *)
THEOREM DormantWhenHeard == SensorSpec /\ FreshForAcks => []DormantOnFreshWord
<1> DEFINE Fresh == nextSeq'[Sensor] # nextSeq[Sensor] => NoStaleAck(nextSeq'[Sensor])
<1>1. SensorInit => WordInv
  BY DEF SensorInit, Init, ReliableInit, WordInv, AcksAreFresh, CountersValid,
         DormantOnFreshWord
<1>2. SensorInv /\ WordInv /\ [SensorNext]_sensorVars /\ [Fresh]_sensorVars => WordInv'
  <2> SUFFICES ASSUME SensorInv, WordInv, [SensorNext]_sensorVars, [Fresh]_sensorVars
               PROVE  WordInv'
    OBVIOUS
  <2>1. CASE UNCHANGED sensorVars
    <3>1. UNCHANGED <<pending, net, seqValid, nextSeq, heard, power>>
      BY <2>1 DEF sensorVars, sketchVars, vars, reliableVars
    <3>2. QED
      BY <3>1 DEF WordInv, AcksAreFresh, CountersValid, DormantOnFreshWord
  <2>2. CASE SensorNext /\ Fresh
    BY <2>2, WordInvStep
  <2>3. QED
    BY <2>1, <2>2
<1>3. WordInv => DormantOnFreshWord
  BY DEF WordInv
<1> HIDE DEF Fresh
<1>4. FreshForAcks => [][Fresh]_sensorVars
  BY DEF FreshForAcks, Fresh
<1>5. QED
  BY <1>1, <1>2, <1>3, <1>4, SensorInvariant, PTL DEF SensorSpec

=============================================================================
