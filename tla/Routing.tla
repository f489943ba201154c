------------------------------- MODULE Routing -------------------------------
(***************************************************************************)
(* Beeton's routing strategy on top of reliable delivery (Routing.cpp,     *)
(* RoutingCommon.cpp, handlePacket in core.cpp).  Joiners announce their   *)
(* things to the leader, are network-ready once the announcement has been  *)
(* acknowledged, and send all application traffic through the leader,      *)
(* which dispatches it or forwards it by its table.                        *)
(*                                                                         *)
(* Each device runs one loop(): update() lets LightThread deliver packets, *)
(* then runs routingUpdate and pumpReliable.  Deliveries and send() are    *)
(* actions of their own; Pump waits until routingUpdate has noticed the    *)
(* state of the transport, as it does within one update().                 *)
(*                                                                         *)
(* LightThread is external: its readiness changes at any moment, and a     *)
(* joiner becomes ready only while the leader has been up for a loop.      *)
(***************************************************************************)
EXTENDS Reliable

CONSTANTS
    Leader,       \* the device with Role::LEADER
    Joiner,       \* the devices with Role::JOINER
    LocalThings,  \* LocalThings[n]: the (thing, id) pairs n hosts; the mapping
                  \* files of two devices may name the same pair
    RoutingAddr,  \* FFFF:FF, action FF
    ControlAddr,  \* FFFF:FF, action FE: the leader's USB port
    IgnoredAddr,  \* FFFF:FF with another action, which has no meaning yet
    Message,      \* application payloads, each sent at most once
    Senders,      \* devices whose sketches call send
    NoIp,         \* what the table holds for an unknown thing
    Flappers,     \* devices whose LightThread may lose its network
    Sleepers,     \* devices whose sketch calls goDormant
    ColdBooters,  \* devices that may lose power
    MaxFaults,    \* bound on all of these, and on refusals of sendUdp
    AppReadyArgs  \* AppReadyArgs[n]: what the sketch of n gives to setNetworkReady

LeaderAddr == {RoutingAddr, ControlAddr, IgnoredAddr}
Thing == Addr \ LeaderAddr

ASSUME RolesAssumption == Leader \notin Joiner /\ Node = {Leader} \cup Joiner
ASSUME AddrAssumption ==
    /\ LeaderAddr \subseteq Addr
    /\ RoutingAddr \notin {ControlAddr, IgnoredAddr} /\ ControlAddr # IgnoredAddr
ASSUME ThingsAssumption == LocalThings \in [Node -> SUBSET Thing]
ASSUME BodyAssumption ==
    /\ Body = Message \cup {LocalThings[n] : n \in Node}
    /\ \A n \in Node : LocalThings[n] \notin Message
ASSUME NoIpAssumption == NoIp \notin Node
ASSUME FaultsAssumption ==
    /\ Senders \subseteq Node
    /\ Flappers \subseteq Node /\ Sleepers \subseteq Node
    /\ ColdBooters \subseteq Node /\ MaxFaults \in Nat
    /\ AppReadyArgs \in [Node -> SUBSET BOOLEAN]

VARIABLES
    ltReady,       \* ltReady[n]: lightThread->isReady()
    wasReady,      \* wasReady[n]: routingLightThreadWasReady
    networkReady,  \* networkReady[n]
    routingState,  \* routingState[n]
    thingIdToIp,   \* thingIdToIp[n]: owner by thing, NoIp when absent
    localDestinations, \* localDestinations[n]: things flagged local
    faults,        \* faults so far
    sent,          \* messages whose send() returned true
    dispatched,    \* messages given to messageCallback or to USB, and where
    confirmed      \* messages reported to onAckSuccess

routingVars == <<networkReady, routingState, thingIdToIp, localDestinations>>
transportVars == <<ltReady, wasReady, faults>>
appVars == <<sent, dispatched, confirmed>>
vars == <<reliableVars, routingVars, transportVars, appVars>>

RoutingState == {"IDLE", "READY_TO_ANNOUNCE", "WAITING_FOR_ACK"}

Sent == [body : Message, origin : Node, addr : Addr]
Dispatch == [at : Node, addr : Addr, body : Body]

(* Every variable has its type.                                            *)
TypeOK ==
    /\ ReliableTypeOK
    /\ ltReady \in [Node -> BOOLEAN]
    /\ wasReady \in [Node -> BOOLEAN]
    /\ networkReady \in [Node -> BOOLEAN]
    /\ routingState \in [Node -> RoutingState]
    /\ thingIdToIp \in [Node -> [Thing -> Node \cup {NoIp}]]
    /\ localDestinations \in [Node -> SUBSET Thing]
    /\ faults \in 0 .. MaxFaults
    /\ sent \subseteq Sent
    /\ dispatched \subseteq Dispatch
    /\ confirmed \subseteq Message

NoOwners == [t \in Thing |-> NoIp]

Init ==
    /\ ReliableInit
    /\ ltReady = [n \in Node |-> FALSE]
    /\ wasReady = [n \in Node |-> FALSE]
    /\ networkReady = [n \in Node |-> FALSE]
    /\ routingState = [n \in Node |-> "IDLE"]
    /\ thingIdToIp = [n \in Node |-> NoOwners]
    /\ localDestinations = [n \in Node |-> {}]
    /\ faults = 0
    /\ sent = {} /\ dispatched = {} /\ confirmed = {}

IsReady(n) == ltReady[n] /\ networkReady[n]

-----------------------------------------------------------------------------
(* routingUpdate: what follows a change of the transport, then the          *)
(* announcement when one is due.                                            *)

ClearTables(n) ==
    /\ thingIdToIp' = [thingIdToIp EXCEPT ![n] = NoOwners]
    /\ localDestinations' = [localDestinations EXCEPT ![n] = {}]

OnLightThreadLost(n) ==
    /\ ~ltReady[n] /\ wasReady[n]
    /\ wasReady' = [wasReady EXCEPT ![n] = FALSE]
    /\ networkReady' = [networkReady EXCEPT ![n] = FALSE]
    /\ routingState' = [routingState EXCEPT ![n] = "IDLE"]
    /\ ClearTables(n)
    /\ UNCHANGED <<reliableVars, ltReady, faults, appVars>>

LeaderOnLightThreadReady ==
    /\ ltReady[Leader] /\ ~wasReady[Leader]
    /\ wasReady' = [wasReady EXCEPT ![Leader] = TRUE]
    /\ networkReady' = [networkReady EXCEPT ![Leader] = TRUE]
    /\ routingState' = [routingState EXCEPT ![Leader] = "IDLE"]
    /\ thingIdToIp' = [thingIdToIp EXCEPT ![Leader] =
         [t \in Thing |-> IF t \in LocalThings[Leader] THEN Leader ELSE NoIp]]
    /\ localDestinations' =
         [localDestinations EXCEPT ![Leader] = LocalThings[Leader]]
    /\ UNCHANGED <<reliableVars, ltReady, faults, appVars>>

\* Mutant of SendAnnouncement: the result of sendRoutingPacket is ignored.
SendAnnouncement_Unchecked(j) ==
    /\ \/ /\ UNCHANGED faults
          /\ \E s \in AllocSeq(j) :
               SendReliable(j, Leader, RoutingAddr, LocalThings[j], s, TRUE)
       \/ UNCHANGED <<reliableVars, faults>>
    /\ routingState' = [routingState EXCEPT ![j] = "WAITING_FOR_ACK"]

\* sendRoutingPacket: sendUdp takes the announcement or refuses it (which
\* spends a sequence number), or the leader's address is not known yet.
SendAnnouncement(j) ==
    \/ /\ \E s \in AllocSeq(j) :
            SendReliable(j, Leader, RoutingAddr, LocalThings[j], s, TRUE)
       /\ routingState' = [routingState EXCEPT ![j] = "WAITING_FOR_ACK"]
       /\ UNCHANGED faults
    \/ /\ faults < MaxFaults
       /\ \E s \in AllocSeq(j) :
            SendReliable(j, Leader, RoutingAddr, LocalThings[j], s, FALSE)
       /\ routingState' = [routingState EXCEPT ![j] = "READY_TO_ANNOUNCE"]
       /\ faults' = faults + 1
    \/ /\ UNCHANGED <<reliableVars, faults>>
       /\ routingState' = [routingState EXCEPT ![j] = "READY_TO_ANNOUNCE"]

\* Mutant of MustAnnounce: the routing state is not consulted.
MustAnnounce_UntilReady(j) == ~wasReady[j] \/ ~networkReady[j]

MustAnnounce(j) == ~wasReady[j] \/ routingState[j] = "READY_TO_ANNOUNCE"

\* routingOnLightThreadReady, when due, and routingStrategyUpdate of a joiner.
JoinerAnnounces(j) ==
    /\ ltReady[j] /\ MustAnnounce(j)
    /\ wasReady' = [wasReady EXCEPT ![j] = TRUE]
    /\ IF wasReady[j]
       THEN UNCHANGED <<networkReady, thingIdToIp, localDestinations>>
       ELSE /\ networkReady' = [networkReady EXCEPT ![j] = FALSE]
            /\ ClearTables(j)
    /\ SendAnnouncement(j)
    /\ UNCHANGED <<ltReady, appVars>>

RoutingUpdate(n) ==
    \/ OnLightThreadLost(n)
    \/ n = Leader /\ LeaderOnLightThreadReady
    \/ n \in Joiner /\ JoinerAnnounces(n)

-----------------------------------------------------------------------------
(* send(): only when ready, to the next hop the routing strategy names.     *)

NextHop(n, a) ==
    IF n \in Joiner THEN Leader
    ELSE IF a \in Thing THEN thingIdToIp[n][a] ELSE NoIp

AppSend(n, m, a, reliable) ==
    /\ IsReady(n)
    /\ NextHop(n, a) # NoIp
    /\ \A s \in sent : s.body # m
    /\ IF reliable
       THEN \E s \in AllocSeq(n) : SendReliable(n, NextHop(n, a), a, m, s, TRUE)
       ELSE SendPlain(n, NextHop(n, a), a, m, TRUE)
    /\ sent' = sent \cup {[body |-> m, origin |-> n, addr |-> a]}
    /\ UNCHANGED <<routingVars, transportVars, dispatched, confirmed>>

\* sendUdp refuses a reliable message: send() returns false, its number is spent.
AppSendRefused(n, m, a) ==
    /\ IsReady(n) /\ faults < MaxFaults
    /\ NextHop(n, a) # NoIp
    /\ \E s \in AllocSeq(n) : SendReliable(n, NextHop(n, a), a, m, s, FALSE)
    /\ faults' = faults + 1
    /\ UNCHANGED <<routingVars, ltReady, wasReady, appVars>>

AppSetNetworkReady(n, ready) ==
    /\ networkReady' = [networkReady EXCEPT ![n] = ready]
    /\ UNCHANGED <<reliableVars, routingState, thingIdToIp, localDestinations,
                   transportVars, appVars>>

-----------------------------------------------------------------------------
(* handlePacket.  LightThread delivers only while it is ready.              *)

\* routingHandleAck and then onAckSuccess for the entry an ACK completes.
ReceiveAck(p) ==
    /\ p.kind = AckKind /\ ltReady[p.dst]
    /\ HandleAckPacket(p)
    /\ LET acked == AckMatches(p)
           announced == \E e \in acked : e.addr = RoutingAddr
       IN  /\ routingState' = [routingState EXCEPT ![p.dst] =
                IF announced THEN "IDLE" ELSE @]
           /\ networkReady' = [networkReady EXCEPT ![p.dst] = announced \/ @]
           /\ confirmed' = confirmed \cup ({e.body : e \in acked} \cap Message)
    /\ UNCHANGED <<thingIdToIp, localDestinations, transportVars, sent, dispatched>>

\* Mutant of RegisterThings: the owner is taken to be the receiving device.
RegisterThings_AtReceiver(p) ==
    [t \in Thing |-> IF t \in p.body THEN p.dst ELSE thingIdToIp[p.dst][t]]

\* registerThingOwner for each announced thing, with the packet's origin.
RegisterThings(p) ==
    [t \in Thing |-> IF t \in p.body THEN p.origin ELSE thingIdToIp[p.dst][t]]

\* Announcements are handled whether or not the leader is ready.
ReceiveAnnouncement(p) ==
    /\ p.kind = ReliableKind /\ p.addr = RoutingAddr /\ ltReady[p.dst]
    /\ HandleReliablePacket(p)
    /\ IF WasSeen(p) \/ p.dst # Leader
       THEN UNCHANGED <<thingIdToIp, localDestinations>>
       ELSE /\ thingIdToIp' = [thingIdToIp EXCEPT ![Leader] = RegisterThings(p)]
            /\ localDestinations' = [localDestinations EXCEPT ![Leader] = @ \ p.body]
    /\ UNCHANGED <<networkReady, routingState, transportVars, appVars>>

\* Acknowledge a packet if it is reliable.
Acknowledge(p) ==
    IF p.kind = ReliableKind THEN HandleReliablePacket(p) ELSE UNCHANGED reliableVars

\* Accept a packet here: acknowledge it, serve it unless repeated.
Accept(p) ==
    /\ Acknowledge(p)
    /\ dispatched' =
         IF p.kind = ReliableKind /\ WasSeen(p)
         THEN dispatched
         ELSE dispatched \cup {[at |-> p.dst, addr |-> p.addr, body |-> p.body]}
    /\ UNCHANGED <<routingVars, transportVars, sent, confirmed>>

\* handleLeaderControlPacket, ready or not: a serial packet goes out over the
\* leader's USB port.  Any other action, and any control packet at a joiner, is
\* acknowledged too, and then ignored.
ReceiveControl(p) ==
    /\ p.kind # AckKind /\ p.addr \in {ControlAddr, IgnoredAddr} /\ ltReady[p.dst]
    /\ IF p.dst = Leader /\ p.addr = ControlAddr
       THEN Accept(p)
       ELSE Acknowledge(p) /\ UNCHANGED <<routingVars, transportVars, appVars>>

\* Mutant of IsLocal: everything is local to the leader too.
IsLocal_Everywhere(n, t) == TRUE

\* routingClassifyPacket: everything is local to a joiner.
IsLocal(n, t) == n \in Joiner \/ t \in localDestinations[n]

ReceiveLocal(p) ==
    /\ p.kind # AckKind /\ p.addr \in Thing /\ IsReady(p.dst)
    /\ IsLocal(p.dst, p.addr)
    /\ Accept(p)

\* Mutant of Forward: the leader acknowledges what it forwards.
Forward_Acknowledged(p) ==
    /\ p.kind # AckKind /\ p.addr \in Thing /\ IsReady(p.dst)
    /\ ~IsLocal(p.dst, p.addr) /\ thingIdToIp[p.dst][p.addr] # NoIp
    /\ net' = Put({[p EXCEPT !.dst = thingIdToIp[p.dst][p.addr], !.life = MaxDelay],
                   BuildPacket(AckKind, p.dst, p.origin, p.seq, p.addr, NoBody)})
    /\ UNCHANGED <<pending, seen, seqValid, nextSeq, routingVars, transportVars,
                   appVars>>

\* The raw packet goes on unchanged, its origin included.
Forward(p) ==
    /\ p.kind # AckKind /\ p.addr \in Thing /\ IsReady(p.dst)
    /\ ~IsLocal(p.dst, p.addr) /\ thingIdToIp[p.dst][p.addr] # NoIp
    /\ net' = Put({[p EXCEPT !.dst = thingIdToIp[p.dst][p.addr], !.life = MaxDelay]})
    /\ UNCHANGED <<pending, seen, seqValid, nextSeq, routingVars, transportVars,
                   appVars>>

Receive(p) ==
    \/ ReceiveAck(p)
    \/ ReceiveAnnouncement(p)
    \/ ReceiveControl(p)
    \/ ReceiveLocal(p)
    \/ Forward(p)

-----------------------------------------------------------------------------
(* The pump.                                                                *)

\* Mutant of StateAfterPump: the failure of an announcement is not noticed.
StateAfterPump_Unnoticed(n) == routingState[n]

\* routingHandleAckFailure for the entries given up.
StateAfterPump(n) ==
    IF \E e \in Exhausted(n) : e.addr = RoutingAddr
    THEN "READY_TO_ANNOUNCE"
    ELSE routingState[n]

Pump(n) ==
    /\ wasReady[n] = ltReady[n]
    /\ PumpReliable(n)
    /\ routingState' = [routingState EXCEPT ![n] = StateAfterPump(n)]
    /\ UNCHANGED <<networkReady, thingIdToIp, localDestinations, transportVars,
                   appVars>>

Tick ==
    /\ ReliableTick
    /\ UNCHANGED <<routingVars, transportVars, appVars>>

-----------------------------------------------------------------------------
(* The environment: LightThread, goDormant and power.                       *)

TransportUp(n) ==
    /\ ~ltReady[n]
    /\ n \in Joiner => wasReady[Leader]
    /\ ltReady' = [ltReady EXCEPT ![n] = TRUE]
    /\ UNCHANGED <<reliableVars, routingVars, wasReady, faults, appVars>>

TransportDown(n) ==
    /\ ltReady[n] /\ faults < MaxFaults
    /\ ltReady' = [ltReady EXCEPT ![n] = FALSE]
    /\ faults' = faults + 1
    /\ UNCHANGED <<reliableVars, routingVars, wasReady, appVars>>

\* begin() of a sketch that starts anew.
Begin(n) ==
    /\ ltReady' = [ltReady EXCEPT ![n] = FALSE]
    /\ wasReady' = [wasReady EXCEPT ![n] = FALSE]
    /\ networkReady' = [networkReady EXCEPT ![n] = FALSE]
    /\ routingState' = [routingState EXCEPT ![n] = "IDLE"]
    /\ ClearTables(n)

Sleep(n) ==
    /\ IsReady(n) /\ faults < MaxFaults
    /\ WakeFromSleep(n)
    /\ Begin(n)
    /\ faults' = faults + 1
    /\ UNCHANGED appVars

PowerCycle(n) ==
    /\ faults < MaxFaults
    /\ ColdBoot(n)
    /\ Begin(n)
    /\ faults' = faults + 1
    /\ UNCHANGED appVars

Next ==
    \/ \E n \in Node :
         \/ RoutingUpdate(n)
         \/ Pump(n)
         \/ TransportUp(n)
         \/ \E ready \in AppReadyArgs[n] : AppSetNetworkReady(n, ready)
    \/ \E n \in Senders, m \in Message, a \in Addr \ {RoutingAddr} :
         \/ \E reliable \in BOOLEAN : AppSend(n, m, a, reliable)
         \/ AppSendRefused(n, m, a)
    \/ \E p \in net : Receive(p)
    \/ Tick
    \/ \E n \in Flappers : TransportDown(n)
    \/ \E n \in Sleepers : Sleep(n)
    \/ \E n \in ColdBooters : PowerCycle(n)

Spec == Init /\ [][Next]_vars

(* The loops keep running and time passes; a device that lost the mesh      *)
(* finds it again; and the mesh is not for ever unlucky with announcements: *)
(* of infinitely many that could reach the leader, or whose ACK could reach *)
(* the joiner, while the joiner still waits for them, one does.             *)
Awaited(j, p) == \E e \in pending[j] : e.seq = p.seq /\ e.addr = RoutingAddr

AnnouncementArrives(j) ==
    \E p \in net : p.origin = j /\ Awaited(j, p) /\ ReceiveAnnouncement(p)

AnnouncementAckArrives(j) ==
    \E p \in net : p.dst = j /\ p.addr = RoutingAddr /\ Awaited(j, p) /\ ReceiveAck(p)

AnnouncementSent(j) ==
    JoinerAnnounces(j) /\ routingState'[j] = "WAITING_FOR_ACK"

FairSpec ==
    /\ Spec
    /\ WF_vars(Tick)
    /\ \A n \in Node :
         WF_vars(RoutingUpdate(n)) /\ WF_vars(Pump(n)) /\ WF_vars(TransportUp(n))
    /\ \A j \in Joiner :
         /\ SF_vars(AnnouncementSent(j))
         /\ SF_vars(AnnouncementArrives(j))
         /\ SF_vars(AnnouncementAckArrives(j))

-----------------------------------------------------------------------------
(* Properties.                                                              *)

(* A joiner that has a transport is never stuck outside the network: it is  *)
(* in, or will announce, or awaits an announcement that is really pending,  *)
(* whatever stale ACKs and failures of earlier announcements do to its      *)
(* state after it lost the mesh, slept or lost power.                       *)
NeverStuck ==
    \A j \in Joiner : wasReady[j] =>
        \/ networkReady[j]
        \/ routingState[j] = "READY_TO_ANNOUNCE"
        \/ /\ routingState[j] = "WAITING_FOR_ACK"
           /\ \E e \in pending[j] : e.addr = RoutingAddr

(* Announcements do not pile up: a stale one that fails makes the joiner    *)
(* announce while a newer one is still pending, so two series may run side  *)
(* by side, but only a loss of the transport or a restart starts another.   *)
AnnouncementsBounded ==
    \A j \in Joiner :
        Cardinality({e \in pending[j] : e.addr = RoutingAddr}) <= faults + 1

\* The leader knows a host for each thing of j, j itself if no one else has it,
\* and serves the thing itself only if it is the host.
Routable(j) ==
    \A t \in LocalThings[j] :
        /\ thingIdToIp[Leader][t] \in {n \in Node : t \in LocalThings[n]}
        /\ thingIdToIp[Leader][t] = Leader <=> t \in localDestinations[Leader]

(* A joiner believes it is in the network only while the leader can route   *)
(* to all of its things, even when its announcement was acknowledged as a   *)
(* duplicate or its sequence number repeats one the leader remembers.  The  *)
(* strategy's comment promises it (Routing.cpp:26-28); it takes a leader    *)
(* that neither loses the mesh nor restarts.                                *)
RoutableWhenReady ==
    \A j \in Joiner : wasReady[j] /\ networkReady[j] => Routable(j)

(* A message is served only by the device that hosts its address, though a  *)
(* joiner takes everything it is sent for local.                            *)
ServedByOwner ==
    \A d \in dispatched :
        IF d.addr = ControlAddr THEN d.at = Leader ELSE d.addr \in LocalThings[d.at]

(* onAckSuccess comes only after the owner has served the message: neither  *)
(* the leader that forwards nor a device that is not ready acknowledges it. *)
(* The exception is what was sent to the leader for an action it ignores.   *)
ConfirmedMeansServed ==
    \A m \in confirmed :
        \/ \E d \in dispatched : d.body = m
        \/ \E s \in sent : s.body = m /\ s.addr = IgnoredAddr

(* The table of the leader always recovers: whatever happened, the leader   *)
(* sooner or later can forward to the things of every joiner again.  The    *)
(* strategy's comment (Routing.cpp:26-28) says the leader forwards by the   *)
(* table it collected; nothing makes it collect one again.                  *)
TableRecovers == \A j \in Joiner : []<>Routable(j)

(* Unless it keeps losing the mesh, a joiner gets into the network: lost    *)
(* announcements and ACKs are tried again for as long as it takes.          *)
EntersNetwork == \A j \in Joiner : []<>networkReady[j]

=============================================================================
