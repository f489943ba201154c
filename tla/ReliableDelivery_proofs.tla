----------------------- MODULE ReliableDelivery_proofs -----------------------
(***************************************************************************)
(* Proofs about ReliableDelivery for any number of devices and messages,   *)
(* any bounds on retries, delays, window and restarts.                     *)
(***************************************************************************)
EXTENDS ReliableDelivery, Reliable_proofs

-----------------------------------------------------------------------------
(* Type correctness.                                                        *)

LEMMA JudgeType ==
    ASSUME TypeOK, NEW messages, NEW outcome \in Status, Judge(messages, outcome)
    PROVE  status' \in [Body -> Status] /\ verdicts' \in [Body -> 0 .. 2]
<1>1. \A u \in Body : CapTwo(verdicts[u]) \in 0 .. 2
  BY DEF TypeOK, CapTwo
<1>2. QED
  BY <1>1 DEF Judge, TypeOK

LEMMA DispatchType ==
    ASSUME TypeOK, NEW p, DispatchLocalPacket(p)
    PROVE  accepted' \in [Body -> 0 .. 2]
<1>1. accepted' = [u \in Body |-> IF u = p.body THEN CapTwo(accepted[u])
                                  ELSE accepted[u]]
  BY DEF DispatchLocalPacket, TypeOK
<1>2. \A u \in Body : CapTwo(accepted[u]) \in 0 .. 2
  BY DEF TypeOK, CapTwo
<1>3. QED
  BY <1>1, <1>2 DEF TypeOK

(* What a window forgets are messages of the log.                           *)
LEMMA MessagesOfType ==
    ASSUME TypeOK, NEW n, NEW entries
    PROVE  MessagesOf(n, entries) \subseteq Body
BY DEF MessagesOf, TypeOK, LogEntry

LEMMA InitTypeOK == Init => TypeOK
<1> SUFFICES ASSUME Init PROVE TypeOK
  OBVIOUS
<1>1. ReliableTypeOK
  BY InitType DEF Init
<1>2. QED
  BY <1>1, MaxCyclesAssumption DEF Init, TypeOK, Status

LEMMA NextTypeOK == TypeOK /\ [Next]_vars => TypeOK'
<1> SUFFICES ASSUME TypeOK, [Next]_vars PROVE TypeOK'
  OBVIOUS
<1> USE DEF TypeOK
<1>1. ASSUME NEW n \in Node, NEW u \in Body, NEW a \in Addr, NEW sent \in BOOLEAN,
             SendReliably(n, u, a, sent)
      PROVE  TypeOK'
  <2>1. PICK s \in AllocSeq(n) :
          /\ SendReliable(n, Home[a], a, u, s, sent)
          /\ log' = IF sent
                    THEN log \cup {[body |-> u, origin |-> n, seq |-> s,
                                    addr |-> a, cycle |-> cycles[n]]}
                    ELSE log
    BY <1>1 DEF SendReliably
  <2>2. Home[a] \in Node
    BY HomeAssumption
  <2>3. ReliableTypeOK'
    BY <2>1, <2>2, SendReliableType
  <2>4. [body |-> u, origin |-> n, seq |-> s, addr |-> a, cycle |-> cycles[n]]
          \in LogEntry
    BY AllocSeqType DEF LogEntry
  <2>5. log' \subseteq LogEntry
    BY <2>1, <2>4
  <2>6. status' \in [Body -> Status]
    BY <1>1 DEF SendReliably, Status
  <2>7. QED
    BY <1>1, <2>3, <2>5, <2>6 DEF SendReliably
<1>2. ASSUME NEW n \in Node, NEW u \in Body, NEW a \in Addr, SendPlainly(n, u, a)
      PROVE  TypeOK'
  <2>1. ReliableTypeOK'
    BY <1>2, HomeAssumption, SendPlainType DEF SendPlainly
  <2>2. QED
    BY <1>2, <2>1 DEF SendPlainly, Status
<1>3. ASSUME NEW p \in net, ReceiveAck(p)
      PROVE  TypeOK'
  <2>1. p \in Packet
    BY DEF ReliableTypeOK
  <2>2. ReliableTypeOK'
    BY <1>3, <2>1, HandleAckPacketType DEF ReceiveAck
  <2>3. status' \in [Body -> Status] /\ verdicts' \in [Body -> 0 .. 2]
    <3>1. "acked" \in Status
      BY DEF Status
    <3>2. QED
      BY <1>3, <3>1, JudgeType DEF ReceiveAck
  <2>4. QED
    BY <1>3, <2>2, <2>3 DEF ReceiveAck
<1>4. ASSUME NEW p \in net, ReceiveReliable(p)
      PROVE  TypeOK'
  <2>1. p \in Packet /\ p.seq \in Seq
    BY <1>4 DEF ReliableTypeOK, ReceiveReliable, Packet, ReliableKind, PlainKind
  <2>2. ReliableTypeOK'
    BY <1>4, <2>1, HandleReliablePacketType DEF ReceiveReliable
  <2>3. accepted' \in [Body -> 0 .. 2] /\ forgotten' \subseteq Body
    BY <1>4, DispatchType, MessagesOfType DEF ReceiveReliable
  <2>4. QED
    BY <1>4, <2>2, <2>3 DEF ReceiveReliable
<1>5. ASSUME NEW p \in net, ReceivePlain(p)
      PROVE  TypeOK'
  <2>1. accepted' \in [Body -> 0 .. 2]
    BY <1>5, DispatchType DEF ReceivePlain
  <2>2. ReliableTypeOK'
    BY <1>5 DEF ReceivePlain, reliableVars, ReliableTypeOK
  <2>3. QED
    BY <1>5, <2>1, <2>2 DEF ReceivePlain
<1>6. ASSUME NEW n \in Node, Pump(n)
      PROVE  TypeOK'
  <2>1. ReliableTypeOK'
    BY <1>6, PumpReliableType DEF Pump
  <2>2. status' \in [Body -> Status] /\ verdicts' \in [Body -> 0 .. 2]
    <3>1. "failed" \in Status
      BY DEF Status
    <3>2. QED
      BY <1>6, <3>1, JudgeType DEF Pump
  <2>3. QED
    BY <1>6, <2>1, <2>2 DEF Pump
<1>7. CASE Tick
  <2>1. ReliableTypeOK'
    BY <1>7, ReliableTickType DEF Tick
  <2>2. QED
    BY <1>7, <2>1 DEF Tick, ghostVars
<1>8. ASSUME NEW n \in Node, Sleep(n) \/ PowerCycle(n)
      PROVE  TypeOK'
  <2>1. ReliableTypeOK'
    BY <1>8, WipeRamType DEF Sleep, PowerCycle
  <2>2. cycles' \in [Node -> 0 .. MaxCycles]
    <3>1. CASE Sleep(n)
      BY <3>1 DEF Sleep
    <3>2. CASE PowerCycle(n)
      <4>1. cycles[n] + 1 \in 0 .. MaxCycles
        BY <3>2, MaxCyclesAssumption DEF PowerCycle
      <4>2. QED
        BY <3>2, <4>1 DEF PowerCycle
    <3>3. QED
      BY <1>8, <3>1, <3>2
  <2>3. LoseRam(n)
    BY <1>8 DEF Sleep, PowerCycle
  <2>4. status' \in [Body -> Status] /\ forgotten' \subseteq Body
    BY <2>3, MessagesOfType DEF LoseRam, Status
  <2>5. QED
    BY <2>1, <2>2, <2>3, <2>4 DEF LoseRam
<1>9. CASE UNCHANGED vars
  BY <1>9 DEF vars, reliableVars, ghostVars, ReliableTypeOK
<1>10. QED
  BY <1>1, <1>2, <1>3, <1>4, <1>5, <1>6, <1>7, <1>8, <1>9, RestartersAssumption
     DEF Next

(* Every variable has its type, whatever the constants.                     *)
THEOREM TypeCorrect == Spec => []TypeOK
<1>1. Init => TypeOK
  BY InitTypeOK
<1>2. TypeOK /\ [Next]_vars => TypeOK'
  BY NextTypeOK
<1>3. QED
  BY <1>1, <1>2, PTL DEF Spec

-----------------------------------------------------------------------------
(* A success callback means a dispatch: AckChain is inductive.              *)

(* Neither the log nor what was dispatched is ever taken back.              *)
LEMMA RecordsGrow ==
    ASSUME TypeOK, [Next]_vars
    PROVE  /\ log \subseteq log'
           /\ \A u \in Body : accepted[u] > 0 => accepted'[u] > 0
<1>1. ASSUME NEW p, DispatchLocalPacket(p), NEW u \in Body, accepted[u] > 0
      PROVE  accepted'[u] > 0
  BY <1>1 DEF DispatchLocalPacket, TypeOK, CapTwo
<1>2. ASSUME NEW n \in Node, NEW u \in Body, NEW a \in Addr
      PROVE  /\ \A sent \in BOOLEAN : SendReliably(n, u, a, sent) =>
                    log \subseteq log' /\ accepted' = accepted
             /\ SendPlainly(n, u, a) => log' = log /\ accepted' = accepted
  BY DEF SendReliably, SendPlainly
<1>3. ASSUME NEW p \in net
      PROVE  /\ ReceiveAck(p) => log' = log /\ accepted' = accepted
             /\ ReceiveReliable(p) =>
                    log' = log /\ (accepted' = accepted \/ DispatchLocalPacket(p))
             /\ ReceivePlain(p) => log' = log /\ DispatchLocalPacket(p)
  BY DEF ReceiveAck, ReceiveReliable, ReceivePlain
<1>4. ASSUME NEW n \in Node
      PROVE  /\ Pump(n) => log' = log /\ accepted' = accepted
             /\ Sleep(n) \/ PowerCycle(n) => log' = log /\ accepted' = accepted
  BY DEF Pump, Sleep, PowerCycle, LoseRam
<1>5. Tick \/ UNCHANGED vars => log' = log /\ accepted' = accepted
  BY DEF Tick, vars, ghostVars
<1>6. QED
  BY <1>1, <1>2, <1>3, <1>4, <1>5, RestartersAssumption DEF Next

LEMMA KeyAcceptedStable ==
    ASSUME TypeOK, [Next]_vars, NEW n, NEW origin, NEW seq,
           KeyAccepted(n, origin, seq)
    PROVE  KeyAccepted(n, origin, seq)'
<1>1. PICK m \in log : /\ m.origin = origin /\ m.seq = seq
                       /\ Home[m.addr] = n /\ accepted[m.body] > 0
  BY DEF KeyAccepted
<1>2. m \in log' /\ accepted'[m.body] > 0
  BY <1>1, RecordsGrow DEF TypeOK, LogEntry
<1>3. QED
  BY <1>1, <1>2 DEF KeyAccepted

LEMMA LoggedStable ==
    ASSUME TypeOK, [Next]_vars, NEW body, NEW origin, NEW seq, NEW addr,
           Logged(body, origin, seq, addr)
    PROVE  Logged(body, origin, seq, addr)'
BY RecordsGrow DEF Logged

(* Whoever acknowledges a reliable packet has dispatched one under its key. *)
LEMMA AcceptedWhenHandled ==
    ASSUME AckChain, [Next]_vars, NEW p \in net, ReceiveReliable(p)
    PROVE  p.dst = Home[p.addr] /\ KeyAccepted(p.dst, p.origin, p.seq)'
<1>1. /\ TypeOK /\ p \in Packet
      /\ p.dst = Home[p.addr]
      /\ Logged(p.body, p.origin, p.seq, p.addr)
  BY DEF AckChain, CopiesLogged, ReceiveReliable, TypeOK, ReliableTypeOK
<1>2. CASE WasSeen(p)
  <2>1. KeyAccepted(p.dst, p.origin, p.seq)
    BY <1>1, <1>2 DEF WasSeen, SameKey, AckChain, SeenAccepted, Packet
  <2>2. QED
    BY <1>1, <2>1, KeyAcceptedStable
<1>3. CASE ~WasSeen(p)
  <2>1. PICK l \in log : /\ l.body = p.body /\ l.origin = p.origin
                         /\ l.seq = p.seq /\ l.addr = p.addr
    BY <1>1 DEF Logged
  <2>2. l \in log' /\ p.body \in Body
    BY <1>1, <2>1, RecordsGrow DEF TypeOK, LogEntry
  <2>3. accepted'[p.body] > 0
    BY <1>1, <1>3, <2>2 DEF ReceiveReliable, DispatchLocalPacket, TypeOK, CapTwo
  <2>4. QED
    BY <1>1, <2>1, <2>2, <2>3 DEF KeyAccepted
<1>4. QED
  BY <1>2, <1>3

LEMMA SeenAcceptedStep ==
    ASSUME AckChain, [Next]_vars
    PROVE  SeenAccepted'
<1>1. TypeOK /\ ReliableTypeOK /\ SeenAccepted
  BY DEF AckChain, TypeOK
<1> SUFFICES ASSUME NEW n \in Node, NEW g \in seen'[n]
             PROVE  KeyAccepted(n, g.origin, g.seq)'
  BY DEF SeenAccepted
<1>2. ASSUME \E e \in seen[n] : g.origin = e.origin /\ g.seq = e.seq
      PROVE  KeyAccepted(n, g.origin, g.seq)'
  BY <1>1, <1>2, KeyAcceptedStable DEF SeenAccepted
<1>3. CASE UNCHANGED seen
  BY <1>2, <1>3
<1>4. ASSUME NEW p \in net, ReceiveReliable(p)
      PROVE  KeyAccepted(n, g.origin, g.seq)'
  <2>1. p \in Packet /\ p.dst \in Node
    BY <1>1 DEF ReliableTypeOK, Packet
  <2>2. CASE n # p.dst
    BY <1>1, <1>2, <1>4, <2>1, <2>2
       DEF ReceiveReliable, HandleReliablePacket, ReliableTypeOK
  <2>3. CASE n = p.dst
    <3>1. g \in MarkSeen(p)
      BY <1>1, <1>4, <2>1, <2>3
         DEF ReceiveReliable, HandleReliablePacket, ReliableTypeOK
    <3>2. QED
      BY <1>1, <1>2, <1>4, <2>1, <2>3, <3>1, MarkSeenKeys, AcceptedWhenHandled
  <2>4. QED
    BY <2>2, <2>3
<1>5. ASSUME NEW m \in Node, Pump(m)
      PROVE  KeyAccepted(n, g.origin, g.seq)'
  <2>1. g \in seen[n] \/ (n = m /\ g \in Trimmed(n))
    BY <1>1, <1>5 DEF Pump, PumpReliable, ReliableTypeOK
  <2>2. QED
    BY <1>1, <1>2, <2>1, TrimmedType
<1>6. CASE Tick
  <2>1. PICK e \in seen[n] : g = [e EXCEPT !.age = @ + 1]
    BY <1>6 DEF Tick, ReliableTick
  <2>2. g.origin = e.origin /\ g.seq = e.seq
    BY <1>1, <2>1 DEF ReliableTypeOK, SeenEntry
  <2>3. QED
    BY <1>2, <2>2
<1>7. ASSUME NEW m \in Node, Sleep(m) \/ PowerCycle(m)
      PROVE  KeyAccepted(n, g.origin, g.seq)'
  <2>1. g \in seen[n]
    BY <1>1, <1>7 DEF Sleep, PowerCycle, WakeFromSleep, ColdBoot, WipeRam,
                      ReliableTypeOK
  <2>2. QED
    BY <1>2, <2>1
<1>8. ASSUME NEW m \in Node, NEW u \in Body, NEW a \in Addr
      PROVE  /\ \A sent \in BOOLEAN : SendReliably(m, u, a, sent) => UNCHANGED seen
             /\ SendPlainly(m, u, a) => UNCHANGED seen
  BY DEF SendReliably, SendReliable, SendPlainly, SendPlain
<1>9. ASSUME NEW p \in net, ReceiveAck(p) \/ ReceivePlain(p)
      PROVE  UNCHANGED seen
  BY <1>9 DEF ReceiveAck, HandleAckPacket, ReceivePlain, reliableVars
<1>10. CASE UNCHANGED vars
  BY <1>3, <1>10 DEF vars, reliableVars
<1>11. QED
  BY <1>3, <1>4, <1>5, <1>6, <1>7, <1>8, <1>9, <1>10, RestartersAssumption
     DEF Next

(* What is in the mesh after a step.                                        *)
LEMMA NetStep ==
    ASSUME AckChain, [Next]_vars, NEW p \in net'
    PROVE  \/ \E q \in net : /\ p.kind = q.kind /\ p.origin = q.origin
                             /\ p.dst = q.dst /\ p.seq = q.seq
                             /\ p.addr = q.addr /\ p.body = q.body
           \/ p.kind = PlainKind /\ p.body \in Body /\ status'[p.body] = "plain"
           \/ /\ p.kind = ReliableKind /\ p.dst = Home[p.addr]
              /\ Logged(p.body, p.origin, p.seq, p.addr)'
           \/ /\ p.kind = AckKind
              /\ KeyAccepted(Home[p.addr], p.dst, p.seq)'
<1> DEFINE Old == \E q \in net : /\ p.kind = q.kind /\ p.origin = q.origin
                                /\ p.dst = q.dst /\ p.seq = q.seq
                                /\ p.addr = q.addr /\ p.body = q.body
           Plain == /\ p.kind = PlainKind /\ p.body \in Body
                    /\ status'[p.body] = "plain"
           Copy == /\ p.kind = ReliableKind /\ p.dst = Home[p.addr]
                   /\ Logged(p.body, p.origin, p.seq, p.addr)'
           Ack == /\ p.kind = AckKind
                  /\ KeyAccepted(Home[p.addr], p.dst, p.seq)'
<1>1. TypeOK /\ ReliableTypeOK
  BY DEF AckChain, TypeOK
<1>2. p \in net => Old
  OBVIOUS
<1> HIDE DEF Old
<1>3. ASSUME NEW n \in Node, NEW u \in Body, NEW a \in Addr, NEW sent \in BOOLEAN,
             SendReliably(n, u, a, sent)
      PROVE  Old \/ Copy
  <2>1. PICK s \in AllocSeq(n) :
          /\ SendReliable(n, Home[a], a, u, s, sent)
          /\ log' = IF sent
                    THEN log \cup {[body |-> u, origin |-> n, seq |-> s,
                                    addr |-> a, cycle |-> cycles[n]]}
                    ELSE log
    BY <1>3 DEF SendReliably
  <2>2. p \in net \/ (sent /\ p = BuildPacket(ReliableKind, n, Home[a], s, a, u))
    BY <2>1, PutOrigin DEF SendReliable
  <2>3. CASE sent /\ p = BuildPacket(ReliableKind, n, Home[a], s, a, u)
    <3>1. /\ p.kind = ReliableKind /\ p.dst = Home[a] /\ p.addr = a
          /\ p.body = u /\ p.origin = n /\ p.seq = s
      BY <2>3 DEF BuildPacket
    <3>2. [body |-> u, origin |-> n, seq |-> s, addr |-> a, cycle |-> cycles[n]]
            \in log'
      BY <2>1, <2>3
    <3>3. Logged(p.body, p.origin, p.seq, p.addr)'
      BY <3>1, <3>2 DEF Logged
    <3>4. QED
      BY <3>1, <3>3
  <2>4. QED
    BY <1>2, <2>2, <2>3
<1>4. ASSUME NEW n \in Node, NEW u \in Body, NEW a \in Addr, SendPlainly(n, u, a)
      PROVE  Old \/ Plain
  <2>1. p \in net \/ p = BuildPacket(PlainKind, n, Home[a], NoSeq, a, u)
    BY <1>4, PutOrigin DEF SendPlainly, SendPlain
  <2>2. status'[u] = "plain"
    BY <1>1, <1>4 DEF SendPlainly, TypeOK
  <2>3. QED
    BY <1>2, <2>1, <2>2 DEF BuildPacket
<1>5. ASSUME NEW q \in net, ReceiveReliable(q)
      PROVE  Old \/ Ack
  <2>1. p \in net \/ p = BuildPacket(AckKind, q.dst, q.origin, q.seq, q.addr, NoBody)
    BY <1>5, PutOrigin DEF ReceiveReliable, HandleReliablePacket
  <2>2. CASE p = BuildPacket(AckKind, q.dst, q.origin, q.seq, q.addr, NoBody)
    <3>1. p.kind = AckKind /\ p.addr = q.addr /\ p.dst = q.origin /\ p.seq = q.seq
      BY <2>2 DEF BuildPacket
    <3>2. q.dst = Home[q.addr] /\ KeyAccepted(q.dst, q.origin, q.seq)'
      BY <1>5, AcceptedWhenHandled
    <3>3. KeyAccepted(Home[p.addr], p.dst, p.seq)'
      BY <3>1, <3>2 DEF KeyAccepted
    <3>4. QED
      BY <3>1, <3>3
  <2>3. QED
    BY <1>2, <2>1, <2>2
<1>6. ASSUME NEW n \in Node, Pump(n)
      PROVE  Old \/ Copy
  <2>1. p \in net \/ \E e \in Resent(n) :
          p = BuildPacket(ReliableKind, n, e.nextHop, e.seq, e.addr, e.body)
    BY <1>6, PutOrigin DEF Pump, PumpReliable
  <2>2. ASSUME NEW e \in Resent(n),
               p = BuildPacket(ReliableKind, n, e.nextHop, e.seq, e.addr, e.body)
        PROVE  Copy
    <3>1. /\ p.kind = ReliableKind /\ p.dst = e.nextHop /\ p.addr = e.addr
          /\ p.body = e.body /\ p.origin = n /\ p.seq = e.seq
      BY <2>2 DEF BuildPacket
    <3>2. e.nextHop = Home[e.addr] /\ Logged(e.body, n, e.seq, e.addr)
      BY DEF Resent, Due, AckChain, PendingLogged
    <3>3. Logged(e.body, n, e.seq, e.addr)'
      BY <1>1, <3>2, LoggedStable
    <3>4. Logged(p.body, p.origin, p.seq, p.addr)'
      BY <3>1, <3>3 DEF Logged
    <3>5. QED
      BY <3>1, <3>2, <3>4
  <2>3. QED
    BY <1>2, <2>1, <2>2
<1>7. ASSUME Tick PROVE Old
  <2>1. PICK q \in net : p = [q EXCEPT !.life = @ - 1]
    BY <1>7 DEF Tick, ReliableTick
  <2>2. QED
    BY <1>1, <2>1 DEF Old, ReliableTypeOK, Packet
<1>8. ASSUME NEW q \in net, ReceiveAck(q) \/ ReceivePlain(q)
      PROVE  Old
  BY <1>2, <1>8 DEF ReceiveAck, HandleAckPacket, ReceivePlain, reliableVars
<1>9. ASSUME NEW n \in Node, Sleep(n) \/ PowerCycle(n)
      PROVE  Old
  BY <1>2, <1>9 DEF Sleep, PowerCycle, WakeFromSleep, ColdBoot, WipeRam
<1>10. ASSUME UNCHANGED vars PROVE Old
  BY <1>2, <1>10 DEF vars, reliableVars
<1>11. Old \/ Plain \/ Copy \/ Ack
  <2> HIDE DEF Plain, Copy, Ack
  <2>1. CASE \E n \in Node, u \in Body, a \in Addr :
              \/ \E sent \in BOOLEAN : SendReliably(n, u, a, sent)
              \/ SendPlainly(n, u, a)
    BY <2>1, <1>3, <1>4
  <2>2. CASE \E q \in net : ReceiveAck(q) \/ ReceiveReliable(q) \/ ReceivePlain(q)
    BY <2>2, <1>5, <1>8
  <2>3. CASE \E n \in Node : Pump(n)
    BY <2>3, <1>6
  <2>4. CASE \E n \in Restarters : Sleep(n) \/ PowerCycle(n)
    BY <2>4, <1>9, RestartersAssumption
  <2>5. QED
    BY <2>1, <2>2, <2>3, <2>4, <1>7, <1>10 DEF Next
<1>12. QED
  BY <1>11 DEF Old

LEMMA MeshStep ==
    ASSUME AckChain, [Next]_vars
    PROVE  AcksAccepted' /\ CopiesLogged'
<1>1. TypeOK /\ AcksAccepted /\ CopiesLogged
  BY DEF AckChain
<1>2. ReliableKind # AckKind /\ PlainKind # AckKind /\ PlainKind # ReliableKind
  BY DEF ReliableKind, AckKind, PlainKind
<1>3. ASSUME NEW p \in net', p.kind = AckKind
      PROVE  KeyAccepted(Home[p.addr], p.dst, p.seq)'
  <2>1. CASE \E q \in net : /\ p.kind = q.kind /\ p.origin = q.origin
                           /\ p.dst = q.dst /\ p.seq = q.seq
                           /\ p.addr = q.addr /\ p.body = q.body
    <3>1. KeyAccepted(Home[p.addr], p.dst, p.seq)
      BY <1>1, <1>3, <2>1 DEF AcksAccepted
    <3>2. QED
      BY <1>1, <3>1, KeyAcceptedStable
  <2>2. QED
    BY <1>2, <1>3, <2>1, NetStep
<1>4. ASSUME NEW p \in net', p.kind = ReliableKind
      PROVE  p.dst = Home[p.addr] /\ Logged(p.body, p.origin, p.seq, p.addr)'
  <2>1. CASE \E q \in net : /\ p.kind = q.kind /\ p.origin = q.origin
                           /\ p.dst = q.dst /\ p.seq = q.seq
                           /\ p.addr = q.addr /\ p.body = q.body
    <3>1. p.dst = Home[p.addr] /\ Logged(p.body, p.origin, p.seq, p.addr)
      BY <1>1, <1>4, <2>1 DEF CopiesLogged
    <3>2. QED
      BY <1>1, <3>1, LoggedStable
  <2>2. QED
    BY <1>2, <1>4, <2>1, NetStep
<1>5. QED
  BY <1>3, <1>4 DEF AcksAccepted, CopiesLogged

(* Pending entries and the log agree on what was sent.                      *)
LEMMA PendingStep ==
    ASSUME AckChain, [Next]_vars
    PROVE  PendingLogged'
<1>1. TypeOK /\ ReliableTypeOK /\ PendingLogged
  BY DEF AckChain, TypeOK
<1> SUFFICES ASSUME NEW n \in Node, NEW g \in pending'[n]
             PROVE  g.nextHop = Home[g.addr] /\ Logged(g.body, n, g.seq, g.addr)'
  BY DEF PendingLogged
<1> DEFINE Good == g.nextHop = Home[g.addr] /\ Logged(g.body, n, g.seq, g.addr)'
<1> HIDE DEF Good
<1>2. ASSUME \E e \in pending[n] : /\ g.seq = e.seq /\ g.nextHop = e.nextHop
                                   /\ g.addr = e.addr /\ g.body = e.body
      PROVE  Good
  BY <1>1, <1>2, LoggedStable DEF PendingLogged, Good
<1>3. g \in pending[n] => Good
  BY <1>2
<1>4. ASSUME NEW m \in Node, NEW u \in Body, NEW a \in Addr, NEW sent \in BOOLEAN,
             SendReliably(m, u, a, sent)
      PROVE  Good
  <2>1. PICK s \in AllocSeq(m) :
          /\ SendReliable(m, Home[a], a, u, s, sent)
          /\ log' = IF sent
                    THEN log \cup {[body |-> u, origin |-> m, seq |-> s,
                                    addr |-> a, cycle |-> cycles[m]]}
                    ELSE log
    BY <1>4 DEF SendReliably
  <2>2. \/ g \in pending[n]
        \/ sent /\ n = m /\ g = NewPending(s, Home[a], a, u)
    BY <1>1, <2>1 DEF SendReliable, StorePending, ReliableTypeOK
  <2>3. CASE sent /\ n = m /\ g = NewPending(s, Home[a], a, u)
    <3>1. g.seq = s /\ g.nextHop = Home[a] /\ g.addr = a /\ g.body = u
      BY <2>3 DEF NewPending
    <3>2. [body |-> u, origin |-> m, seq |-> s, addr |-> a, cycle |-> cycles[m]]
            \in log'
      BY <2>1, <2>3
    <3>3. Logged(g.body, n, g.seq, g.addr)'
      BY <2>3, <3>1, <3>2 DEF Logged
    <3>4. QED
      BY <3>1, <3>3 DEF Good
  <2>4. QED
    BY <1>3, <2>2, <2>3
<1>5. ASSUME NEW p \in net, ReceiveAck(p)
      PROVE  Good
  <2>1. g \in pending[n]
    BY <1>1, <1>5 DEF ReceiveAck, HandleAckPacket, ReliableTypeOK
  <2>2. QED
    BY <1>3, <2>1
<1>6. ASSUME NEW m \in Node, Pump(m)
      PROVE  Good
  <2>1. g \in pending[n] \/ \E e \in pending[n] : g = AfterResend(e)
    BY <1>1, <1>6 DEF Pump, PumpReliable, Resent, Due, ReliableTypeOK
  <2>2. ASSUME NEW e \in pending[n], g = AfterResend(e)
        PROVE  /\ g.seq = e.seq /\ g.nextHop = e.nextHop
               /\ g.addr = e.addr /\ g.body = e.body
    BY <1>1, <2>2 DEF AfterResend, ReliableTypeOK, PendingEntry
  <2>3. QED
    BY <1>2, <1>3, <2>1, <2>2
<1>7. ASSUME Tick PROVE Good
  <2>1. PICK e \in pending[n] : g = [e EXCEPT !.due = @ - 1]
    BY <1>7 DEF Tick, ReliableTick
  <2>2. /\ g.seq = e.seq /\ g.nextHop = e.nextHop
        /\ g.addr = e.addr /\ g.body = e.body
    BY <1>1, <2>1 DEF ReliableTypeOK, PendingEntry
  <2>3. QED
    BY <1>2, <2>2
<1>8. ASSUME NEW m \in Node, Sleep(m) \/ PowerCycle(m)
      PROVE  Good
  <2>1. g \in pending[n]
    BY <1>1, <1>8 DEF Sleep, PowerCycle, WakeFromSleep, ColdBoot, WipeRam,
                      ReliableTypeOK
  <2>2. QED
    BY <1>3, <2>1
<1>9. ASSUME NEW m \in Node, NEW u \in Body, NEW a \in Addr, SendPlainly(m, u, a)
      PROVE  Good
  BY <1>3, <1>9 DEF SendPlainly, SendPlain
<1>10. ASSUME NEW p \in net, ReceiveReliable(p) \/ ReceivePlain(p)
       PROVE  Good
  BY <1>3, <1>10 DEF ReceiveReliable, HandleReliablePacket, ReceivePlain,
                     reliableVars
<1>11. ASSUME UNCHANGED vars PROVE Good
  BY <1>3, <1>11 DEF vars, reliableVars
<1>12. Good
  BY <1>4, <1>5, <1>6, <1>7, <1>8, <1>9, <1>10, <1>11, RestartersAssumption
     DEF Next
<1>13. QED
  BY <1>12 DEF Good

(* What a step does to the log and to what applications know.               *)
LEMMA StatusStep ==
    ASSUME TypeOK, [Next]_vars
    PROVE  /\ \A l \in log' \ log : /\ status[l.body] = "unsent"
                                   /\ status'[l.body] = "pending"
                                   /\ \A m \in log' \ log : l = m
           /\ \A u \in Body : status[u] # "unsent" => status'[u] # "unsent"
           /\ \A u \in Body : status'[u] = "acked" =>
                \/ status[u] = "acked"
                \/ \E p \in net : /\ ReceiveAck(p)
                                 /\ \E e \in AckMatches(p) : e.body = u
<1> DEFINE NewInLog == \A l \in log' \ log :
                          /\ status[l.body] = "unsent" /\ status'[l.body] = "pending"
                          /\ \A m \in log' \ log : l = m
           Sticky == \A u \in Body : status[u] # "unsent" => status'[u] # "unsent"
           AckSource == \A u \in Body : status'[u] = "acked" =>
                          \/ status[u] = "acked"
                          \/ \E p \in net : /\ ReceiveAck(p)
                                           /\ \E e \in AckMatches(p) : e.body = u
           Result == NewInLog /\ Sticky /\ AckSource
<1>1. ASSUME NEW n \in Node, NEW u \in Body, NEW a \in Addr, NEW sent \in BOOLEAN,
             SendReliably(n, u, a, sent)
      PROVE  Result
  <2>1. PICK s : log' = IF sent
                        THEN log \cup {[body |-> u, origin |-> n, seq |-> s,
                                        addr |-> a, cycle |-> cycles[n]]}
                        ELSE log
    BY <1>1 DEF SendReliably
  <2>2. status[u] = "unsent" /\ status' = [status EXCEPT ![u] =
                                  IF sent THEN "pending" ELSE "refused"]
    BY <1>1 DEF SendReliably
  <2>3. QED
    BY <2>1, <2>2 DEF TypeOK
<1>2. ASSUME NEW n \in Node, NEW u \in Body, NEW a \in Addr, SendPlainly(n, u, a)
      PROVE  Result
  BY <1>2 DEF SendPlainly, TypeOK
<1>3. ASSUME NEW p \in net, ReceiveAck(p)
      PROVE  Result
  BY <1>3 DEF ReceiveAck, Judge, TypeOK
<1>4. ASSUME NEW p \in net, ReceiveReliable(p) \/ ReceivePlain(p)
      PROVE  Result
  BY <1>4 DEF ReceiveReliable, ReceivePlain
<1>5. ASSUME NEW n \in Node, Pump(n)
      PROVE  Result
  BY <1>5 DEF Pump, Judge, TypeOK
<1>6. ASSUME NEW n \in Node, Sleep(n) \/ PowerCycle(n)
      PROVE  Result
  BY <1>6 DEF Sleep, PowerCycle, LoseRam, TypeOK
<1>7. ASSUME Tick \/ UNCHANGED vars
      PROVE  Result
  BY <1>7 DEF Tick, vars, ghostVars
<1> HIDE DEF Result
<1>8. Result
  <2>1. CASE \E n \in Node, u \in Body, a \in Addr :
              \/ \E sent \in BOOLEAN : SendReliably(n, u, a, sent)
              \/ SendPlainly(n, u, a)
    BY <2>1, <1>1, <1>2
  <2>2. CASE \E q \in net : ReceiveAck(q) \/ ReceiveReliable(q) \/ ReceivePlain(q)
    BY <2>2, <1>3, <1>4
  <2>3. QED
    BY <2>1, <2>2, <1>5, <1>6, <1>7, RestartersAssumption DEF Next
<1>9. QED
  BY <1>8 DEF Result

LEMMA SentOnceStep ==
    ASSUME AckChain, [Next]_vars
    PROVE  SentOnce'
<1>1. TypeOK /\ SentOnce
  BY DEF AckChain
<1>2. TypeOK'
  BY <1>1, NextTypeOK
<1>3. \A l \in log' : l.body \in Body
  BY <1>2 DEF TypeOK, LogEntry
<1>4. \A l \in log' : status'[l.body] # "unsent"
  <2>1. TAKE l \in log'
  <2>2. CASE l \in log
    BY <1>1, <1>3, <2>2, StatusStep DEF SentOnce
  <2>3. CASE l \notin log
    BY <1>1, <2>3, StatusStep
  <2>4. QED
    BY <2>2, <2>3
<1>5. \A l, m \in log' : l.body = m.body => l = m
  <2>1. SUFFICES ASSUME NEW l \in log', NEW m \in log', l.body = m.body
                 PROVE  l = m
    OBVIOUS
  <2>2. CASE l \in log /\ m \in log
    BY <1>1, <2>1, <2>2 DEF SentOnce
  <2>3. CASE l \in log /\ m \notin log
    BY <1>1, <2>1, <2>3, StatusStep DEF SentOnce
  <2>4. CASE l \notin log /\ m \in log
    BY <1>1, <2>1, <2>4, StatusStep DEF SentOnce
  <2>5. CASE l \notin log /\ m \notin log
    BY <1>1, <2>5, StatusStep
  <2>6. QED
    BY <2>2, <2>3, <2>4, <2>5
<1>6. QED
  BY <1>4, <1>5 DEF SentOnce

(* A step that tells an application of a success has a dispatch behind it.  *)
LEMMA AckedStep ==
    ASSUME AckChain, [Next]_vars
    PROVE  AckedMeansAccepted'
<1>1. TypeOK /\ AckedMeansAccepted /\ SentOnce /\ PendingLogged /\ AcksAccepted
  BY DEF AckChain
<1> SUFFICES ASSUME NEW l \in log', status'[l.body] = "acked"
             PROVE  \E m \in log' : /\ SameKey(l, m) /\ SameReceiver(l, m)
                                    /\ accepted'[m.body] > 0
  BY DEF AckedMeansAccepted, SameKey, SameReceiver
<1>2. l \in log
  BY <1>1, StatusStep
<1>3. l.body \in Body
  BY <1>1, <1>2 DEF TypeOK, LogEntry
<1>4. SUFFICES \E m \in log : /\ SameKey(l, m) /\ SameReceiver(l, m)
                              /\ accepted[m.body] > 0
  <2>1. \A m \in log : m \in log' /\ m.body \in Body
    BY <1>1, RecordsGrow DEF TypeOK, LogEntry
  <2>2. QED
    BY <1>1, <1>4, <2>1, RecordsGrow
<1>5. CASE status[l.body] = "acked"
  BY <1>1, <1>2, <1>5 DEF AckedMeansAccepted
<1>6. ASSUME NEW p \in net, ReceiveAck(p), NEW e \in AckMatches(p), e.body = l.body
      PROVE  \E m \in log : /\ SameKey(l, m) /\ SameReceiver(l, m)
                            /\ accepted[m.body] > 0
  <2>1. p.dst \in Node
    BY <1>1 DEF TypeOK, ReliableTypeOK, Packet
  <2>2. e \in pending[p.dst] /\ e.seq = p.seq /\ e.addr = p.addr
    BY DEF AckMatches
  <2>3. Logged(e.body, p.dst, e.seq, e.addr)
    BY <1>1, <2>1, <2>2 DEF PendingLogged
  <2>4. l.origin = p.dst /\ l.seq = p.seq /\ l.addr = p.addr
    BY <1>1, <1>2, <1>6, <2>2, <2>3 DEF Logged, SentOnce
  <2>5. KeyAccepted(Home[p.addr], p.dst, p.seq)
    BY <1>1, <1>6 DEF AcksAccepted, ReceiveAck
  <2>6. QED
    BY <2>4, <2>5 DEF KeyAccepted, SameKey, SameReceiver
<1>7. QED
  BY <1>1, <1>3, <1>5, <1>6, StatusStep

LEMMA AckChainInit == Init => AckChain
<1> SUFFICES ASSUME Init PROVE AckChain
  OBVIOUS
<1>1. TypeOK
  BY InitTypeOK
<1>2. SeenAccepted /\ AcksAccepted /\ CopiesLogged /\ PendingLogged
  BY DEF Init, ReliableInit, SeenAccepted, AcksAccepted, CopiesLogged,
         PendingLogged
<1>3. SentOnce /\ AckedMeansAccepted
  BY DEF Init, SentOnce, AckedMeansAccepted
<1>4. QED
  BY <1>1, <1>2, <1>3 DEF AckChain

LEMMA AckChainStep == AckChain /\ [Next]_vars => AckChain'
<1> SUFFICES ASSUME AckChain, [Next]_vars PROVE AckChain'
  OBVIOUS
<1>1. TypeOK'
  BY NextTypeOK DEF AckChain
<1>2. QED
  BY <1>1, SeenAcceptedStep, MeshStep, PendingStep, SentOnceStep, AckedStep
     DEF AckChain

(* onAckSuccess is told only of what the receiver dispatched, up to reuse   *)
(* of a sequence number: the ACK that completes an entry carries the key of *)
(* a dispatch, and the entry carries the key of its message.                *)
THEOREM AckIsHonest == Spec => []AckedMeansAccepted
<1>1. AckChain => AckedMeansAccepted
  BY DEF AckChain
<1>2. QED
  BY <1>1, AckChainInit, AckChainStep, PTL DEF Spec

-----------------------------------------------------------------------------
(* One fate for each message: Separate, PendingTracked, VerdictsCounted.    *)

(* A message has one pending entry at most, in one table.                   *)
LEMMA OneEntry ==
    ASSUME PendingLogged, SentOnce, PendingTracked,
           NEW n \in Node, NEW e \in pending[n],
           NEW m \in Node, NEW f \in pending[m], e.body = f.body
    PROVE  n = m /\ e = f
<1>1. Logged(e.body, n, e.seq, e.addr) /\ Logged(f.body, m, f.seq, f.addr)
  BY DEF PendingLogged
<1>2. n = m /\ e.seq = f.seq
  BY <1>1 DEF Logged, SentOnce
<1>3. QED
  BY <1>2 DEF PendingTracked

(* The messages an ACK, the pump or a restart passes judgement on.          *)
LEMMA JudgedWerePending ==
    ASSUME TypeOK, PendingTracked
    PROVE  /\ \A p \in net : \A e \in AckMatches(p) :
                p.dst \in Node /\ e \in pending[p.dst] /\ status[e.body] = "pending"
           /\ \A n \in Node : \A e \in Exhausted(n) :
                e \in pending[n] /\ status[e.body] = "pending"
<1>1. \A p \in net : p.dst \in Node
  BY DEF TypeOK, ReliableTypeOK, Packet
<1>2. QED
  BY <1>1 DEF PendingTracked, AckMatches, Exhausted, Due

(* What an application knows of a message moves from unsent to pending to   *)
(* one of the outcomes, and no further.                                     *)
LEMMA StatusMoves ==
    ASSUME TypeOK, PendingTracked, [Next]_vars, NEW u \in Body
    PROVE  \/ status'[u] = status[u]
           \/ status[u] = "unsent" /\ status'[u] \in {"pending", "refused", "plain"}
           \/ status[u] = "pending" /\ status'[u] \in {"acked", "failed", "wiped"}
<1> DEFINE Moves ==
        \/ status'[u] = status[u]
        \/ status[u] = "unsent" /\ status'[u] \in {"pending", "refused", "plain"}
        \/ status[u] = "pending" /\ status'[u] \in {"acked", "failed", "wiped"}
<1>1. ASSUME NEW n \in Node, NEW v \in Body, NEW a \in Addr
      PROVE  /\ \A sent \in BOOLEAN : SendReliably(n, v, a, sent) => Moves
             /\ SendPlainly(n, v, a) => Moves
  BY DEF SendReliably, SendPlainly, TypeOK
<1>2. ASSUME NEW p \in net
      PROVE  /\ ReceiveAck(p) => Moves
             /\ ReceiveReliable(p) \/ ReceivePlain(p) => Moves
  BY JudgedWerePending DEF ReceiveAck, ReceiveReliable, ReceivePlain, Judge
<1>3. ASSUME NEW n \in Node
      PROVE  /\ Pump(n) => Moves
             /\ Sleep(n) \/ PowerCycle(n) => Moves
  <2>1. Pump(n) => Moves
    BY JudgedWerePending DEF Pump, Judge
  <2>2. Sleep(n) \/ PowerCycle(n) => Moves
    BY DEF Sleep, PowerCycle, LoseRam, PendingTracked
  <2>3. QED
    BY <2>1, <2>2
<1>4. Tick \/ UNCHANGED vars => Moves
  BY DEF Tick, vars, ghostVars
<1> HIDE DEF Moves
<1>5. Moves
  BY <1>1, <1>2, <1>3, <1>4, RestartersAssumption DEF Next
<1>6. QED
  BY <1>5 DEF Moves

(* Only the receipt of a message changes how often it was accepted.         *)
LEMMA AcceptedMoves ==
    ASSUME TypeOK, [Next]_vars, NEW u \in Body
    PROVE  \/ accepted'[u] = accepted[u]
           \/ \E p \in net : /\ p.body = u
                             /\ accepted'[u] = CapTwo(accepted[u])
                             /\ \/ ReceiveReliable(p) /\ ~WasSeen(p)
                                \/ ReceivePlain(p)
<1> DEFINE Moves ==
        \/ accepted'[u] = accepted[u]
        \/ \E p \in net : /\ p.body = u
                          /\ accepted'[u] = CapTwo(accepted[u])
                          /\ \/ ReceiveReliable(p) /\ ~WasSeen(p)
                             \/ ReceivePlain(p)
<1>1. ASSUME NEW n \in Node, NEW v \in Body, NEW a \in Addr
      PROVE  /\ \A sent \in BOOLEAN : SendReliably(n, v, a, sent) => Moves
             /\ SendPlainly(n, v, a) => Moves
  BY DEF SendReliably, SendPlainly
<1>2. ASSUME NEW p \in net, ReceiveAck(p) PROVE Moves
  BY <1>2 DEF ReceiveAck
<1>3. ASSUME NEW p \in net, ReceiveReliable(p) PROVE Moves
  <2>1. CASE WasSeen(p)
    BY <1>3, <2>1 DEF ReceiveReliable
  <2>2. CASE ~WasSeen(p)
    <3>1. accepted' = [accepted EXCEPT ![p.body] = CapTwo(@)]
      BY <1>3, <2>2 DEF ReceiveReliable, DispatchLocalPacket
    <3>2. QED
      BY <1>3, <2>2, <3>1 DEF TypeOK
  <2>3. QED
    BY <2>1, <2>2
<1>4. ASSUME NEW p \in net, ReceivePlain(p) PROVE Moves
  <2>1. accepted' = [accepted EXCEPT ![p.body] = CapTwo(@)]
    BY <1>4 DEF ReceivePlain, DispatchLocalPacket
  <2>2. QED
    BY <1>4, <2>1 DEF TypeOK
<1>5. ASSUME NEW n \in Node
      PROVE  Pump(n) \/ Sleep(n) \/ PowerCycle(n) => Moves
  BY DEF Pump, Sleep, PowerCycle, LoseRam
<1>6. Tick \/ UNCHANGED vars => Moves
  BY DEF Tick, vars, ghostVars
<1> HIDE DEF Moves
<1>7. Moves
  BY <1>1, <1>2, <1>3, <1>4, <1>5, <1>6, RestartersAssumption DEF Next
<1>8. QED
  BY <1>7 DEF Moves

(* A copy of a message has been sent, reliably or plainly as its kind says. *)
LEMMA CopyStatus ==
    ASSUME AckChain, Separate, NEW p \in net
    PROVE  /\ p.kind = ReliableKind =>
                status[p.body] \notin {"unsent", "refused", "plain"}
           /\ p.kind = PlainKind => status[p.body] = "plain"
BY DEF AckChain, CopiesLogged, Logged, Separate

LEMMA SeparateStep ==
    ASSUME AckChain, Separate, PendingTracked, [Next]_vars
    PROVE  Separate'
<1>1. TypeOK /\ TypeOK'
  BY NextTypeOK DEF AckChain
<1>2. ASSUME NEW l \in log'
      PROVE  status'[l.body] \notin {"unsent", "refused", "plain"}
  <2>1. l.body \in Body
    BY <1>1 DEF TypeOK, LogEntry
  <2>2. CASE l \in log
    BY <1>1, <2>1, <2>2, StatusMoves DEF Separate
  <2>3. CASE l \notin log
    BY <1>1, <2>3, StatusStep
  <2>4. QED
    BY <2>2, <2>3
<1>3. ASSUME NEW p \in net', p.kind = PlainKind
      PROVE  p.body \in Body /\ status'[p.body] = "plain"
  <2>1. CASE \E q \in net : p.kind = q.kind /\ p.body = q.body
    <3>1. p.body \in Body /\ status[p.body] = "plain"
      BY <1>3, <2>1 DEF Separate
    <3>2. QED
      BY <1>1, <3>1, StatusMoves
  <2>2. QED
    BY <1>3, <2>1, NetStep DEF PlainKind, ReliableKind, AckKind
<1>4. ASSUME NEW u \in Body, status'[u] = "unsent"
      PROVE  accepted'[u] = 0
  <2>1. status[u] = "unsent" /\ accepted[u] = 0
    BY <1>1, <1>4, StatusMoves DEF Separate
  <2>2. ASSUME NEW p \in net, p.body = u
        PROVE  ~ReceiveReliable(p) /\ ~ReceivePlain(p)
    BY <2>1, <2>2, CopyStatus DEF ReceiveReliable, ReceivePlain
  <2>3. QED
    BY <1>1, <2>1, <2>2, AcceptedMoves
<1>5. QED
  BY <1>2, <1>3, <1>4 DEF Separate

LEMMA PendingTrackedStep ==
    ASSUME AckChain, Separate, PendingTracked, [Next]_vars
    PROVE  PendingTracked'
<1>1. TypeOK /\ ReliableTypeOK /\ PendingLogged /\ SentOnce
  BY DEF AckChain, TypeOK
<1>2. \A n \in Node : \A e \in pending[n] : e \in PendingEntry /\ e.body \in Body
  BY <1>1 DEF ReliableTypeOK, PendingEntry
<1>3. CASE UNCHANGED <<pending, status>>
  BY <1>3 DEF PendingTracked
<1>4. ASSUME NEW n \in Node, NEW u \in Body, NEW a \in Addr,
             NEW sent \in BOOLEAN, SendReliably(n, u, a, sent)
      PROVE  PendingTracked'
  <2>1. PICK s \in AllocSeq(n) : SendReliable(n, Home[a], a, u, s, sent)
    BY <1>4 DEF SendReliably
  <2>2. /\ status[u] = "unsent"
        /\ status' = [status EXCEPT ![u] = IF sent THEN "pending" ELSE "refused"]
    BY <1>4 DEF SendReliably
  <2>3. ASSUME NEW m \in Node, NEW e \in pending[m]
        PROVE  status'[e.body] = "pending"
    BY <1>1, <1>2, <2>2 DEF PendingTracked, TypeOK
  <2>4. CASE ~sent
    BY <2>1, <2>3, <2>4 DEF SendReliable, PendingTracked
  <2>5. CASE sent
    <3> DEFINE entry == NewPending(s, Home[a], a, u)
    <3>1. pending' = [pending EXCEPT
                        ![n] = {e \in @ : e.seq # entry.seq} \cup {entry}]
      BY <2>1, <2>5 DEF SendReliable, StorePending
    <3>2. entry.body = u /\ status'[u] = "pending"
      BY <1>1, <2>2, <2>5 DEF NewPending, TypeOK
    <3> HIDE DEF entry
    <3>3. ASSUME NEW m \in Node, NEW e \in pending'[m]
          PROVE  /\ status'[e.body] = "pending"
                 /\ \A f \in pending'[m] : e.seq = f.seq => e = f
      <4>1. CASE m # n
        BY <1>1, <2>3, <3>1, <3>3, <4>1 DEF PendingTracked, ReliableTypeOK
      <4>2. CASE m = n
        <5>1. pending'[m] = {f \in pending[m] : f.seq # entry.seq} \cup {entry}
          BY <1>1, <3>1, <4>2 DEF ReliableTypeOK
        <5>2. QED
          BY <2>3, <3>2, <3>3, <5>1 DEF PendingTracked
      <4>3. QED
        BY <4>1, <4>2
    <3>4. QED
      BY <3>3 DEF PendingTracked
  <2>6. QED
    BY <2>4, <2>5
<1>5. ASSUME NEW n \in Node, NEW u \in Body, NEW a \in Addr, SendPlainly(n, u, a)
      PROVE  PendingTracked'
  <2>1. status[u] = "unsent" /\ status' = [status EXCEPT ![u] = "plain"]
    BY <1>5 DEF SendPlainly
  <2>2. pending' = pending
    BY <1>5 DEF SendPlainly, SendPlain
  <2>3. QED
    BY <1>1, <1>2, <2>1, <2>2 DEF PendingTracked, TypeOK
<1>6. ASSUME NEW p \in net, ReceiveAck(p)
      PROVE  PendingTracked'
  <2>1. pending' = [pending EXCEPT ![p.dst] = @ \ AckMatches(p)]
    BY <1>6 DEF ReceiveAck, HandleAckPacket
  <2>2. ASSUME NEW m \in Node, NEW e \in pending'[m]
        PROVE  e \in pending[m] /\ status'[e.body] = "pending"
    <3>1. p.dst \in Node /\ e \in pending[m] /\ ~(m = p.dst /\ e \in AckMatches(p))
      BY <1>1, <2>1 DEF ReliableTypeOK, Packet
    <3>2. \A f \in AckMatches(p) : f.body # e.body
      BY <1>1, <3>1, OneEntry DEF AckMatches
    <3>3. QED
      BY <1>2, <1>6, <3>1, <3>2 DEF ReceiveAck, Judge, PendingTracked
  <2>3. QED
    BY <2>2 DEF PendingTracked
<1>7. ASSUME NEW n \in Node, Pump(n)
      PROVE  PendingTracked'
  <2>1. pending' = [pending EXCEPT ![n] =
                      (@ \ Due(n)) \cup {AfterResend(e) : e \in Resent(n)}]
    BY <1>7 DEF Pump, PumpReliable
  <2>2. ASSUME NEW m \in Node, NEW e \in pending[m], ~(m = n /\ e \in Exhausted(n))
        PROVE  status'[e.body] = "pending"
    <3>1. \A f \in Exhausted(n) : f.body # e.body
      BY <1>1, <2>2, OneEntry DEF Exhausted, Due
    <3>2. QED
      BY <1>2, <1>7, <3>1 DEF Pump, Judge, PendingTracked
  <2>3. ASSUME NEW e \in Resent(n)
        PROVE  AfterResend(e).seq = e.seq /\ AfterResend(e).body = e.body
    BY <1>2 DEF Resent, Due, AfterResend, PendingEntry
  <2>4. Due(n) \subseteq pending[n] /\ Resent(n) = Due(n) \ Exhausted(n)
    BY DEF Due, Resent
  <2>5. ASSUME NEW m \in Node, NEW e \in pending'[m]
        PROVE  /\ status'[e.body] = "pending"
               /\ \A f \in pending'[m] : e.seq = f.seq => e = f
    <3>1. CASE m # n
      BY <1>1, <2>1, <2>2, <2>5, <3>1 DEF PendingTracked, ReliableTypeOK
    <3>2. CASE m = n
      <4>1. pending'[n] = (pending[n] \ Due(n)) \cup {AfterResend(f) : f \in Resent(n)}
        BY <1>1, <2>1 DEF ReliableTypeOK
      <4>2. status'[e.body] = "pending"
        <5>1. CASE e \in pending[n] \ Due(n)
          BY <2>2, <5>1 DEF Exhausted
        <5>2. ASSUME NEW g \in Resent(n), e = AfterResend(g)
              PROVE  status'[e.body] = "pending"
          BY <2>2, <2>3, <2>4, <5>2
        <5>3. QED
          BY <2>5, <3>2, <4>1, <5>1, <5>2
      <4>3. ASSUME NEW f \in pending'[n], e.seq = f.seq
            PROVE  e = f
        <5>1. PICK g \in pending[n] :
                /\ e.seq = g.seq
                /\ g \in Due(n) => e = AfterResend(g)
                /\ g \notin Due(n) => e = g
          BY <2>3, <2>4, <2>5, <3>2, <4>1
        <5>2. PICK h \in pending[n] :
                /\ f.seq = h.seq
                /\ h \in Due(n) => f = AfterResend(h)
                /\ h \notin Due(n) => f = h
          BY <2>3, <2>4, <4>1
        <5>3. g = h
          BY <4>3, <5>1, <5>2 DEF PendingTracked
        <5>4. QED
          BY <5>1, <5>2, <5>3
      <4>4. QED
        BY <3>2, <4>2, <4>3
    <3>3. QED
      BY <3>1, <3>2
  <2>6. QED
    BY <2>5 DEF PendingTracked
<1>8. CASE Tick
  <2> DEFINE Aged(e) == [e EXCEPT !.due = @ - 1]
  <2>1. pending' = [m \in Node |-> {Aged(e) : e \in pending[m]}] /\ status' = status
    BY <1>8 DEF Tick, ReliableTick, ghostVars
  <2>2. \A m \in Node : \A e \in pending[m] :
          Aged(e).seq = e.seq /\ Aged(e).body = e.body
    BY <1>2 DEF PendingEntry
  <2> HIDE DEF Aged
  <2>3. QED
    BY <2>1, <2>2 DEF PendingTracked
<1>9. ASSUME NEW n \in Node, Sleep(n) \/ PowerCycle(n)
      PROVE  PendingTracked'
  <2>1. /\ pending' = [pending EXCEPT ![n] = {}]
        /\ LoseRam(n)
    BY <1>9 DEF Sleep, PowerCycle, WakeFromSleep, ColdBoot, WipeRam
  <2>2. ASSUME NEW m \in Node, NEW e \in pending'[m]
        PROVE  e \in pending[m] /\ status'[e.body] = "pending"
    <3>1. m # n /\ e \in pending[m]
      BY <1>1, <2>1 DEF ReliableTypeOK
    <3>2. \A f \in pending[n] : f.body # e.body
      BY <1>1, <3>1, OneEntry
    <3>3. QED
      BY <1>2, <2>1, <3>1, <3>2 DEF LoseRam, PendingTracked
  <2>3. QED
    BY <2>2 DEF PendingTracked
<1>10. ASSUME NEW p \in net, ReceiveReliable(p) \/ ReceivePlain(p)
       PROVE  UNCHANGED <<pending, status>>
  BY <1>10 DEF ReceiveReliable, HandleReliablePacket, ReceivePlain, reliableVars
<1>11. UNCHANGED vars => UNCHANGED <<pending, status>>
  BY DEF vars, reliableVars, ghostVars
<1>12. QED
  BY <1>3, <1>4, <1>5, <1>6, <1>7, <1>8, <1>9, <1>10, <1>11,
     RestartersAssumption DEF Next

(* A verdict is counted when it is given, and it is given once.             *)
LEMMA VerdictsCountedStep ==
    ASSUME AckChain, PendingTracked, VerdictsCounted, [Next]_vars
    PROVE  VerdictsCounted'
<1>1. TypeOK
  BY DEF AckChain
<1>2. ASSUME NEW messages, NEW outcome \in {"acked", "failed"},
             Judge(messages, outcome),
             \A u \in messages : status[u] = "pending"
      PROVE  VerdictsCounted'
  BY <1>2 DEF Judge, VerdictsCounted, CapTwo
<1>3. ASSUME verdicts' = verdicts,
             \A u \in Body : status'[u] \in {"acked", "failed"} <=>
                             status[u] \in {"acked", "failed"}
      PROVE  VerdictsCounted'
  BY <1>3 DEF VerdictsCounted
<1>4. ASSUME NEW n \in Node, NEW u \in Body, NEW a \in Addr,
             \/ \E sent \in BOOLEAN : SendReliably(n, u, a, sent)
             \/ SendPlainly(n, u, a)
      PROVE  VerdictsCounted'
  <2>1. /\ status[u] = "unsent"
        /\ \/ status' = [status EXCEPT ![u] = "pending"]
           \/ status' = [status EXCEPT ![u] = "refused"]
           \/ status' = [status EXCEPT ![u] = "plain"]
        /\ verdicts' = verdicts
    BY <1>4 DEF SendReliably, SendPlainly
  <2>2. QED
    BY <1>1, <1>3, <2>1 DEF TypeOK
<1>5. ASSUME NEW p \in net, ReceiveAck(p)
      PROVE  VerdictsCounted'
  BY <1>1, <1>2, <1>5, JudgedWerePending DEF ReceiveAck
<1>6. ASSUME NEW n \in Node, Pump(n)
      PROVE  VerdictsCounted'
  BY <1>1, <1>2, <1>6, JudgedWerePending DEF Pump
<1>7. ASSUME NEW n \in Node, Sleep(n) \/ PowerCycle(n)
      PROVE  VerdictsCounted'
  BY <1>3, <1>7 DEF Sleep, PowerCycle, LoseRam, PendingTracked
<1>8. ASSUME NEW p \in net, ReceiveReliable(p) \/ ReceivePlain(p)
      PROVE  VerdictsCounted'
  BY <1>3, <1>8 DEF ReceiveReliable, ReceivePlain
<1>9. ASSUME Tick \/ UNCHANGED vars
      PROVE  VerdictsCounted'
  BY <1>3, <1>9 DEF Tick, vars, ghostVars
<1>10. QED
  BY <1>4, <1>5, <1>6, <1>7, <1>8, <1>9, RestartersAssumption DEF Next

-----------------------------------------------------------------------------
(* The duplicate window outlasts every copy: WindowOutlasts, AtMostOnce.    *)

(* How long the copies of a pending entry can last: less than the window    *)
(* keeps a key, long enough for a copy that is due, and shorter after each  *)
(* resend.                                                                  *)
LEMMA CopiesForBounds ==
    ASSUME NEW e \in PendingEntry
    PROVE  /\ CopiesFor(e) \in Int /\ CopiesFor(e) <= SeenTtl
           /\ e.retriesLeft > 0 => /\ MaxDelay <= CopiesFor(e)
                                   /\ CopiesFor(AfterResend(e)) <= CopiesFor(e)
           /\ CopiesFor([e EXCEPT !.due = @ - 1]) = CopiesFor(e) - 1
<1> DEFINE period == RetryInterval + MaxLag
           left == e.retriesLeft
<1>1. /\ period \in Nat /\ left \in Nat /\ left <= MaxRetries
      /\ e.due \in Int /\ -MaxLag <= e.due /\ e.due <= RetryInterval
      /\ RetryInterval \in Nat /\ MaxLag \in Nat /\ MaxDelay \in Nat
      /\ MaxRetries \in Nat /\ SeenTtl \in Nat
  BY NumbersAssumption DEF PendingEntry
<1>2. /\ CopiesFor(e) = (e.due - RetryInterval) + left * period + MaxDelay
      /\ CopiesFor(AfterResend(e)) = (left - 1) * period + MaxDelay
      /\ CopiesFor([e EXCEPT !.due = @ - 1])
            = (e.due - 1 - RetryInterval) + left * period + MaxDelay
  <2>1. AfterResend(e).due = RetryInterval /\ AfterResend(e).retriesLeft = left - 1
    BY DEF AfterResend, PendingEntry
  <2>2. /\ [e EXCEPT !.due = @ - 1].due = e.due - 1
        /\ [e EXCEPT !.due = @ - 1].retriesLeft = left
    BY DEF PendingEntry
  <2>3. (RetryInterval - RetryInterval) + (left - 1) * period + MaxDelay
          = (left - 1) * period + MaxDelay
    <3>1. (left - 1) * period \in Int
      BY <1>1
    <3> DEFINE product == (left - 1) * period
    <3> HIDE DEF product
    <3>2. product \in Int => (RetryInterval - RetryInterval) + product + MaxDelay
                                = product + MaxDelay
      BY <1>1
    <3>3. QED
      BY <3>1, <3>2 DEF product
  <2>4. QED
    BY <2>1, <2>2, <2>3 DEF CopiesFor
<1>3. /\ left * period \in Nat /\ (left - 1) * period \in Int
      /\ MaxRetries * period \in Nat
      /\ left * period <= MaxRetries * period
      /\ (left - 1) * period = left * period - period
      /\ left > 0 => period <= left * period
  <2> HIDE DEF period, left
  <2>1. ASSUME NEW i \in Nat, NEW j \in Nat, NEW k \in Nat, i <= j
        PROVE  i * k \in Nat /\ i * k <= j * k
    BY <2>1
  <2>2. ASSUME NEW i \in Nat, NEW k \in Nat
        PROVE  (i - 1) * k \in Int /\ (i - 1) * k = i * k - k
    OBVIOUS
  <2>3. ASSUME left > 0
        PROVE  period <= left * period
    <3>1. 1 <= left /\ 1 * period = period
      BY <1>1, <2>3
    <3>2. QED
      BY <1>1, <2>1, <3>1
  <2>4. QED
    BY <1>1, <2>1, <2>2, <2>3
<1>4. MaxRetries * period + MaxDelay <= SeenTtl
  BY TtlAssumption
<1> DEFINE all == left * period
           most == MaxRetries * period
           fewer == (left - 1) * period
<1> HIDE DEF all, most, fewer, left
<1>5. /\ all \in Nat /\ fewer \in Int /\ most \in Nat /\ all <= most
      /\ fewer = all - period /\ (left > 0 => period <= all)
      /\ most + MaxDelay <= SeenTtl
  BY <1>3, <1>4 DEF all, most, fewer
<1>6. /\ CopiesFor(e) = (e.due - RetryInterval) + all + MaxDelay
      /\ CopiesFor(AfterResend(e)) = fewer + MaxDelay
      /\ CopiesFor([e EXCEPT !.due = @ - 1])
            = (e.due - 1 - RetryInterval) + all + MaxDelay
  BY <1>2 DEF all, fewer
<1>7. /\ CopiesFor(e) \in Int /\ CopiesFor(e) <= SeenTtl
      /\ left > 0 => /\ MaxDelay <= CopiesFor(e)
                     /\ CopiesFor(AfterResend(e)) <= CopiesFor(e)
      /\ CopiesFor([e EXCEPT !.due = @ - 1]) = CopiesFor(e) - 1
  BY <1>1, <1>5, <1>6
<1>8. QED
  BY <1>7 DEF left

(* Unless the receiver forgets the key of l, and says so, it knows the key  *)
(* as long as it did; only the passing of a tick takes one off.             *)
LEMMA WindowKeeps ==
    ASSUME AckChain, [Next]_vars, NEW l \in log, l.body \notin forgotten',
           NEW span \in Nat, KnownFor(l, span)
    PROVE  IF Tick THEN KnownFor(l, span - 1)' ELSE KnownFor(l, span)'
<1> DEFINE home == Home[l.addr]
<1>1. /\ TypeOK /\ ReliableTypeOK /\ l \in LogEntry
      /\ home \in Node /\ seen[home] \in SUBSET SeenEntry
  BY HomeAssumption DEF AckChain, TypeOK, ReliableTypeOK, LogEntry
<1>2. PICK k \in seen[home] : SameKey(k, l) /\ k.age + span <= SeenTtl
  BY DEF KnownFor
<1>3. k \in SeenEntry /\ k.age \in Nat /\ SeenTtl \in Nat /\ k.age <= SeenTtl
  BY <1>1, <1>2, NumbersAssumption DEF SeenEntry
<1>4. ASSUME NEW g \in seen'[home], g.origin = k.origin, g.seq = k.seq,
             g.age \in Int, g.age <= k.age
      PROVE  KnownFor(l, span)'
  <2>1. SameKey(g, l) /\ g.age + span <= SeenTtl
    BY <1>2, <1>3, <1>4 DEF SameKey
  <2>2. QED
    BY <2>1 DEF KnownFor, SameKey
<1>5. k \in seen'[home] => KnownFor(l, span)'
  BY <1>3, <1>4
<1>6. ASSUME NEW E, k \in E
      PROVE  l.body \in MessagesOf(home, E)
  BY <1>2, <1>6 DEF MessagesOf
<1>7. \A g \in seen'[home] : g.age \in Int
  <2>1. seen'[home] \subseteq SeenEntry
    BY <1>1, NextTypeOK DEF TypeOK, ReliableTypeOK
  <2>2. QED
    BY <2>1 DEF SeenEntry
<1> HIDE DEF KnownFor
<1>8. ASSUME NEW p \in net, ReceiveReliable(p)
      PROVE  KnownFor(l, span)'
  <2>1. p \in Packet /\ p.dst \in Node
    BY <1>1 DEF ReliableTypeOK, Packet
  <2>2. seen' = [seen EXCEPT ![p.dst] = MarkSeen(p)]
    BY <1>8 DEF ReceiveReliable, HandleReliablePacket
  <2>3. CASE p.dst # home
    BY <1>1, <1>2, <1>5, <2>1, <2>2, <2>3 DEF ReliableTypeOK
  <2>4. CASE p.dst = home
    <3>1. WasSeen(p) \/ k \notin Evicted(p.dst)
      BY <1>6, <1>8, <2>4 DEF ReceiveReliable
    <3>2. PICK g \in MarkSeen(p) :
            g.origin = k.origin /\ g.seq = k.seq /\ g.age <= k.age
      BY <1>1, <1>2, <2>1, <2>4, <3>1, MarkSeenKeeps
    <3>3. g \in seen'[home]
      BY <1>1, <2>1, <2>2, <2>4, <3>2 DEF ReliableTypeOK
    <3>4. QED
      BY <1>4, <1>7, <3>2, <3>3
  <2>5. QED
    BY <2>3, <2>4
<1>9. ASSUME NEW n \in Node, Pump(n)
      PROVE  KnownFor(l, span)'
  <2>1. seen' = [seen EXCEPT ![n] = Trimmed(n)]
    BY <1>9 DEF Pump, PumpReliable
  <2>2. CASE n # home
    BY <1>1, <1>2, <1>5, <2>1, <2>2 DEF ReliableTypeOK
  <2>3. CASE n = home
    <3>1. PICK g \in Trimmed(n) :
            g.origin = k.origin /\ g.seq = k.seq /\ g.age = k.age
      BY <1>1, <1>2, <1>3, <2>3, TrimmedKeeps
    <3>2. g \in seen'[home]
      BY <1>1, <2>1, <2>3, <3>1 DEF ReliableTypeOK
    <3>3. QED
      BY <1>3, <1>4, <3>1, <3>2
  <2>4. QED
    BY <2>2, <2>3
<1>10. ASSUME NEW n \in Node, Sleep(n) \/ PowerCycle(n)
       PROVE  KnownFor(l, span)'
  <2>1. /\ seen' = [seen EXCEPT ![n] = {}]
        /\ forgotten' = forgotten \cup MessagesOf(n, seen[n])
    BY <1>10 DEF Sleep, PowerCycle, WakeFromSleep, ColdBoot, WipeRam, LoseRam
  <2>2. n # home
    BY <1>2, <1>6, <2>1
  <2>3. QED
    BY <1>1, <1>2, <1>5, <2>1, <2>2 DEF ReliableTypeOK
<1>11. CASE Tick
  <2> DEFINE g == [k EXCEPT !.age = @ + 1]
  <2>1. g \in seen'[home]
    BY <1>1, <1>2, <1>11 DEF Tick, ReliableTick
  <2>2. g.origin = k.origin /\ g.seq = k.seq /\ g.age = k.age + 1
    BY <1>3 DEF SeenEntry
  <2> HIDE DEF g
  <2>3. SameKey(g, l) /\ g.age + (span - 1) <= SeenTtl
    BY <1>2, <1>3, <2>2 DEF SameKey
  <2>4. QED
    BY <1>11, <2>1, <2>3 DEF KnownFor, SameKey
<1>12. ASSUME UNCHANGED seen
       PROVE  KnownFor(l, span)'
  BY <1>2, <1>5, <1>12
<1>13. ASSUME NEW n \in Node, NEW u \in Body, NEW a \in Addr
       PROVE  /\ \A sent \in BOOLEAN : SendReliably(n, u, a, sent) => UNCHANGED seen
              /\ SendPlainly(n, u, a) => UNCHANGED seen
  BY DEF SendReliably, SendReliable, SendPlainly, SendPlain
<1>14. ASSUME NEW p \in net, ReceiveAck(p) \/ ReceivePlain(p)
       PROVE  UNCHANGED seen
  BY <1>14 DEF ReceiveAck, HandleAckPacket, ReceivePlain, reliableVars
<1>15. UNCHANGED vars => UNCHANGED seen
  BY DEF vars, reliableVars
<1>16. QED
  BY <1>8, <1>9, <1>10, <1>11, <1>12, <1>13, <1>14, <1>15,
     RestartersAssumption DEF Next

(* A dispatched message of the log came from a copy bound for its receiver. *)
LEMMA CopyOfLogged ==
    ASSUME AckChain, NEW p \in net, p.kind = ReliableKind,
           NEW l \in log, p.body = l.body
    PROVE  /\ p \in Packet /\ p.dst = Home[l.addr]
           /\ p.origin = l.origin /\ p.seq = l.seq
BY DEF AckChain, TypeOK, ReliableTypeOK, CopiesLogged, Logged, SentOnce

(* A receiver that forgot a message may be handed it again for ever after.  *)
LEMMA ForgottenGrows == [Next]_vars => forgotten \subseteq forgotten'
<1> SUFFICES ASSUME [Next]_vars PROVE forgotten \subseteq forgotten'
  OBVIOUS
<1>1. \A n \in Node, u \in Body, a \in Addr :
        /\ \A sent \in BOOLEAN :
              SendReliably(n, u, a, sent) => forgotten' = forgotten
        /\ SendPlainly(n, u, a) => forgotten' = forgotten
  BY DEF SendReliably, SendPlainly
<1>2. \A p \in net :
        /\ ReceiveAck(p) \/ ReceivePlain(p) => forgotten' = forgotten
        /\ ReceiveReliable(p) => forgotten \subseteq forgotten'
  BY DEF ReceiveAck, ReceivePlain, ReceiveReliable
<1>3. \A n \in Node :
        /\ Pump(n) => forgotten' = forgotten
        /\ Sleep(n) \/ PowerCycle(n) => forgotten \subseteq forgotten'
  BY DEF Pump, Sleep, PowerCycle, LoseRam
<1>4. Tick \/ UNCHANGED vars => forgotten' = forgotten
  BY DEF Tick, vars, ghostVars
<1>5. QED
  BY <1>1, <1>2, <1>3, <1>4, RestartersAssumption DEF Next

(* What WindowOutlasts asks of one message of the log.                      *)
Outlasted(l) ==
    /\ \A p \in net :
          p.kind = ReliableKind /\ p.body = l.body => KnownFor(l, p.life)
    /\ \A n \in Node : \A e \in pending[n] :
          e.body = l.body /\ e.retriesLeft > 0 => KnownFor(l, CopiesFor(e))

LEMMA WindowOutlastsStep ==
    ASSUME AckChain, Separate, WindowOutlasts, [Next]_vars
    PROVE  WindowOutlasts'
<1>1. TypeOK /\ ReliableTypeOK /\ TypeOK' /\ ReliableTypeOK'
  BY NextTypeOK DEF AckChain, TypeOK
<1> SUFFICES ASSUME NEW l \in log', accepted'[l.body] > 0,
                    l.body \notin forgotten'
             PROVE  Outlasted(l)'
  BY DEF WindowOutlasts, Outlasted, KnownFor
<1>2. l \in LogEntry /\ l.body \in Body
  BY <1>1 DEF TypeOK, LogEntry
<1>3. /\ \A p \in net : p \in Packet /\ p.life \in Nat
      /\ \A n \in Node : \A e \in pending[n] : e \in PendingEntry
      /\ \A e \in PendingEntry :
            /\ CopiesFor(e) \in Int /\ CopiesFor(e) <= SeenTtl
            /\ e.retriesLeft > 0 => CopiesFor(e) \in Nat
      /\ MaxDelay \in Nat
  <2>1. \A p \in net : p \in Packet /\ p.life \in Nat
    BY <1>1, NumbersAssumption DEF ReliableTypeOK, Packet
  <2>2. \A n \in Node : \A e \in pending[n] : e \in PendingEntry
    BY <1>1 DEF ReliableTypeOK
  <2>3. MaxDelay \in Nat
    BY NumbersAssumption
  <2>4. ASSUME NEW e \in PendingEntry
        PROVE  /\ CopiesFor(e) \in Int /\ CopiesFor(e) <= SeenTtl
               /\ e.retriesLeft > 0 => CopiesFor(e) \in Nat
    <3> DEFINE copies == CopiesFor(e)
    <3>1. /\ copies \in Int /\ copies <= SeenTtl
          /\ e.retriesLeft > 0 => MaxDelay <= copies
      BY CopiesForBounds
    <3> HIDE DEF copies
    <3>2. /\ copies \in Int /\ copies <= SeenTtl
          /\ e.retriesLeft > 0 => copies \in Nat
      BY <2>3, <3>1
    <3>3. QED
      BY <3>2 DEF copies
  <2>5. QED
    BY <2>1, <2>2, <2>3, <2>4
<1>4. l \in log
  <2>1. CASE l \notin log
    <3>1. status[l.body] = "unsent" /\ accepted[l.body] = 0
      BY <1>1, <1>2, <2>1, StatusStep DEF Separate
    <3>2. \A p \in net : p.body = l.body => ~ReceiveReliable(p) /\ ~ReceivePlain(p)
      BY <3>1, CopyStatus DEF ReceiveReliable, ReceivePlain
    <3>3. QED
      BY <1>1, <1>2, <3>1, <3>2, AcceptedMoves
  <2>2. QED
    BY <2>1
<1>5. /\ l.body \notin forgotten
      /\ status[l.body] \notin {"unsent", "refused", "plain"}
  <2>1. forgotten \subseteq forgotten'
    BY ForgottenGrows
  <2>2. QED
    BY <1>4, <2>1 DEF Separate
<1>6. accepted[l.body] > 0 => Outlasted(l)
  BY <1>4, <1>5 DEF WindowOutlasts, Outlasted
\* Outside a tick the window keeps what it knows for as long as before.
<1>7. ASSUME ~Tick, NEW span \in Nat, KnownFor(l, span)
      PROVE  KnownFor(l, span)'
  BY <1>4, <1>7, WindowKeeps DEF AckChain
<1>8. ASSUME NEW i \in Nat, NEW j \in Nat, i <= j, KnownFor(l, j)'
      PROVE  KnownFor(l, i)'
  <2>1. PICK k \in seen'[Home[l.addr]] : SameKey(k, l) /\ k.age + j <= SeenTtl
    BY <1>8 DEF KnownFor, SameKey
  <2>2. k.age \in Int /\ SeenTtl \in Int
    <3>1. Home[l.addr] \in Node
      BY <1>2, HomeAssumption DEF LogEntry
    <3>2. k \in SeenEntry
      BY <1>1, <2>1, <3>1 DEF ReliableTypeOK
    <3>3. QED
      BY <3>2, NumbersAssumption DEF SeenEntry
  <2>3. k.age + i <= SeenTtl
    BY <1>8, <2>1, <2>2
  <2>4. QED
    BY <2>1, <2>3 DEF KnownFor, SameKey
<1> HIDE DEF KnownFor
\* A step that adds no copy and no entry of l leaves what was known enough.
<1>9. ASSUME ~Tick, accepted[l.body] > 0,
             \A p \in net' : p.kind = ReliableKind /\ p.body = l.body => p \in net,
             \A n \in Node : \A e \in pending'[n] :
                e.body = l.body => e \in pending[n]
      PROVE  Outlasted(l)'
  <2>1. ASSUME NEW p \in net', p.kind = ReliableKind, p.body = l.body
        PROVE  KnownFor(l, p.life)'
    BY <1>3, <1>6, <1>7, <1>9, <2>1 DEF Outlasted
  <2>2. ASSUME NEW n \in Node, NEW e \in pending'[n], e.body = l.body,
               e.retriesLeft > 0
        PROVE  KnownFor(l, CopiesFor(e))'
    <3>1. KnownFor(l, CopiesFor(e)) /\ CopiesFor(e) \in Nat
      BY <1>3, <1>6, <1>9, <2>2 DEF Outlasted
    <3>2. QED
      BY <1>7, <1>9, <3>1 DEF CopiesFor, KnownFor
  <2>3. QED
    BY <2>1, <2>2 DEF Outlasted, CopiesFor, KnownFor
<1>10. ASSUME \A p \in net : p.body = l.body => ~ReceiveReliable(p) \/ WasSeen(p)
       PROVE  accepted[l.body] > 0
  BY <1>1, <1>2, <1>5, <1>10, AcceptedMoves, CopyStatus DEF ReceivePlain
<1> HIDE DEF Outlasted
<1>11. ASSUME NEW n \in Node, NEW u \in Body, NEW a \in Addr,
              NEW sent \in BOOLEAN, SendReliably(n, u, a, sent), ~Tick
       PROVE  Outlasted(l)'
  <2>1. PICK s \in AllocSeq(n) : SendReliable(n, Home[a], a, u, s, sent)
    BY <1>11 DEF SendReliably
  <2>2. u # l.body /\ accepted[l.body] > 0
    BY <1>5, <1>11 DEF SendReliably
  <2>3. \A p \in net' : p \in net \/ p.body = u
    BY <2>1, PutOrigin DEF SendReliable, BuildPacket
  <2>4. \A m \in Node : \A e \in pending'[m] : e \in pending[m] \/ e.body = u
    BY <1>1, <2>1 DEF SendReliable, StorePending, NewPending, ReliableTypeOK
  <2>5. QED
    BY <1>9, <1>11, <2>2, <2>3, <2>4
<1>12. ASSUME NEW n \in Node, NEW u \in Body, NEW a \in Addr,
              SendPlainly(n, u, a), ~Tick
       PROVE  Outlasted(l)'
  <2>1. accepted[l.body] > 0
    BY <1>12 DEF SendPlainly
  <2>2. \A p \in net' : p \in net \/ p.kind = PlainKind
    BY <1>12, PutOrigin DEF SendPlainly, SendPlain, BuildPacket
  <2>3. pending' = pending
    BY <1>12 DEF SendPlainly, SendPlain
  <2>4. QED
    BY <1>9, <1>12, <2>1, <2>2, <2>3 DEF PlainKind, ReliableKind
<1>13. ASSUME NEW p \in net, ReceiveAck(p), ~Tick
       PROVE  Outlasted(l)'
  <2>1. accepted[l.body] > 0 /\ net' = net
    BY <1>13 DEF ReceiveAck, HandleAckPacket
  <2>2. \A n \in Node : pending'[n] \subseteq pending[n]
    BY <1>1, <1>13 DEF ReceiveAck, HandleAckPacket, ReliableTypeOK
  <2>3. QED
    BY <1>9, <1>13, <2>1, <2>2
<1>14. ASSUME NEW p \in net, ReceiveReliable(p), ~Tick
       PROVE  Outlasted(l)'
  <2>1. pending' = pending
        /\ \A q \in net' : q \in net \/ q.kind = AckKind
    BY <1>14, PutOrigin DEF ReceiveReliable, HandleReliablePacket, BuildPacket
  <2>2. CASE accepted[l.body] > 0
    BY <1>9, <1>14, <2>1, <2>2 DEF AckKind, ReliableKind
  \* The first dispatch of l: its key has just been stamped.
  <2>3. CASE ~(accepted[l.body] > 0)
    <3>1. p.kind = ReliableKind /\ p.body = l.body
      <4>1. accepted' = accepted \/ DispatchLocalPacket(p)
        BY <1>14 DEF ReceiveReliable
      <4>2. QED
        BY <1>1, <1>2, <1>14, <2>3, <4>1
           DEF ReceiveReliable, DispatchLocalPacket, TypeOK
    <3>2. p \in Packet /\ p.dst \in Node /\ p.dst = Home[l.addr]
          /\ p.origin = l.origin /\ p.seq = l.seq
      BY <1>4, <3>1, CopyOfLogged DEF Packet
    <3>3. PICK g \in MarkSeen(p) :
            g.origin = p.origin /\ g.seq = p.seq /\ g.age = 0
      BY <1>1, <3>2, MarkSeenStamps
    <3>4. g \in seen'[p.dst]
      BY <1>1, <1>14, <3>2, <3>3
         DEF ReceiveReliable, HandleReliablePacket, ReliableTypeOK
    <3>5. ASSUME NEW span \in Int, span <= SeenTtl
          PROVE  KnownFor(l, span)'
      BY <3>2, <3>3, <3>4, <3>5 DEF KnownFor, SameKey
    <3>6. \A q \in net' : q.life \in Int /\ q.life <= SeenTtl
      <4>1. \A q \in net' : q \in Packet
        BY <1>1 DEF ReliableTypeOK
      <4>2. MaxDelay <= SeenTtl
        <5> DEFINE X == MaxRetries * (RetryInterval + MaxLag)
        <5>1. X \in Nat /\ X + MaxDelay <= SeenTtl
          BY TtlAssumption, NumbersAssumption
        <5> HIDE DEF X
        <5>2. QED
          BY <5>1, NumbersAssumption
      <4>3. QED
        BY <4>1, <4>2, NumbersAssumption DEF Packet
    <3>7. \A q \in net' : KnownFor(l, q.life)'
      BY <3>5, <3>6
    <3>8. \A n \in Node : \A e \in pending'[n] : KnownFor(l, CopiesFor(e))'
      BY <1>3, <2>1, <3>5
    <3>9. QED
      BY <3>7, <3>8 DEF Outlasted, KnownFor, CopiesFor
  <2>4. QED
    BY <2>2, <2>3
<1>15. ASSUME NEW p \in net, ReceivePlain(p), ~Tick
       PROVE  Outlasted(l)'
  <2>1. UNCHANGED <<net, pending>>
    BY <1>15 DEF ReceivePlain, reliableVars
  <2>2. p.body # l.body
    BY <1>5, <1>15, CopyStatus DEF ReceivePlain
  <2>3. accepted[l.body] > 0
    BY <1>1, <1>2, <1>15, <2>2 DEF ReceivePlain, DispatchLocalPacket, TypeOK
  <2>4. QED
    BY <1>9, <1>15, <2>1, <2>3
<1>16. ASSUME NEW m \in Node, Pump(m), ~Tick
       PROVE  Outlasted(l)'
  <2>1. accepted[l.body] > 0 /\ Outlasted(l)
    BY <1>6, <1>16 DEF Pump
  <2>2. ASSUME NEW e \in Resent(m), e.body = l.body
        PROVE  /\ KnownFor(l, MaxDelay)'
               /\ AfterResend(e).retriesLeft > 0 =>
                    KnownFor(l, CopiesFor(AfterResend(e)))'
    <3>1. e \in pending[m] /\ e \in PendingEntry /\ e.retriesLeft > 0
      BY <1>3, NumbersAssumption DEF Resent, Exhausted, Due, PendingEntry
    <3>2. KnownFor(l, CopiesFor(e)) /\ CopiesFor(e) \in Nat
      BY <1>3, <2>1, <2>2, <3>1 DEF Outlasted
    <3>3. KnownFor(l, CopiesFor(e))'
      BY <1>7, <1>16, <3>2 DEF KnownFor, CopiesFor
    <3>4. KnownFor(l, MaxDelay)'
      BY <1>3, <1>8, <3>1, <3>2, <3>3, CopiesForBounds
    <3>5. AfterResend(e).retriesLeft > 0 => CopiesFor(AfterResend(e)) \in Nat
      <4>1. AfterResend(e) \in PendingEntry
        <5>1. e.retriesLeft - 1 \in 0 .. MaxRetries
          BY <3>1, NumbersAssumption DEF PendingEntry
        <5>2. QED
          <6>1. RetryInterval \in -MaxLag .. RetryInterval
            BY NumbersAssumption
          <6>2. QED
            BY <3>1, <5>1, <6>1 DEF AfterResend, PendingEntry
      <4>2. QED
        BY <1>3, <4>1
    <3>6. QED
      BY <1>8, <3>1, <3>2, <3>3, <3>4, <3>5, CopiesForBounds
  <2>3. ASSUME NEW p \in net', p.kind = ReliableKind, p.body = l.body
        PROVE  KnownFor(l, p.life)'
    <3>1. p \in net \/ \E e \in Resent(m) :
            p = BuildPacket(ReliableKind, m, e.nextHop, e.seq, e.addr, e.body)
      BY <1>16, PutOrigin DEF Pump, PumpReliable
    <3>2. CASE p \in net
      BY <1>3, <1>7, <1>16, <2>1, <2>3, <3>2 DEF Outlasted
    <3>3. CASE p \notin net
      BY <2>2, <2>3, <3>1, <3>3 DEF BuildPacket
    <3>4. QED
      BY <3>2, <3>3
  <2>4. ASSUME NEW n \in Node, NEW e \in pending'[n], e.body = l.body,
               e.retriesLeft > 0
        PROVE  KnownFor(l, CopiesFor(e))'
    <3>1. e \in pending[n] \/ (n = m /\ \E f \in Resent(m) : e = AfterResend(f))
      BY <1>1, <1>16 DEF Pump, PumpReliable, ReliableTypeOK
    <3>2. CASE e \in pending[n]
      <4>1. KnownFor(l, CopiesFor(e)) /\ CopiesFor(e) \in Nat
        BY <1>3, <2>1, <2>4, <3>2 DEF Outlasted
      <4>2. QED
        BY <1>7, <1>16, <4>1 DEF KnownFor, CopiesFor
    <3>3. ASSUME NEW f \in Resent(m), e = AfterResend(f)
          PROVE  KnownFor(l, CopiesFor(e))'
      <4>1. f.body = l.body
        BY <1>3, <2>4, <3>3 DEF Resent, Due, AfterResend, PendingEntry
      <4>2. QED
        BY <2>2, <2>4, <3>3, <4>1
    <3>4. QED
      BY <3>1, <3>2, <3>3
  <2>5. QED
    BY <2>3, <2>4 DEF Outlasted, KnownFor, CopiesFor
<1>17. CASE Tick
  <2>1. accepted[l.body] > 0 /\ Outlasted(l)
    BY <1>6, <1>17 DEF Tick, ghostVars
  <2>2. ASSUME NEW span \in Nat, KnownFor(l, span)
        PROVE  KnownFor(l, span - 1)'
    BY <1>4, <1>17, <2>2, WindowKeeps DEF AckChain
  <2>3. ASSUME NEW p \in net', p.kind = ReliableKind, p.body = l.body
        PROVE  KnownFor(l, p.life)'
    <3>1. PICK q \in net : p = [q EXCEPT !.life = @ - 1]
      BY <1>17 DEF Tick, ReliableTick
    <3>2. q.kind = ReliableKind /\ q.body = l.body /\ p.life = q.life - 1
          /\ q.life \in Nat
      BY <1>3, <2>3, <3>1 DEF Packet
    <3>3. QED
      BY <2>1, <2>2, <3>2 DEF Outlasted
  <2>4. ASSUME NEW n \in Node, NEW e \in pending'[n], e.body = l.body,
               e.retriesLeft > 0
        PROVE  KnownFor(l, CopiesFor(e))'
    <3>1. PICK f \in pending[n] : e = [f EXCEPT !.due = @ - 1]
      BY <1>17 DEF Tick, ReliableTick
    <3>2. /\ f \in PendingEntry
          /\ f.body = l.body /\ f.retriesLeft > 0
      BY <1>3, <2>4, <3>1 DEF PendingEntry
    <3>3. KnownFor(l, CopiesFor(f)) /\ CopiesFor(f) \in Nat
      BY <1>3, <2>1, <3>2 DEF Outlasted
    <3>4. CopiesFor(e) = CopiesFor(f) - 1
      BY <3>1, <3>2, CopiesForBounds
    <3>5. KnownFor(l, CopiesFor(f) - 1)'
      BY <2>2, <3>3 DEF KnownFor, CopiesFor
    <3>6. QED
      BY <3>4, <3>5 DEF KnownFor, CopiesFor
  <2>5. QED
    BY <2>3, <2>4 DEF Outlasted, KnownFor, CopiesFor
<1>18. ASSUME NEW n \in Node, Sleep(n) \/ PowerCycle(n), ~Tick
       PROVE  Outlasted(l)'
  <2>1. /\ accepted[l.body] > 0 /\ net' = net
        /\ pending' = [pending EXCEPT ![n] = {}]
    BY <1>18 DEF Sleep, PowerCycle, WakeFromSleep, ColdBoot, WipeRam, LoseRam
  <2>2. \A m \in Node : pending'[m] \subseteq pending[m]
    BY <1>1, <2>1 DEF ReliableTypeOK
  <2>3. QED
    BY <1>9, <1>18, <2>1, <2>2
<1>19. ASSUME UNCHANGED vars, ~Tick
       PROVE  Outlasted(l)'
  BY <1>9, <1>19 DEF vars, reliableVars, ghostVars
<1>20. QED
  BY <1>11, <1>12, <1>13, <1>14, <1>15, <1>16, <1>17, <1>18, <1>19,
     RestartersAssumption DEF Next

(* A copy that the receiver does not recognise is the first it dispatches,  *)
(* or the receiver has forgotten the message.                               *)
LEMMA UnseenIsNew ==
    ASSUME AckChain, WindowOutlasts, NEW p \in net, p.kind = ReliableKind,
           ~WasSeen(p)
    PROVE  p.body \in Body /\ (accepted[p.body] = 0 \/ p.body \in forgotten)
<1>1. PICK l \in log : l.body = p.body
  BY DEF AckChain, CopiesLogged, Logged
<1>2. p.body \in Body /\ accepted[p.body] \in 0 .. 2
  BY <1>1 DEF AckChain, TypeOK, LogEntry
<1>3. KnownFor(l, p.life) => WasSeen(p)
  BY <1>1, CopyOfLogged DEF KnownFor, WasSeen, SameKey
<1>4. QED
  BY <1>1, <1>2, <1>3 DEF WindowOutlasts

LEMMA AtMostOnceStep ==
    ASSUME AckChain, Separate, WindowOutlasts, AtMostOnce, [Next]_vars
    PROVE  AtMostOnce'
<1>1. TypeOK /\ TypeOK'
  BY NextTypeOK DEF AckChain
<1> SUFFICES ASSUME NEW l \in log', l.body \notin forgotten'
             PROVE  accepted'[l.body] <= 1
  BY DEF AtMostOnce
<1>2. l.body \in Body /\ accepted[l.body] \in 0 .. 2 /\ l.body \notin forgotten
  BY <1>1, ForgottenGrows DEF TypeOK, LogEntry
<1>3. accepted[l.body] <= 1
  <2>1. CASE l \in log
    BY <1>2, <2>1 DEF AtMostOnce
  <2>2. CASE l \notin log
    BY <1>1, <1>2, <2>2, StatusStep DEF Separate
  <2>3. QED
    BY <2>1, <2>2
<1>4. ASSUME NEW p \in net, p.body = l.body, ReceiveReliable(p), ~WasSeen(p)
      PROVE  accepted[l.body] = 0
  BY <1>2, <1>4, UnseenIsNew DEF ReceiveReliable
<1>5. ASSUME NEW p \in net, p.body = l.body, ReceivePlain(p)
      PROVE  accepted[l.body] = 0
  <2>1. status[l.body] = "plain"
    BY <1>5, CopyStatus DEF ReceivePlain
  <2>2. CASE l \in log
    BY <2>1, <2>2 DEF Separate
  <2>3. CASE l \notin log
    BY <1>1, <2>1, <2>3, StatusStep
  <2>4. QED
    BY <2>2, <2>3
<1>6. CapTwo(0) = 1
  BY DEF CapTwo
<1>7. QED
  BY <1>1, <1>2, <1>3, <1>4, <1>5, <1>6, AcceptedMoves

LEMMA DeliveryInvInit == Init => DeliveryInv
<1> SUFFICES ASSUME Init PROVE DeliveryInv
  OBVIOUS
<1>1. AckChain
  BY AckChainInit
<1>2. Separate /\ PendingTracked /\ WindowOutlasts /\ AtMostOnce
  BY DEF Init, ReliableInit, Separate, PendingTracked, WindowOutlasts, AtMostOnce
<1>3. VerdictsCounted
  BY DEF Init, VerdictsCounted
<1>4. QED
  BY <1>1, <1>2, <1>3 DEF DeliveryInv

LEMMA DeliveryInvStep == DeliveryInv /\ [Next]_vars => DeliveryInv'
<1> SUFFICES ASSUME DeliveryInv, [Next]_vars PROVE DeliveryInv'
  OBVIOUS
<1>1. /\ AckChain /\ Separate /\ PendingTracked /\ VerdictsCounted
      /\ WindowOutlasts /\ AtMostOnce
  BY DEF DeliveryInv
<1>2. QED
  BY <1>1, AckChainStep, SeparateStep, PendingTrackedStep, VerdictsCountedStep,
     WindowOutlastsStep, AtMostOnceStep DEF DeliveryInv

LEMMA DeliveryInvariant == Spec => []DeliveryInv
BY DeliveryInvInit, DeliveryInvStep, PTL DEF Spec

(* A reliable message is dispatched at most once, however its copies are    *)
(* repeated, reordered or delayed: the receiver keeps its key for longer    *)
(* than any copy lives, unless it restarts or evicts the key.               *)
THEOREM DispatchedOnce == Spec => []AtMostOnce
<1>1. DeliveryInv => AtMostOnce
  BY DEF DeliveryInv
<1>2. QED
  BY <1>1, DeliveryInvariant, PTL

-----------------------------------------------------------------------------
(* Sequence numbers: CounterAhead, FreshSeq.                                *)

(* One more allocation is one more step away from every number it has not   *)
(* come round to.                                                           *)
LEMMA SinceBump ==
    ASSUME NEW s \in Seq, NEW t \in Seq, Since(s, t) < SeqMod - 2
    PROVE  Since(s, Bump(t)) = Since(s, t) + 1 /\ s # Bump(t)
<1>1. Bump(t) = IF t = SeqMod - 1 THEN 1 ELSE t + 1
  BY BumpValue, NumbersAssumption DEF Seq
<1>2. SeqMod \in Nat /\ SeqMod > 2 /\ s \in 1 .. SeqMod - 1 /\ t \in 1 .. SeqMod - 1
  BY NumbersAssumption DEF Seq
<1>3. QED
  BY <1>1, <1>2 DEF Since

(* Once submitted, for ever submitted.                                      *)
LEMMA SubmittedGrows ==
    ASSUME TypeOK, [Next]_vars, IsFiniteSet(Body)
    PROVE  /\ Cardinality(Submitted) \in Nat /\ Cardinality(Submitted') \in Nat
           /\ Cardinality(Submitted) <= Cardinality(Submitted')
           /\ Cardinality(Submitted') <= Cardinality(Body)
           /\ \A u \in Submitted' \ Submitted :
                Cardinality(Submitted) + 1 <= Cardinality(Submitted')
<1>1. Submitted \subseteq Submitted' /\ Submitted' \subseteq Body
  BY StatusStep DEF Submitted
<1>2. /\ IsFiniteSet(Submitted') /\ IsFiniteSet(Submitted)
      /\ Cardinality(Submitted) <= Cardinality(Submitted')
      /\ Cardinality(Submitted') <= Cardinality(Body)
  BY <1>1, FS_Subset
<1>3. Cardinality(Submitted) \in Nat /\ Cardinality(Submitted') \in Nat
  BY <1>2, FS_CardinalityType
<1>4. ASSUME NEW u \in Submitted' \ Submitted
      PROVE  Cardinality(Submitted) + 1 <= Cardinality(Submitted')
  <2>1. /\ IsFiniteSet(Submitted \cup {u})
        /\ Cardinality(Submitted \cup {u}) = Cardinality(Submitted) + 1
    BY <1>2, <1>4, FS_AddElement
  <2>2. Submitted \cup {u} \in SUBSET Submitted'
    BY <1>1, <1>4
  <2>3. Cardinality(Submitted \cup {u}) <= Cardinality(Submitted')
    BY <1>2, <2>2, FS_Subset
  <2>4. QED
    BY <2>1, <2>3
<1>5. QED
  BY <1>2, <1>3, <1>4

(* A send takes a number that its sender has not used in this cycle.        *)
LEMMA AllocIsFresh ==
    ASSUME TypeOK, CounterAhead, IsFiniteSet(Body), Cardinality(Body) < SeqMod,
           [Next]_vars,
           NEW n \in Node, NEW u \in Body, NEW a \in Addr, NEW sent \in BOOLEAN,
           SendReliably(n, u, a, sent), NEW s \in AllocSeq(n),
           NEW l \in log, l.origin = n, l.cycle = cycles[n]
    PROVE  l.seq # s /\ Since(l.seq, s) < Cardinality(Submitted')
<1>1. /\ seqValid[n] /\ nextSeq[n] \in Seq /\ l.seq \in Seq
      /\ Since(l.seq, nextSeq[n]) < Cardinality(Submitted)
  BY DEF CounterAhead, TypeOK, ReliableTypeOK, LogEntry
<1>2. s = Bump(nextSeq[n])
  BY <1>1 DEF AllocSeq
<1>3. u \in Submitted' \ Submitted
  BY DEF SendReliably, Submitted, TypeOK
<1>4. /\ Cardinality(Submitted) + 1 <= Cardinality(Submitted')
      /\ Cardinality(Submitted') <= Cardinality(Body)
      /\ Cardinality(Submitted) \in Nat /\ Cardinality(Submitted') \in Nat
  BY <1>3, SubmittedGrows
<1>5. Cardinality(Body) \in Nat /\ SeqMod \in Nat
  BY FS_CardinalityType, NumbersAssumption
<1>6. Since(l.seq, nextSeq[n]) \in Int
  BY <1>1, NumbersAssumption DEF Since, Seq
<1> DEFINE since == Since(l.seq, nextSeq[n])
           before == Cardinality(Submitted)
           after == Cardinality(Submitted')
           all == Cardinality(Body)
<1> HIDE DEF since, before, after, all
<1>7. /\ since \in Int /\ since < before /\ before + 1 <= after /\ after <= all
      /\ all < SeqMod
      /\ before \in Nat /\ after \in Nat /\ all \in Nat /\ SeqMod \in Nat
  BY <1>1, <1>4, <1>5, <1>6 DEF since, before, after, all
<1>8. since < SeqMod - 2 /\ since + 1 < after
  BY <1>7
<1>9. Since(l.seq, s) = since + 1 /\ l.seq # s
  BY <1>1, <1>2, <1>8, SinceBump DEF since
<1>10. QED
  BY <1>8, <1>9 DEF after

LEMMA FreshSeqStep ==
    ASSUME TypeOK, CounterAhead, FreshSeq, IsFiniteSet(Body),
           Cardinality(Body) < SeqMod, [Next]_vars
    PROVE  CounterAhead' /\ FreshSeq'
<1>1. ReliableTypeOK /\ \A l \in log : l \in LogEntry /\ l.origin \in Node
  BY DEF TypeOK, LogEntry
<1>2. /\ Cardinality(Submitted) \in Nat /\ Cardinality(Submitted') \in Nat
      /\ Cardinality(Submitted) <= Cardinality(Submitted')
  BY SubmittedGrows
<1>3. \A l \in log : nextSeq[l.origin] # NoSeq =>
                       Since(l.seq, nextSeq[l.origin]) \in Int
  <2>1. ASSUME NEW l \in log, nextSeq[l.origin] # NoSeq
        PROVE  l.seq \in Seq /\ nextSeq[l.origin] \in Seq
    BY <1>1, <2>1 DEF ReliableTypeOK, LogEntry
  <2>2. QED
    BY <2>1, NumbersAssumption DEF Since, Seq
<1>4. ASSUME UNCHANGED <<log, cycles, seqValid, nextSeq>>
      PROVE  CounterAhead' /\ FreshSeq'
  <2>1. FreshSeq'
    BY <1>4 DEF FreshSeq, SameKey
  <2>2. ASSUME NEW l \in log
        PROVE  /\ l.cycle <= cycles[l.origin]
               /\ l.cycle = cycles[l.origin] =>
                    /\ seqValid[l.origin] /\ nextSeq[l.origin] # NoSeq
                    /\ Since(l.seq, nextSeq[l.origin]) < Cardinality(Submitted')
    BY <1>2, <1>3 DEF CounterAhead
  <2>3. QED
    BY <1>4, <2>1, <2>2 DEF CounterAhead, Since
<1>5. ASSUME NEW n \in Node, NEW u \in Body, NEW a \in Addr,
             NEW sent \in BOOLEAN, SendReliably(n, u, a, sent)
      PROVE  CounterAhead' /\ FreshSeq'
  <2>1. PICK s \in AllocSeq(n) :
          /\ SendReliable(n, Home[a], a, u, s, sent)
          /\ log' = IF sent
                    THEN log \cup {[body |-> u, origin |-> n, seq |-> s,
                                    addr |-> a, cycle |-> cycles[n]]}
                    ELSE log
    BY <1>5 DEF SendReliably
  <2> DEFINE new == [body |-> u, origin |-> n, seq |-> s, addr |-> a,
                     cycle |-> cycles[n]]
  <2>2. /\ new.body = u /\ new.origin = n /\ new.seq = s /\ new.cycle = cycles[n]
        /\ \A l \in log' : l \in log \/ l = new
    BY <2>1
  <2>3. /\ cycles' = cycles /\ s \in Seq /\ cycles[n] \in Nat
        /\ seqValid' = [seqValid EXCEPT ![n] = TRUE]
        /\ nextSeq' = [nextSeq EXCEPT ![n] = s]
    <3>1. s \in Seq
      BY <1>1, AllocSeqType
    <3>2. cycles[n] \in Nat
      BY MaxCyclesAssumption DEF TypeOK
    <3>3. QED
      BY <1>5, <2>1, <3>1, <3>2 DEF SendReliably, SendReliable, RetainSeq
  <2>4. \A l \in log : l.origin = n /\ l.cycle = cycles[n] =>
            l.seq # s /\ Since(l.seq, s) < Cardinality(Submitted')
    BY <1>5, AllocIsFresh
  <2> HIDE DEF new
  <2>5. FreshSeq'
    <3>1. SUFFICES ASSUME NEW l \in log', NEW m \in log', SameKey(l, m),
                          l.cycle = m.cycle
                   PROVE  l = m
      BY DEF FreshSeq, SameKey
    <3>2. l.origin = m.origin /\ l.seq = m.seq
      BY <3>1 DEF SameKey
    <3>3. CASE l \in log /\ m \in log
      BY <3>1, <3>3 DEF FreshSeq
    <3>4. QED
      BY <2>2, <2>4, <3>1, <3>2, <3>3
  <2>6. ASSUME NEW l \in log'
        PROVE  /\ l.cycle <= cycles'[l.origin]
               /\ l.cycle = cycles'[l.origin] =>
                    /\ seqValid'[l.origin] /\ nextSeq'[l.origin] # NoSeq
                    /\ Since(l.seq, nextSeq'[l.origin]) < Cardinality(Submitted')
    <3>1. CASE l.origin = n
      <4>1. seqValid'[n] /\ nextSeq'[n] = s /\ s # NoSeq
        BY <1>1, <2>3, NumbersAssumption DEF ReliableTypeOK, Seq, NoSeq
      <4>2. CASE l \in log
        BY <2>3, <2>4, <3>1, <4>1, <4>2 DEF CounterAhead
      <4>3. CASE l = new
        <5>1. Since(s, s) = 0
          BY <2>3, NumbersAssumption DEF Since, Seq
        <5>2. u \in Submitted'
          BY <1>5 DEF SendReliably, Submitted, TypeOK
        <5>3. u \notin Submitted
          BY <1>5 DEF SendReliably, Submitted
        <5>4. Cardinality(Submitted) + 1 <= Cardinality(Submitted')
          BY <5>2, <5>3, SubmittedGrows
        <5>5. 0 < Cardinality(Submitted')
          BY <1>2, <5>4
        <5>6. QED
          BY <2>2, <2>3, <3>1, <4>1, <4>3, <5>1, <5>5
      <4>4. QED
        BY <2>2, <4>2, <4>3
    <3>2. CASE l.origin # n
      <4>1. l \in log
        BY <2>2, <3>2
      <4>2. /\ seqValid'[l.origin] = seqValid[l.origin]
            /\ nextSeq'[l.origin] = nextSeq[l.origin]
        BY <1>1, <2>3, <3>2, <4>1 DEF ReliableTypeOK
      <4>3. QED
        BY <1>2, <1>3, <2>3, <4>1, <4>2 DEF CounterAhead
    <3>3. QED
      BY <3>1, <3>2
  <2>7. QED
    BY <2>5, <2>6 DEF CounterAhead, Since
<1>6. ASSUME NEW n \in Node, PowerCycle(n)
      PROVE  CounterAhead' /\ FreshSeq'
  <2>1. /\ log' = log /\ cycles' = [cycles EXCEPT ![n] = @ + 1]
        /\ seqValid' = [seqValid EXCEPT ![n] = FALSE]
        /\ nextSeq' = [nextSeq EXCEPT ![n] = NoSeq]
    BY <1>6 DEF PowerCycle, ColdBoot, LoseRam
  <2>2. FreshSeq'
    BY <2>1 DEF FreshSeq, SameKey
  <2>3. ASSUME NEW l \in log
        PROVE  /\ l.cycle <= cycles'[l.origin]
               /\ l.cycle = cycles'[l.origin] =>
                    /\ seqValid'[l.origin] /\ nextSeq'[l.origin] # NoSeq
                    /\ Since(l.seq, nextSeq'[l.origin]) < Cardinality(Submitted')
    <3>1. l.cycle \in Nat /\ cycles[l.origin] \in Nat /\ l.cycle <= cycles[l.origin]
      BY <1>1, MaxCyclesAssumption DEF CounterAhead, TypeOK, LogEntry
    <3>2. CASE l.origin = n
      <4>1. cycles'[l.origin] = cycles[l.origin] + 1
        BY <2>1, <3>2 DEF TypeOK
      <4>2. QED
        BY <3>1, <4>1
    <3>3. CASE l.origin # n
      <4>1. /\ cycles'[l.origin] = cycles[l.origin]
            /\ seqValid'[l.origin] = seqValid[l.origin]
            /\ nextSeq'[l.origin] = nextSeq[l.origin]
        BY <1>1, <2>1, <3>3 DEF ReliableTypeOK, TypeOK
      <4>2. QED
        BY <1>2, <1>3, <4>1 DEF CounterAhead
    <3>4. QED
      BY <3>2, <3>3
  <2>4. QED
    BY <2>1, <2>2, <2>3 DEF CounterAhead, Since
<1>7. ASSUME NEW n \in Node, NEW u \in Body, NEW a \in Addr
      PROVE  SendPlainly(n, u, a) => UNCHANGED <<log, cycles, seqValid, nextSeq>>
  BY DEF SendPlainly, SendPlain
<1>8. ASSUME NEW p \in net, ReceiveAck(p) \/ ReceiveReliable(p) \/ ReceivePlain(p)
      PROVE  UNCHANGED <<log, cycles, seqValid, nextSeq>>
  BY <1>8 DEF ReceiveAck, HandleAckPacket, ReceiveReliable,
     HandleReliablePacket, ReceivePlain, reliableVars
<1>9. ASSUME NEW n \in Node
      PROVE  Pump(n) \/ Sleep(n) => UNCHANGED <<log, cycles, seqValid, nextSeq>>
  BY DEF Pump, PumpReliable, Sleep, WakeFromSleep, LoseRam
<1>10. Tick \/ UNCHANGED vars => UNCHANGED <<log, cycles, seqValid, nextSeq>>
  BY DEF Tick, ReliableTick, vars, reliableVars, ghostVars
<1>11. QED
  BY <1>4, <1>5, <1>6, <1>7, <1>8, <1>9, <1>10, RestartersAssumption DEF Next

(* No sender repeats a number within a cycle of RTC memory, as long as      *)
(* fewer messages are sent than there are numbers: 65535 on the device.     *)
THEOREM NumbersStayFresh ==
    ASSUME IsFiniteSet(Body), Cardinality(Body) < SeqMod
    PROVE  Spec => []FreshSeq
<1> DEFINE FreshInv == TypeOK /\ CounterAhead /\ FreshSeq
<1>1. Init => FreshInv
  BY InitTypeOK DEF Init, CounterAhead, FreshSeq
<1>2. FreshInv /\ [Next]_vars => FreshInv'
  BY NextTypeOK, FreshSeqStep
<1>3. FreshInv => FreshSeq
  OBVIOUS
<1> HIDE DEF FreshInv
<1>4. QED
  BY <1>1, <1>2, <1>3, PTL DEF Spec

-----------------------------------------------------------------------------
(* One verdict: PendingListed, OneVerdict.                                  *)

LEMMA PendingListedStep ==
    ASSUME DeliveryInv, FreshSeq', PendingListed, [Next]_vars
    PROVE  PendingListed'
<1>1. /\ TypeOK /\ ReliableTypeOK /\ TypeOK' /\ PendingLogged /\ SentOnce
      /\ Separate /\ PendingTracked
  BY NextTypeOK DEF DeliveryInv, AckChain, TypeOK
<1> SUFFICES ASSUME NEW l \in log', status'[l.body] = "pending"
             PROVE  /\ l.cycle = cycles'[l.origin]
                    /\ \E e \in pending'[l.origin] : e.body = l.body
  BY DEF PendingListed
<1> DEFINE Listed == /\ l.cycle = cycles'[l.origin]
                     /\ \E e \in pending'[l.origin] : e.body = l.body
<1>2. l.body \in Body /\ l.origin \in Node
  BY <1>1 DEF TypeOK, LogEntry
<1>3. ASSUME l \in log
      PROVE  /\ status[l.body] = "pending" /\ l.cycle = cycles[l.origin]
             /\ \E e \in pending[l.origin] : e.body = l.body
  BY <1>1, <1>2, <1>3, StatusMoves DEF Separate, PendingListed
<1>4. ASSUME l \in log, UNCHANGED <<cycles, pending>>
      PROVE  Listed
  BY <1>3, <1>4
<1>5. ASSUME NEW n \in Node, NEW u \in Body, NEW a \in Addr,
             NEW sent \in BOOLEAN, SendReliably(n, u, a, sent)
      PROVE  Listed
  <2>1. PICK s \in AllocSeq(n) :
          /\ SendReliable(n, Home[a], a, u, s, sent)
          /\ log' = IF sent
                    THEN log \cup {[body |-> u, origin |-> n, seq |-> s,
                                    addr |-> a, cycle |-> cycles[n]]}
                    ELSE log
    BY <1>5 DEF SendReliably
  <2>2. cycles' = cycles /\ status[u] = "unsent"
    BY <1>5 DEF SendReliably
  <2>3. CASE ~sent
    BY <1>4, <2>1, <2>2, <2>3 DEF SendReliable
  <2>4. CASE sent
    <3> DEFINE entry == NewPending(s, Home[a], a, u)
               new == [body |-> u, origin |-> n, seq |-> s, addr |-> a,
                       cycle |-> cycles[n]]
    <3>1. pending' = [pending EXCEPT
                        ![n] = {e \in @ : e.seq # entry.seq} \cup {entry}]
      BY <2>1, <2>4 DEF SendReliable, StorePending
    <3>2. entry.body = u /\ entry.seq = s
      BY DEF NewPending
    <3>3. /\ new.body = u /\ new.origin = n /\ new.seq = s
          /\ new.cycle = cycles[n] /\ new \in log' /\ log' = log \cup {new}
      BY <2>1, <2>4
    <3> HIDE DEF entry, new
    <3>4. pending'[n] = {e \in pending[n] : e.seq # s} \cup {entry}
      BY <1>1, <3>1, <3>2 DEF ReliableTypeOK
    <3>5. CASE l = new
      BY <2>2, <3>2, <3>3, <3>4, <3>5
    <3>6. CASE l \in log
      <4>1. PICK e \in pending[l.origin] : e.body = l.body
        BY <1>3, <3>6
      <4>2. e.seq = l.seq
        BY <1>1, <1>2, <3>6, <4>1 DEF PendingLogged, Logged, SentOnce
      <4>3. ~(l.origin = n /\ l.seq = s)
        <5>1. SUFFICES ASSUME l.origin = n, l.seq = s PROVE FALSE
          OBVIOUS
        <5>2. SameKey(l, new) /\ l.cycle = new.cycle
          BY <1>3, <3>3, <3>6, <5>1 DEF SameKey
        <5>3. l = new
          BY <3>3, <5>2 DEF FreshSeq, SameKey
        <5>4. QED
          BY <1>3, <2>2, <3>3, <3>6, <5>3
      <4>4. e \in pending'[l.origin]
        BY <1>1, <1>2, <3>1, <3>4, <4>1, <4>2, <4>3 DEF ReliableTypeOK
      <4>5. QED
        BY <1>3, <2>2, <3>6, <4>1, <4>4
    <3>7. QED
      BY <3>3, <3>5, <3>6
  <2>5. QED
    BY <2>3, <2>4
<1>6. ASSUME NEW n \in Node, NEW u \in Body, NEW a \in Addr, SendPlainly(n, u, a)
      PROVE  Listed
  BY <1>4, <1>6 DEF SendPlainly, SendPlain
<1>7. ASSUME NEW p \in net, ReceiveAck(p)
      PROVE  Listed
  <2>1. /\ log' = log /\ cycles' = cycles
        /\ pending' = [pending EXCEPT ![p.dst] = @ \ AckMatches(p)]
        /\ Judge({e.body : e \in AckMatches(p)}, "acked")
    BY <1>7 DEF ReceiveAck, HandleAckPacket
  <2>2. PICK e \in pending[l.origin] : e.body = l.body
    BY <1>3, <2>1
  <2>3. e \notin AckMatches(p)
    BY <1>2, <2>1, <2>2 DEF Judge
  <2>4. e \in pending'[l.origin]
    BY <1>1, <1>2, <2>1, <2>2, <2>3 DEF ReliableTypeOK
  <2>5. QED
    BY <1>3, <2>1, <2>2, <2>4
<1>8. ASSUME NEW n \in Node, Pump(n)
      PROVE  Listed
  <2>1. /\ log' = log /\ cycles' = cycles
        /\ pending' = [pending EXCEPT ![n] =
                         (@ \ Due(n)) \cup {AfterResend(e) : e \in Resent(n)}]
        /\ Judge({e.body : e \in Exhausted(n)}, "failed")
    BY <1>8 DEF Pump, PumpReliable
  <2>2. PICK e \in pending[l.origin] : e.body = l.body
    BY <1>3, <2>1
  <2>3. e \notin Exhausted(n)
    BY <1>2, <2>1, <2>2 DEF Judge
  <2>4. \E f \in pending'[l.origin] : f.body = l.body
    <3>1. CASE l.origin = n /\ e \in Due(n)
      <4>1. e \in Resent(n) /\ e \in PendingEntry
        BY <1>1, <2>2, <2>3, <3>1 DEF Resent, ReliableTypeOK
      <4>2. AfterResend(e).body = e.body
        BY <4>1 DEF AfterResend, PendingEntry
      <4>3. AfterResend(e) \in pending'[l.origin]
        BY <1>1, <2>1, <3>1, <4>1 DEF ReliableTypeOK
      <4>4. QED
        BY <2>2, <4>2, <4>3
    <3>2. CASE ~(l.origin = n /\ e \in Due(n))
      BY <1>1, <1>2, <2>1, <2>2, <3>2 DEF ReliableTypeOK
    <3>3. QED
      BY <3>1, <3>2
  <2>5. QED
    BY <1>3, <2>1, <2>4
<1>9. ASSUME Tick PROVE Listed
  <2>1. /\ log' = log /\ cycles' = cycles
        /\ pending' = [m \in Node |-> {[e EXCEPT !.due = @ - 1] : e \in pending[m]}]
    BY <1>9 DEF Tick, ReliableTick, ghostVars
  <2>2. PICK e \in pending[l.origin] : e.body = l.body
    BY <1>3, <2>1
  <2>3. [e EXCEPT !.due = @ - 1] \in pending'[l.origin]
    BY <1>2, <2>1, <2>2
  <2>4. [e EXCEPT !.due = @ - 1].body = l.body
    BY <1>1, <1>2, <2>2 DEF ReliableTypeOK, PendingEntry
  <2>5. QED
    BY <1>3, <2>1, <2>3, <2>4
<1>10. ASSUME NEW n \in Node, Sleep(n) \/ PowerCycle(n)
       PROVE  Listed
  <2>1. /\ pending' = [pending EXCEPT ![n] = {}] /\ LoseRam(n)
        /\ cycles' = cycles \/ cycles' = [cycles EXCEPT ![n] = @ + 1]
    BY <1>10 DEF Sleep, PowerCycle, WakeFromSleep, ColdBoot, WipeRam
  <2>2. l \in log /\ l.origin # n
    BY <1>2, <1>3, <2>1 DEF LoseRam
  <2>3. /\ pending'[l.origin] = pending[l.origin]
        /\ cycles'[l.origin] = cycles[l.origin]
    BY <1>1, <1>2, <2>1, <2>2 DEF TypeOK, ReliableTypeOK
  <2>4. QED
    BY <1>3, <2>2, <2>3
<1>11. ASSUME NEW p \in net, ReceiveReliable(p) \/ ReceivePlain(p)
       PROVE  Listed
  BY <1>4, <1>11 DEF ReceiveReliable, HandleReliablePacket, ReceivePlain,
     reliableVars
<1>12. ASSUME UNCHANGED vars PROVE Listed
  BY <1>4, <1>12 DEF vars, reliableVars, ghostVars
<1> HIDE DEF Listed
<1>13. Listed
  <2>1. CASE \E n \in Node, u \in Body, a \in Addr :
              \/ \E sent \in BOOLEAN : SendReliably(n, u, a, sent)
              \/ SendPlainly(n, u, a)
    BY <2>1, <1>5, <1>6
  <2>2. CASE \E p \in net : ReceiveAck(p) \/ ReceiveReliable(p) \/ ReceivePlain(p)
    BY <2>2, <1>7, <1>11
  <2>3. CASE \E n \in Restarters : Sleep(n) \/ PowerCycle(n)
    BY <2>3, <1>10, RestartersAssumption
  <2>4. CASE \E n \in Node : Pump(n)
    BY <2>4, <1>8
  <2>5. QED
    BY <2>1, <2>2, <2>3, <2>4, <1>9, <1>12 DEF Next
<1>14. QED
  BY <1>13 DEF Listed

(* No message is judged twice or dropped from the table unjudged while      *)
(* numbers stay fresh; a reused number would take the place of the older    *)
(* entry, whose message then gets no callback.                              *)
LEMMA VerdictWhileFresh == Spec /\ []FreshSeq => []OneVerdict
<1> DEFINE VerdictInv == DeliveryInv /\ PendingListed
<1>1. Init => VerdictInv
  <2>1. Init => PendingListed
    BY DEF Init, PendingListed
  <2>2. QED
    BY <2>1, DeliveryInvInit
<1>2. VerdictInv /\ [Next]_vars /\ FreshSeq' => VerdictInv'
  BY DeliveryInvStep, PendingListedStep
<1>3. VerdictInv => OneVerdict
  <2>1. SUFFICES ASSUME VerdictInv, NEW l \in log
                 PROVE  /\ (status[l.body] = "pending") <=>
                             (\E e \in pending[l.origin] : e.body = l.body)
                        /\ verdicts[l.body] =
                             IF status[l.body] \in {"acked", "failed"} THEN 1 ELSE 0
    BY DEF OneVerdict
  <2>2. l.body \in Body /\ l.origin \in Node
    BY <2>1 DEF DeliveryInv, AckChain, TypeOK, LogEntry
  <2>3. \A e \in pending[l.origin] : e.body = l.body => status[l.body] = "pending"
    BY <2>1, <2>2 DEF DeliveryInv, PendingTracked
  <2>4. status[l.body] = "pending" => \E e \in pending[l.origin] : e.body = l.body
    BY <2>1 DEF PendingListed
  <2>5. QED
    BY <2>1, <2>2, <2>3, <2>4 DEF DeliveryInv, VerdictsCounted
<1> HIDE DEF VerdictInv
<1>4. QED
  BY <1>1, <1>2, <1>3, PTL DEF Spec

(* Every reliable message is pending at its sender, or has had its one      *)
(* verdict, or was wiped by a restart, as long as fewer messages are sent   *)
(* than there are sequence numbers.                                         *)
THEOREM OneVerdictEach ==
    ASSUME IsFiniteSet(Body), Cardinality(Body) < SeqMod
    PROVE  Spec => []OneVerdict
BY NumbersStayFresh, VerdictWhileFresh, PTL

-----------------------------------------------------------------------------
(* The contract: what each step shows an application.                       *)

(* The refinement mapping of ReliableDelivery!Contract, by name.            *)
Known == [u \in Body |-> IF status[u] = "plain" THEN "unsent" ELSE status[u]]
Handed == [u \in Body |-> IF status[u] = "plain" THEN 0 ELSE accepted[u]]

(* Judging messages that were pending is learning their verdict.            *)
LEMMA JudgeLearns ==
    ASSUME TypeOK, NEW messages \in SUBSET Body, NEW outcome \in {"acked", "failed"},
           Judge(messages, outcome), accepted' = accepted,
           \A u \in messages : status[u] = "pending"
    PROVE  Contract!Learn(messages, "pending", outcome) /\ Handed' = Handed
<1>1. \A u \in messages : Known[u] = "pending"
  BY DEF Known
<1>2. Known' = [u \in Body |-> IF u \in messages THEN outcome ELSE Known[u]]
  BY DEF Known, Judge
<1>3. Handed' = Handed
  BY DEF Handed, Judge
<1>4. QED
  BY <1>1, <1>2, <1>3 DEF Contract!Learn, Known

(* A message whose pending entry an ACK completes was handed over itself,   *)
(* no other one under its number having been sent.                          *)
LEMMA ConfirmedWasHanded ==
    ASSUME DeliveryInv, KeysUnique, NEW p \in net, p.kind = AckKind,
           NEW e \in AckMatches(p)
    PROVE  e.body \in Body /\ accepted[e.body] > 0
<1>1. TypeOK /\ AcksAccepted /\ PendingLogged
  BY DEF DeliveryInv, AckChain
<1>2. p.dst \in Node /\ e \in pending[p.dst] /\ e.seq = p.seq
  BY <1>1 DEF AckMatches, TypeOK, ReliableTypeOK, Packet
<1>3. PICK l \in log : l.body = e.body /\ l.origin = p.dst /\ l.seq = p.seq
  BY <1>1, <1>2 DEF PendingLogged, Logged
<1>4. PICK m \in log : m.origin = p.dst /\ m.seq = p.seq /\ accepted[m.body] > 0
  BY <1>1 DEF AcksAccepted, KeyAccepted
<1>5. l = m
  BY <1>3, <1>4 DEF KeysUnique, SameKey
<1>6. QED
  BY <1>1, <1>3, <1>4, <1>5 DEF TypeOK, LogEntry

LEMMA ContractStep ==
    ASSUME DeliveryInv, KeysUnique, [Next]_vars
    PROVE  [Contract!ContractNext]_Contract!contractVars
<1> DEFINE Step == [Contract!ContractNext]_Contract!contractVars
           Stutter == Known' = Known /\ Handed' = Handed /\ forgotten' = forgotten
<1>1. /\ AckChain /\ TypeOK /\ ReliableTypeOK /\ Separate /\ PendingTracked
      /\ WindowOutlasts
  BY DEF DeliveryInv, AckChain, TypeOK
<1>2. Stutter => Step
  BY DEF Contract!contractVars, Known, Handed
<1>3. UNCHANGED <<status, accepted, forgotten>> => Stutter
  BY DEF Known, Handed
<1>4. ASSUME NEW n \in Node, NEW u \in Body, NEW a \in Addr,
             NEW sent \in BOOLEAN, SendReliably(n, u, a, sent)
      PROVE  Step
  <2>1. /\ status[u] = "unsent"
        /\ status' = [status EXCEPT ![u] = IF sent THEN "pending" ELSE "refused"]
        /\ accepted' = accepted /\ forgotten' = forgotten
    BY <1>4 DEF SendReliably
  <2>2. PICK answer \in {"pending", "refused"} :
          status' = [status EXCEPT ![u] = answer]
    BY <2>1
  <2>3. Known[u] = "unsent"
        /\ Known' = [v \in Body |-> IF v \in {u} THEN answer ELSE Known[v]]
    BY <1>1, <2>1, <2>2 DEF Known, TypeOK
  <2>4. Handed' = Handed
    BY <1>1, <2>1, <2>2 DEF Handed, TypeOK
  <2>5. Contract!Learn({u}, "unsent", answer)
    BY <2>3 DEF Contract!Learn, Known
  <2>6. Contract!Submit(u)
    BY <2>1, <2>4, <2>5 DEF Contract!Submit, Handed
  <2>7. QED
    BY <2>6 DEF Contract!ContractNext
<1>5. ASSUME NEW n \in Node, NEW u \in Body, NEW a \in Addr, SendPlainly(n, u, a)
      PROVE  Step
  <2>1. /\ status[u] = "unsent" /\ accepted[u] = 0
        /\ status' = [status EXCEPT ![u] = "plain"]
        /\ accepted' = accepted /\ forgotten' = forgotten
    BY <1>1, <1>5 DEF SendPlainly, Separate
  <2>2. Stutter
    BY <1>1, <2>1 DEF Known, Handed, TypeOK
  <2>3. QED
    BY <1>2, <2>2
<1>6. ASSUME NEW p \in net, ReceiveAck(p)
      PROVE  Step
  <2> DEFINE messages == {e.body : e \in AckMatches(p)}
  <2>1. /\ p.kind = AckKind /\ Judge(messages, "acked")
        /\ accepted' = accepted /\ forgotten' = forgotten
    BY <1>6 DEF ReceiveAck
  <2>2. CASE AckMatches(p) = {}
    <3>1. status' = status
      BY <1>1, <2>1, <2>2 DEF Judge, TypeOK
    <3>2. QED
      BY <1>2, <1>3, <2>1, <3>1
  <2>3. CASE AckMatches(p) # {}
    <3>1. PICK e \in AckMatches(p) : TRUE
      BY <2>3
    <3>2. p.dst \in Node /\ AckMatches(p) \subseteq pending[p.dst]
      BY <1>1 DEF AckMatches, ReliableTypeOK, Packet
    <3>3. \A f \in AckMatches(p) : f = e
      BY <1>1, <3>1, <3>2 DEF AckMatches, PendingTracked
    <3>4. messages = {e.body}
      BY <3>1, <3>3
    <3>5. e.body \in Body /\ accepted[e.body] > 0 /\ status[e.body] = "pending"
      BY <1>1, <2>1, <3>1, ConfirmedWasHanded, JudgedWerePending
    <3>6. Contract!Learn({e.body}, "pending", "acked") /\ Handed' = Handed
      BY <1>1, <2>1, <3>4, <3>5, JudgeLearns
    <3>7. Handed[e.body] > 0
      BY <3>5 DEF Handed
    <3>8. Contract!Confirm(e.body)
      BY <2>1, <3>6, <3>7 DEF Contract!Confirm, Handed
    <3>9. QED
      BY <3>5, <3>8 DEF Contract!ContractNext
  <2>4. QED
    BY <2>2, <2>3
<1>7. ASSUME NEW p \in net, ReceiveReliable(p)
      PROVE  Step
  <2>1. CASE WasSeen(p)
    BY <1>2, <1>3, <1>7, <2>1 DEF ReceiveReliable
  <2>2. CASE ~WasSeen(p)
    <3> DEFINE evicted == MessagesOf(p.dst, Evicted(p.dst))
    <3>1. /\ p.kind = ReliableKind /\ status' = status
          /\ accepted' = [accepted EXCEPT ![p.body] = CapTwo(@)]
          /\ forgotten' = forgotten \cup evicted
      BY <1>7, <2>2 DEF ReceiveReliable, DispatchLocalPacket
    <3>2. /\ p.body \in Body
          /\ accepted[p.body] = 0 \/ p.body \in forgotten
          /\ status[p.body] \notin {"unsent", "refused", "plain"}
      BY <1>1, <2>2, <3>1, UnseenIsNew, CopyStatus
    <3>3. evicted \in SUBSET Body
      BY <1>1, MessagesOfType
    <3> HIDE DEF evicted
    <3>4. /\ Known' = Known /\ Known[p.body] \notin {"unsent", "refused"}
          /\ Handed[p.body] = accepted[p.body]
      BY <3>1, <3>2 DEF Known, Handed
    <3>5. Handed' = [Handed EXCEPT ![p.body] = IF @ < 2 THEN @ + 1 ELSE @]
      <4>1. Handed = [u \in Body |-> Handed[u]] /\ Handed' = [u \in Body |-> Handed'[u]]
        BY DEF Handed
      <4>2. \A u \in Body : Handed'[u] =
                IF u = p.body THEN (IF Handed[u] < 2 THEN Handed[u] + 1 ELSE Handed[u])
                ELSE Handed[u]
        BY <1>1, <3>1, <3>2 DEF Handed, CapTwo, TypeOK
      <4>3. QED
        BY <3>2, <4>1, <4>2
    <3>6. Contract!HandOver(p.body)
      BY <3>1, <3>2, <3>3, <3>4, <3>5 DEF Contract!HandOver, Known, Handed
    <3>7. QED
      BY <3>2, <3>6 DEF Contract!ContractNext
  <2>3. QED
    BY <2>1, <2>2
<1>8. ASSUME NEW p \in net, ReceivePlain(p)
      PROVE  Step
  <2>1. /\ status' = status /\ forgotten' = forgotten
        /\ accepted' = [accepted EXCEPT ![p.body] = CapTwo(@)]
    BY <1>8 DEF ReceivePlain, DispatchLocalPacket
  <2>2. status[p.body] = "plain"
    BY <1>1, <1>8, CopyStatus DEF ReceivePlain
  <2>3. Stutter
    BY <1>1, <2>1, <2>2 DEF Known, Handed, TypeOK
  <2>4. QED
    BY <1>2, <2>3
<1>9. ASSUME NEW n \in Node, Pump(n)
      PROVE  Step
  <2>1. \A e \in Exhausted(n) : e.body \in Body /\ status[e.body] = "pending"
    <3>1. \A e \in Exhausted(n) : e \in PendingEntry
      BY <1>1 DEF Exhausted, Due, ReliableTypeOK
    <3>2. QED
      BY <1>1, <3>1, JudgedWerePending DEF PendingEntry
  <2>2. PICK messages \in SUBSET Body : messages = {e.body : e \in Exhausted(n)}
    BY <2>1
  <2>3. /\ Judge(messages, "failed")
        /\ accepted' = accepted /\ forgotten' = forgotten
    BY <1>9, <2>2 DEF Pump
  <2>4. \A u \in messages : status[u] = "pending"
    BY <2>1, <2>2
  <2>5. Contract!Learn(messages, "pending", "failed") /\ Handed' = Handed
    BY <1>1, <2>3, <2>4, JudgeLearns
  <2>6. Contract!GiveUp(messages)
    BY <2>3, <2>5 DEF Contract!GiveUp, Handed
  <2>7. QED
    BY <2>6 DEF Contract!ContractNext
<1>10. ASSUME NEW n \in Node, LoseRam(n)
       PROVE  Step
  <2>1. PICK wiped \in SUBSET Body :
          wiped = {u \in Body : \E e \in pending[n] : e.body = u}
    OBVIOUS
  <2>2. PICK lost \in SUBSET Body : lost = MessagesOf(n, seen[n])
    BY <1>1, MessagesOfType
  <2>3. /\ status' = [u \in Body |-> IF u \in wiped THEN "wiped" ELSE status[u]]
        /\ forgotten' = forgotten \cup lost /\ accepted' = accepted
    BY <1>10, <2>1, <2>2 DEF LoseRam
  <2>4. \A u \in wiped : status[u] = "pending"
    BY <1>1, <2>1 DEF PendingTracked
  <2>5. /\ \A u \in wiped : Known[u] = "pending"
        /\ Known' = [u \in Body |-> IF u \in wiped THEN "wiped" ELSE Known[u]]
        /\ Handed' = Handed
    BY <2>3, <2>4 DEF Known, Handed
  <2>6. Contract!Restart(wiped, lost)
    BY <2>3, <2>5 DEF Contract!Restart, Contract!Learn, Known, Handed
  <2>7. QED
    BY <2>6 DEF Contract!ContractNext
<1>11. Tick \/ UNCHANGED vars => Step
  BY <1>2, <1>3 DEF Tick, vars, ghostVars
<1> HIDE DEF Step, Stutter
<1>12. Step
  <2>1. CASE \E n \in Node, u \in Body, a \in Addr :
              \/ \E sent \in BOOLEAN : SendReliably(n, u, a, sent)
              \/ SendPlainly(n, u, a)
    BY <2>1, <1>4, <1>5
  <2>2. CASE \E p \in net : ReceiveAck(p) \/ ReceiveReliable(p) \/ ReceivePlain(p)
    BY <2>2, <1>6, <1>7, <1>8
  <2>3. CASE \E n \in Restarters : Sleep(n) \/ PowerCycle(n)
    BY <2>3, <1>10, RestartersAssumption DEF Sleep, PowerCycle
  <2>4. QED
    BY <2>1, <2>2, <2>3, <1>9, <1>11 DEF Next
<1>13. QED
  BY <1>12 DEF Step

(* The layer implements its contract as long as no sender repeats a number, *)
(* whatever the counter does: step by step, each is one of the contract's   *)
(* or shows the application nothing.                                        *)
LEMMA ContractWhileUnique == Spec /\ []KeysUnique => ImplementsContract
<1>1. Init => Contract!ContractInit
  BY DEF Init, Contract!ContractInit
<1>2. DeliveryInv /\ KeysUnique /\ [Next]_vars
        => [Contract!ContractNext]_Contract!contractVars
  BY ContractStep
<1>3. QED
  BY <1>1, <1>2, DeliveryInvariant, PTL
     DEF Spec, ImplementsContract, Contract!ContractSpec

(* Numbers are unique when they are fresh and no node boots cold, and then  *)
(* the layer implements what its API offers.                                *)
THEOREM ContractKept ==
    ASSUME IsFiniteSet(Body), Cardinality(Body) < SeqMod, MaxCycles = 0
    PROVE  Spec => ImplementsContract
<1>1. TypeOK /\ FreshSeq => KeysUnique
  <2>1. TypeOK => \A l \in log : l.cycle = 0
    BY DEF TypeOK, LogEntry
  <2>2. QED
    BY <2>1 DEF FreshSeq, KeysUnique
<1>2. QED
  BY <1>1, TypeCorrect, NumbersStayFresh, ContractWhileUnique, PTL

=============================================================================
