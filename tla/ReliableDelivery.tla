-------------------------- MODULE ReliableDelivery --------------------------
(***************************************************************************)
(* Beeton's reliable-delivery layer between applications.  Each message is *)
(* sent once, by send(), straight to the node that hosts its address: what *)
(* is left out here is the choice of the next hop and the readiness of the *)
(* network, which Routing models.  Devices may sleep (goDormant) or lose   *)
(* power at any moment, whatever they still have pending.                  *)
(*                                                                         *)
(* The variables after `cycles` record what happened to each message; no   *)
(* guard reads them except to send every message at most once.             *)
(***************************************************************************)
EXTENDS Reliable

CONSTANTS
    Home,       \* Home[a]: the node that hosts address a
    Restarters, \* nodes that may sleep or lose power
    MaxCycles   \* bound on the cold boots of each node

ASSUME HomeAssumption == Home \in [Addr -> Node]
ASSUME RestartersAssumption == Restarters \subseteq Node
ASSUME MaxCyclesAssumption == MaxCycles \in Nat

\* The window outlasts every retry and the last copy in the mesh: 10000 ms
\* against 5 * 250 ms, which leaves 8750 ms for delays and a busy loop().
ASSUME TtlAssumption ==
    MaxRetries * (RetryInterval + MaxLag) + MaxDelay <= SeenTtl

VARIABLES
    cycles,    \* cycles[n]: cold boots of n so far
    log,       \* reliable packets handed to the radio
    status,    \* status[u]: what the application knows of message u
    verdicts,  \* verdicts[u]: ack callbacks of either kind, capped at 2
    accepted,  \* accepted[u]: times u reached messageCallback, capped at 2
    forgotten  \* messages whose dedupe entry was evicted, or lost in a restart

ghostVars == <<log, status, verdicts, accepted, forgotten>>
vars == <<reliableVars, cycles, ghostVars>>

Status == {"unsent", "refused", "plain", "pending", "acked", "failed", "wiped"}

LogEntry == [body : Body, origin : Node, seq : Seq, addr : Addr,
             cycle : 0 .. MaxCycles]

(* Every variable has its type; the counters stay within their caps. *)
TypeOK ==
    /\ ReliableTypeOK
    /\ cycles \in [Node -> 0 .. MaxCycles]
    /\ log \subseteq LogEntry
    /\ status \in [Body -> Status]
    /\ verdicts \in [Body -> 0 .. 2]
    /\ accepted \in [Body -> 0 .. 2]
    /\ forgotten \subseteq Body

Init ==
    /\ ReliableInit
    /\ cycles = [n \in Node |-> 0]
    /\ log = {}
    /\ status = [u \in Body |-> "unsent"]
    /\ verdicts = [u \in Body |-> 0]
    /\ accepted = [u \in Body |-> 0]
    /\ forgotten = {}

-----------------------------------------------------------------------------

CapTwo(k) == IF k < 2 THEN k + 1 ELSE k

\* Messages of log entries whose key the window of n loses in `entries`.
MessagesOf(n, entries) ==
    {l.body : l \in {m \in log : /\ Home[m.addr] = n
                                 /\ \E e \in entries : SameKey(e, m)}}

Judge(messages, outcome) ==
    /\ status' = [u \in Body |-> IF u \in messages THEN outcome ELSE status[u]]
    /\ verdicts' = [u \in Body |-> IF u \in messages THEN CapTwo(verdicts[u])
                                   ELSE verdicts[u]]

\* messageCallback receives the message.
DispatchLocalPacket(p) ==
    accepted' = [accepted EXCEPT ![p.body] = CapTwo(@)]

-----------------------------------------------------------------------------

SendReliably(n, u, a, sent) ==
    /\ status[u] = "unsent"
    /\ Home[a] # n
    /\ \E s \in AllocSeq(n) :
         /\ SendReliable(n, Home[a], a, u, s, sent)
         /\ log' = IF sent
                   THEN log \cup {[body |-> u, origin |-> n, seq |-> s,
                                   addr |-> a, cycle |-> cycles[n]]}
                   ELSE log
    /\ status' = [status EXCEPT ![u] = IF sent THEN "pending" ELSE "refused"]
    /\ UNCHANGED <<cycles, verdicts, accepted, forgotten>>

SendPlainly(n, u, a) ==
    /\ status[u] = "unsent"
    /\ Home[a] # n
    /\ SendPlain(n, Home[a], a, u, TRUE)
    /\ status' = [status EXCEPT ![u] = "plain"]
    /\ UNCHANGED <<cycles, log, verdicts, accepted, forgotten>>

\* handlePacket on an ACK: complete the pending entry, tell the application.
ReceiveAck(p) ==
    /\ p.kind = AckKind
    /\ HandleAckPacket(p)
    /\ Judge({e.body : e \in AckMatches(p)}, "acked")
    /\ UNCHANGED <<cycles, log, accepted, forgotten>>

\* handlePacket on data for a local address.
ReceiveReliable(p) ==
    /\ p.kind = ReliableKind
    /\ HandleReliablePacket(p)
    /\ IF WasSeen(p)
       THEN UNCHANGED <<accepted, forgotten>>
       ELSE /\ DispatchLocalPacket(p)
            /\ forgotten' = forgotten \cup MessagesOf(p.dst, Evicted(p.dst))
    /\ UNCHANGED <<cycles, log, status, verdicts>>

ReceivePlain(p) ==
    /\ p.kind = PlainKind
    /\ DispatchLocalPacket(p)
    /\ UNCHANGED <<reliableVars, cycles, log, status, verdicts, forgotten>>

Pump(n) ==
    /\ PumpReliable(n)
    /\ Judge({e.body : e \in Exhausted(n)}, "failed")
    /\ UNCHANGED <<cycles, log, accepted, forgotten>>

Tick ==
    /\ ReliableTick
    /\ UNCHANGED <<cycles, ghostVars>>

\* The sketch loses its RAM: no callback will come for what was pending.
LoseRam(n) ==
    /\ status' = [u \in Body |-> IF \E e \in pending[n] : e.body = u
                                 THEN "wiped" ELSE status[u]]
    /\ forgotten' = forgotten \cup MessagesOf(n, seen[n])
    /\ UNCHANGED <<log, verdicts, accepted>>

Sleep(n) ==
    /\ WakeFromSleep(n)
    /\ LoseRam(n)
    /\ UNCHANGED cycles

PowerCycle(n) ==
    /\ cycles[n] < MaxCycles
    /\ ColdBoot(n)
    /\ LoseRam(n)
    /\ cycles' = [cycles EXCEPT ![n] = @ + 1]

Next ==
    \/ \E n \in Node, u \in Body, a \in Addr :
         \/ \E sent \in BOOLEAN : SendReliably(n, u, a, sent)
         \/ SendPlainly(n, u, a)
    \/ \E p \in net : ReceiveAck(p) \/ ReceiveReliable(p) \/ ReceivePlain(p)
    \/ \E n \in Node : Pump(n)
    \/ Tick
    \/ \E n \in Restarters : Sleep(n) \/ PowerCycle(n)

Spec == Init /\ [][Next]_vars

(* loop() keeps calling update(), so the pump of every node keeps running,  *)
(* and time keeps passing.  Nothing is assumed of the mesh.                 *)
FairSpec == Spec /\ WF_vars(Tick) /\ \A n \in Node : WF_vars(Pump(n))

-----------------------------------------------------------------------------
(* Properties.                                                              *)

\* The contract, read off the records kept of each message.  Unreliable
\* messages promise nothing and are no part of it.
Contract ==
    INSTANCE DeliveryContract WITH
        known <- [u \in Body |-> IF status[u] = "plain" THEN "unsent"
                                 ELSE status[u]],
        handed <- [u \in Body |-> IF status[u] = "plain" THEN 0
                                  ELSE accepted[u]],
        forgiven <- forgotten

(* The protocol implements the contract its API offers an application.     *)
ImplementsContract == Contract!ContractSpec

SameReceiver(l, m) == Home[l.addr] = Home[m.addr]

(* However packets and ACKs are lost, repeated, reordered or delayed, a     *)
(* reliable message reaches messageCallback at most once, as long as its    *)
(* receiver has neither restarted nor evicted its key from the window of    *)
(* BEETON_SEEN_PACKET_MAX entries: the TTL never forgets it too early.      *)
AtMostOnce ==
    \A l \in log : l.body \notin forgotten => accepted[l.body] <= 1

(* onAckSuccess is never told of a message unless the receiver dispatched   *)
(* it, or dispatched an earlier message of the same sender that carried the *)
(* same sequence number, which only a cold boot of the sender can repeat.   *)
AckedMeansAccepted ==
    \A l \in log : status[l.body] = "acked" =>
        \E m \in log : /\ SameKey(l, m) /\ SameReceiver(l, m)
                       /\ accepted[m.body] > 0

(* Every reliable message that left is accounted for: it is in the pending  *)
(* table of its sender, or its one callback has been made, or the sender    *)
(* restarted and no callback ever comes.  No late ACK, resend or reused     *)
(* table slot makes a second callback or drops a message silently.          *)
OneVerdict ==
    \A l \in log :
        LET u == l.body IN
        /\ (status[u] = "pending") <=> (\E e \in pending[l.origin] : e.body = u)
        /\ verdicts[u] = IF status[u] \in {"acked", "failed"} THEN 1 ELSE 0

(* Sequence numbers are fresh until the sender's next cold boot: neither    *)
(* deep sleep nor a refused sendUdp makes allocSeq repeat one.              *)
FreshSeq ==
    \A l, m \in log : SameKey(l, m) /\ l.cycle = m.cycle => l = m

(* The application always hears of a reliable message: retries are finite   *)
(* and the pump ends in a success, a failure or a restart.                  *)
Resolved == \A u \in Body : status[u] = "pending" ~> status[u] # "pending"

-----------------------------------------------------------------------------
(* Why AckedMeansAccepted holds: an ACK, and before it an entry of the      *)
(* duplicate window, is the trace of a dispatch under the same key; copies  *)
(* in the mesh and pending entries carry what the log says was sent.        *)

\* Receiver n dispatched a message that came from origin under seq.
KeyAccepted(n, origin, seq) ==
    \E m \in log : /\ m.origin = origin /\ m.seq = seq
                   /\ Home[m.addr] = n
                   /\ accepted[m.body] > 0

Logged(body, origin, seq, addr) ==
    \E l \in log : /\ l.body = body /\ l.origin = origin
                   /\ l.seq = seq /\ l.addr = addr

SeenAccepted ==
    \A n \in Node : \A e \in seen[n] : KeyAccepted(n, e.origin, e.seq)

AcksAccepted ==
    \A p \in net : p.kind = AckKind => KeyAccepted(Home[p.addr], p.dst, p.seq)

CopiesLogged ==
    \A p \in net : p.kind = ReliableKind =>
        p.dst = Home[p.addr] /\ Logged(p.body, p.origin, p.seq, p.addr)

PendingLogged ==
    \A n \in Node : \A e \in pending[n] :
        e.nextHop = Home[e.addr] /\ Logged(e.body, n, e.seq, e.addr)

SentOnce ==
    /\ \A l \in log : status[l.body] # "unsent"
    /\ \A l, m \in log : l.body = m.body => l = m

AckChain ==
    /\ TypeOK
    /\ SeenAccepted
    /\ AcksAccepted
    /\ CopiesLogged
    /\ PendingLogged
    /\ SentOnce
    /\ AckedMeansAccepted

-----------------------------------------------------------------------------
(* Why the other properties hold.                                           *)

\* Only reliable messages that left are logged or pending, plain messages stay
\* apart from them, and nobody receives what was not sent.
Separate ==
    /\ \A l \in log : status[l.body] \notin {"unsent", "refused", "plain"}
    /\ \A p \in net : p.kind = PlainKind => p.body \in Body /\ status[p.body] = "plain"
    /\ \A u \in Body : status[u] = "unsent" => accepted[u] = 0

\* The table has one entry per number, each of a message without a verdict.
PendingTracked ==
    \A n \in Node : \A e \in pending[n] :
        /\ status[e.body] = "pending"
        /\ \A f \in pending[n] : e.seq = f.seq => e = f

VerdictsCounted ==
    \A u \in Body :
        verdicts[u] = IF status[u] \in {"acked", "failed"} THEN 1 ELSE 0

\* The window of the receiver of l will know its key for `span` more ticks.
KnownFor(l, span) ==
    \E k \in seen[Home[l.addr]] : SameKey(k, l) /\ k.age + span <= SeenTtl

\* Ticks until the last copy that entry e can still send has left the mesh.
CopiesFor(e) ==
    (e.due - RetryInterval) + e.retriesLeft * (RetryInterval + MaxLag) + MaxDelay

\* A key is kept for longer than any copy of its message lives.
WindowOutlasts ==
    \A l \in log : accepted[l.body] > 0 /\ l.body \notin forgotten =>
        /\ \A p \in net :
              p.kind = ReliableKind /\ p.body = l.body => KnownFor(l, p.life)
        /\ \A n \in Node : \A e \in pending[n] :
              e.body = l.body /\ e.retriesLeft > 0 => KnownFor(l, CopiesFor(e))

DeliveryInv ==
    /\ AckChain
    /\ Separate
    /\ PendingTracked
    /\ VerdictsCounted
    /\ WindowOutlasts
    /\ AtMostOnce

\* No pending entry lost its place in the table to a later message.
PendingListed ==
    \A l \in log : status[l.body] = "pending" =>
        /\ l.cycle = cycles[l.origin]
        /\ \E e \in pending[l.origin] : e.body = l.body

\* Allocations made since number s was taken, the counter being at t now.
Since(s, t) == IF s <= t THEN t - s ELSE (t - s) + (SeqMod - 1)

Submitted == {u \in Body : status[u] # "unsent"}

\* The counter has not come round to a number of its current cycle.
CounterAhead ==
    \A l \in log :
        /\ l.cycle <= cycles[l.origin]
        /\ l.cycle = cycles[l.origin] =>
              /\ seqValid[l.origin] /\ nextSeq[l.origin] # NoSeq
              /\ Since(l.seq, nextSeq[l.origin]) < Cardinality(Submitted)

\* No sender has used a number twice: no wrap, no cold start on a used number.
KeysUnique == \A l, m \in log : SameKey(l, m) => l = m

=============================================================================
