------------------------------ MODULE Reliable ------------------------------
(***************************************************************************)
(* The reliable-delivery layer of Beeton: sequence numbers kept in RTC     *)
(* memory, the table of packets awaiting an acknowledgement, the window    *)
(* that recognises duplicates, and the retry pump (core.cpp, util.cpp).    *)
(*                                                                         *)
(* The layer has no specification of its own.  ReliableDelivery composes   *)
(* it with applications that send straight to the owner of an address, and *)
(* Routing with the leader and joiner strategy.  A node is one running     *)
(* sketch and is named by its mesh address, which is also the origin field *)
(* of the packets it builds.                                               *)
(*                                                                         *)
(* Time.  millis() is modelled by countdowns: `due` is the time left until *)
(* nextDueMs (negative once it has passed), `age` the time since a dedupe  *)
(* entry was stamped.  Tick lets one unit pass.                            *)
(***************************************************************************)
EXTENDS Integers, FiniteSets

CONSTANTS
    Node,          \* mesh addresses of the devices
    Addr,          \* (thing, id, action) triples, what an ACK is matched on
    Body,          \* payloads
    NoBody,        \* the empty payload of an ACK
    SeqMod,        \* 2^16: sequence numbers are 1 .. SeqMod - 1
    ColdStarts,    \* what esp_random() may return, cut to 16 bits
    MaxRetries,    \* BEETON_MAX_RETRIES
    RetryInterval, \* BEETON_RETRY_INTERVAL_MS, in ticks
    SeenTtl,       \* BEETON_SEEN_PACKET_TTL_MS, in ticks
    SeenMax,       \* BEETON_SEEN_PACKET_MAX
    MaxDelay,      \* longest time the mesh holds a datagram, in ticks
    MaxLag         \* longest time loop() keeps a due update() waiting, in ticks

ASSUME NumbersAssumption ==
    /\ SeqMod \in Nat /\ SeqMod > 2
    /\ ColdStarts \subseteq 0 .. SeqMod - 1
    /\ MaxRetries \in Nat
    /\ RetryInterval \in Nat \ {0}
    /\ SeenTtl \in Nat
    /\ SeenMax \in Nat \ {0}
    /\ MaxDelay \in Nat
    /\ MaxLag \in Nat

ASSUME NoBodyAssumption == NoBody \notin Body

VARIABLES
    pending,  \* pending[n]: packets of n awaiting an ACK, one per seq
    seen,     \* seen[n]: the duplicate window of n; rank is the vector index
    seqValid, \* seqValid[n]: retainedSeqMagic = SEQ_MAGIC
    nextSeq,  \* nextSeq[n]: retainedNextSeq
    net       \* datagrams in the mesh

reliableVars == <<pending, seen, seqValid, nextSeq, net>>

-----------------------------------------------------------------------------

Seq == 1 .. SeqMod - 1
NoSeq == 0
PlainKind == "plain"
ReliableKind == "reliable"
AckKind == "ack"

PendingEntry ==
    [seq : Seq, nextHop : Node, addr : Addr, body : Body,
     due : -MaxLag .. RetryInterval, retriesLeft : 0 .. MaxRetries]

SeenEntry == [origin : Node, seq : Seq, age : 0 .. SeenTtl + 1 + MaxLag,
              rank : Nat]

\* `dst` is the address given to sendUdp; `life` is what is left of MaxDelay.
\* Only a plain packet has no sequence number.
Packet ==
    {p \in [kind : {PlainKind, ReliableKind, AckKind}, origin : Node,
            dst : Node, seq : Seq \cup {NoSeq}, addr : Addr,
            body : Body \cup {NoBody}, life : 0 .. MaxDelay] :
        p.kind = PlainKind <=> p.seq = NoSeq}

ReliableTypeOK ==
    /\ pending \in [Node -> SUBSET PendingEntry]
    /\ seen \in [Node -> SUBSET SeenEntry]
    /\ \A n \in Node : IsFiniteSet(seen[n])
    /\ seqValid \in [Node -> BOOLEAN]
    /\ nextSeq \in [Node -> Seq \cup {NoSeq}]
    /\ net \subseteq Packet

ReliableInit ==
    /\ pending = [n \in Node |-> {}]
    /\ seen = [n \in Node |-> {}]
    /\ seqValid = [n \in Node |-> FALSE]
    /\ nextSeq = [n \in Node |-> NoSeq]
    /\ net = {}

-----------------------------------------------------------------------------
(* The mesh.  Delivering a datagram leaves it in the mesh, so it may arrive *)
(* again and in any order until its life is over; one that is never picked  *)
(* up is lost.  A fresh copy of a datagram supersedes an older one.         *)

SameDatagram(p, q) == [p EXCEPT !.life = 0] = [q EXCEPT !.life = 0]

Put(packets) ==
    {q \in net : \A p \in packets : ~SameDatagram(p, q)} \cup packets

BuildPacket(kind, n, dst, seq, addr, body) ==
    [kind |-> kind, origin |-> n, dst |-> dst, seq |-> seq, addr |-> addr,
     body |-> body, life |-> MaxDelay]

-----------------------------------------------------------------------------
(* Sequence numbers: 16 bits, zero means "none", cold boots start anywhere. *)

SkipZero(s) == IF s = 0 THEN 1 ELSE s

\* Mutant of Bump: the counter wraps to zero.
Bump_ThroughZero(s) == (s + 1) % SeqMod

\* ++retainedNextSeq on a uint16_t, skipping zero.
Bump(s) == SkipZero((s + 1) % SeqMod)

\* What allocSeq can return: one value, or any after a cold boot.
AllocSeq(n) ==
    IF seqValid[n]
    THEN {Bump(nextSeq[n])}
    ELSE {Bump(SkipZero(r)) : r \in ColdStarts}

RetainSeq(n, seq) ==
    /\ seqValid' = [seqValid EXCEPT ![n] = TRUE]
    /\ nextSeq' = [nextSeq EXCEPT ![n] = seq]

-----------------------------------------------------------------------------
(* Sending.  The sequence number is taken before sendUdp is tried, and is   *)
(* spent when sendUdp refuses the datagram.                                 *)

NewPending(seq, hop, addr, body) ==
    [seq |-> seq, nextHop |-> hop, addr |-> addr, body |-> body,
     due |-> RetryInterval, retriesLeft |-> MaxRetries]

\* pending[seq] = ...: an entry under the same sequence number is replaced.
StorePending(n, entry) ==
    [pending EXCEPT ![n] = {e \in @ : e.seq # entry.seq} \cup {entry}]

SendReliable(n, hop, addr, body, seq, sent) ==
    /\ seq \in AllocSeq(n)
    /\ RetainSeq(n, seq)
    /\ IF sent
       THEN /\ pending' = StorePending(n, NewPending(seq, hop, addr, body))
            /\ net' = Put({BuildPacket(ReliableKind, n, hop, seq, addr, body)})
       ELSE UNCHANGED <<pending, net>>
    /\ UNCHANGED seen

SendPlain(n, hop, addr, body, sent) ==
    /\ net' = IF sent
              THEN Put({BuildPacket(PlainKind, n, hop, NoSeq, addr, body)})
              ELSE net
    /\ UNCHANGED <<pending, seen, seqValid, nextSeq>>

-----------------------------------------------------------------------------
(* Receiving.                                                               *)

\* The entry an ACK completes: same sequence number, thing, id and action.
AckMatches(p) ==
    {e \in pending[p.dst] : e.seq = p.seq /\ e.addr = p.addr}

\* Mutant of HandleAckPacket: the completed entry is not erased.
HandleAckPacket_Kept(p) == UNCHANGED reliableVars

HandleAckPacket(p) ==
    /\ pending' = [pending EXCEPT ![p.dst] = @ \ AckMatches(p)]
    /\ UNCHANGED <<seen, seqValid, nextSeq, net>>

SameKey(e, p) == e.origin = p.origin /\ e.seq = p.seq

\* Mutant of WasSeen: the sequence number is not compared.
WasSeen_ByOrigin(p) == \E e \in seen[p.dst] : e.origin = p.origin

WasSeen(p) == \E e \in seen[p.dst] : SameKey(e, p)

\* The vector order of the window, as consecutive ranks.
Renumber(E) ==
    {[e EXCEPT !.rank = Cardinality({f \in E : f.rank <= e.rank})] : e \in E}

\* seen.erase(seen.begin()) when the window is full.
Evicted(n) ==
    IF Cardinality(seen[n]) >= SeenMax
    THEN {e \in seen[n] : \A f \in seen[n] : e.rank <= f.rank}
    ELSE {}

\* Mutant of MarkSeen: a key is erased by its first duplicate.
MarkSeen_OneShot(p) ==
    IF WasSeen(p)
    THEN Renumber({e \in seen[p.dst] : ~SameKey(e, p)})
    ELSE LET kept == Renumber(seen[p.dst] \ Evicted(p.dst))
         IN  kept \cup {[origin |-> p.origin, seq |-> p.seq, age |-> 0,
                         rank |-> Cardinality(kept) + 1]}

\* Duplicates are stamped afresh in place, new keys go to the back.
MarkSeen(p) ==
    IF WasSeen(p)
    THEN {IF SameKey(e, p) THEN [e EXCEPT !.age = 0] ELSE e : e \in seen[p.dst]}
    ELSE LET kept == Renumber(seen[p.dst] \ Evicted(p.dst))
         IN  kept \cup {[origin |-> p.origin, seq |-> p.seq, age |-> 0,
                         rank |-> Cardinality(kept) + 1]}

\* A reliable packet is acknowledged to its origin whether new or duplicate.
HandleReliablePacket(p) ==
    /\ seen' = [seen EXCEPT ![p.dst] = MarkSeen(p)]
    /\ net' = Put({BuildPacket(AckKind, p.dst, p.origin, p.seq, p.addr, NoBody)})
    /\ UNCHANGED <<pending, seqValid, nextSeq>>

-----------------------------------------------------------------------------
(* The pump: resend what is due, give up on what has no retries left, trim  *)
(* the duplicate window.                                                    *)

Due(n) == {e \in pending[n] : e.due <= 0}
Exhausted(n) == {e \in Due(n) : e.retriesLeft = 0}
Resent(n) == Due(n) \ Exhausted(n)

\* Mutant of AfterResend: the retries are not counted.
AfterResend_Endless(e) == [e EXCEPT !.due = RetryInterval]

AfterResend(e) ==
    [e EXCEPT !.retriesLeft = @ - 1, !.due = RetryInterval]

\* Mutant of Trimmed: the window is trimmed by the retry interval.
Trimmed_TooSoon(n) == Renumber({e \in seen[n] : e.age <= RetryInterval})

Trimmed(n) == Renumber({e \in seen[n] : e.age <= SeenTtl})

\* Mutant of PumpReliable: entries that failed are not erased.
PumpReliable_NoErase(n) ==
    /\ pending' = [pending EXCEPT ![n] =
                     (@ \ Resent(n)) \cup {AfterResend(e) : e \in Resent(n)}]
    /\ net' = Put({BuildPacket(ReliableKind, n, e.nextHop, e.seq, e.addr, e.body)
                     : e \in Resent(n)})
    /\ seen' = [seen EXCEPT ![n] = Trimmed(n)]
    /\ UNCHANGED <<seqValid, nextSeq>>

PumpReliable(n) ==
    /\ pending' = [pending EXCEPT ![n] =
                     (@ \ Due(n)) \cup {AfterResend(e) : e \in Resent(n)}]
    /\ net' = Put({BuildPacket(ReliableKind, n, e.nextHop, e.seq, e.addr, e.body)
                     : e \in Resent(n)})
    /\ seen' = [seen EXCEPT ![n] = Trimmed(n)]
    /\ UNCHANGED <<seqValid, nextSeq>>

-----------------------------------------------------------------------------
(* Time and restarts.                                                       *)

\* No node is kept from update() for more than MaxLag once it has work to do.
ReliableTick ==
    /\ \A n \in Node : /\ \A e \in pending[n] : e.due > -MaxLag
                      /\ \A e \in seen[n] : e.age <= SeenTtl + MaxLag
    /\ pending' = [n \in Node |-> {[e EXCEPT !.due = @ - 1] : e \in pending[n]}]
    /\ seen' = [n \in Node |-> {[e EXCEPT !.age = @ + 1] : e \in seen[n]}]
    /\ net' = {[p EXCEPT !.life = @ - 1] : p \in {q \in net : q.life > 0}}
    /\ UNCHANGED <<seqValid, nextSeq>>

WipeRam(n) ==
    /\ pending' = [pending EXCEPT ![n] = {}]
    /\ seen' = [seen EXCEPT ![n] = {}]
    /\ UNCHANGED net

\* Mutant of WakeFromSleep: the counter is in RAM that sleep does not retain.
WakeFromSleep_NotRetained(n) ==
    /\ WipeRam(n)
    /\ seqValid' = [seqValid EXCEPT ![n] = FALSE]
    /\ nextSeq' = [nextSeq EXCEPT ![n] = NoSeq]

\* Waking from deep sleep: RAM starts afresh, RTC memory is retained.
WakeFromSleep(n) ==
    /\ WipeRam(n)
    /\ UNCHANGED <<seqValid, nextSeq>>

\* A cold boot loses RTC memory as well.
ColdBoot(n) ==
    /\ WipeRam(n)
    /\ seqValid' = [seqValid EXCEPT ![n] = FALSE]
    /\ nextSeq' = [nextSeq EXCEPT ![n] = NoSeq]

=============================================================================
