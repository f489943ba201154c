--------------------------- MODULE Reliable_proofs ---------------------------
(***************************************************************************)
(* Lemmas about the operators and action fragments of Reliable: each keeps *)
(* the types, and what each does to the keys of the duplicate window.  The *)
(* proofs about the modules that compose Reliable cite them by name.       *)
(***************************************************************************)
EXTENDS Reliable, FiniteSetTheorems, TLAPS

-----------------------------------------------------------------------------
(* Sequence numbers.                                                        *)

(* ++ on the retained counter, zero skipped: 65535 is followed by 1.        *)
LEMMA BumpValue ==
    ASSUME NEW s \in 0 .. SeqMod - 1
    PROVE  Bump(s) = IF s = SeqMod - 1 THEN 1 ELSE s + 1
<1>1. CASE s = SeqMod - 1
  <2>1. (s + 1) % SeqMod = 0
    BY <1>1, NumbersAssumption
  <2>2. QED
    BY <1>1, <2>1 DEF Bump, SkipZero
<1>2. CASE s # SeqMod - 1
  <2>1. s + 1 \in 0 .. SeqMod - 1
    BY <1>2, NumbersAssumption
  <2>2. (s + 1) % SeqMod = s + 1
    BY <2>1, NumbersAssumption
  <2>3. QED
    BY <1>2, <2>1, <2>2, NumbersAssumption DEF Bump, SkipZero
<1>3. QED
  BY <1>1, <1>2

LEMMA BumpType ==
    ASSUME NEW s \in 0 .. SeqMod - 1
    PROVE  Bump(s) \in Seq
BY BumpValue, NumbersAssumption DEF Seq

(* allocSeq returns a nonzero 16-bit number, retained or from a cold start. *)
LEMMA AllocSeqType ==
    ASSUME ReliableTypeOK, NEW n \in Node, NEW s \in AllocSeq(n)
    PROVE  s \in Seq
<1>1. CASE seqValid[n]
  <2>1. nextSeq[n] \in 0 .. SeqMod - 1
    BY NumbersAssumption DEF ReliableTypeOK, Seq, NoSeq
  <2>2. QED
    BY <1>1, <2>1, BumpType DEF AllocSeq
<1>2. CASE ~seqValid[n]
  <2>1. PICK r \in ColdStarts : s = Bump(SkipZero(r))
    BY <1>2 DEF AllocSeq
  <2>2. SkipZero(r) \in 0 .. SeqMod - 1
    BY NumbersAssumption DEF SkipZero
  <2>3. QED
    BY <2>1, <2>2, BumpType
<1>3. QED
  BY <1>1, <1>2

-----------------------------------------------------------------------------
(* The mesh.                                                                *)

LEMMA BuildPacketType ==
    ASSUME NEW kind \in {PlainKind, ReliableKind, AckKind},
           NEW n \in Node, NEW dst \in Node, NEW seq \in Seq \cup {NoSeq},
           NEW addr \in Addr, NEW body \in Body \cup {NoBody},
           kind = PlainKind <=> seq = NoSeq
    PROVE  BuildPacket(kind, n, dst, seq, addr, body) \in Packet
BY NumbersAssumption DEF BuildPacket, Packet

LEMMA PutType ==
    ASSUME NEW packets \in SUBSET Packet, net \subseteq Packet
    PROVE  Put(packets) \subseteq Packet
BY DEF Put

(* Nothing enters the mesh but what is put there.                           *)
LEMMA PutOrigin ==
    ASSUME NEW packets, NEW p \in Put(packets)
    PROVE  p \in net \/ p \in packets
BY DEF Put

-----------------------------------------------------------------------------
(* The duplicate window.                                                    *)

(* Renumbering keeps entries and their keys; only ranks change.             *)
LEMMA RenumberType ==
    ASSUME NEW E \in SUBSET SeenEntry, IsFiniteSet(E)
    PROVE  /\ Renumber(E) \subseteq SeenEntry
           /\ IsFiniteSet(Renumber(E))
           /\ \A g \in Renumber(E) :
                \E e \in E : g.origin = e.origin /\ g.seq = e.seq /\ g.age = e.age
           /\ \A e \in E :
                \E g \in Renumber(E) :
                    g.origin = e.origin /\ g.seq = e.seq /\ g.age = e.age
<1> DEFINE Rank(e) == Cardinality({f \in E : f.rank <= e.rank})
           New(e) == [e EXCEPT !.rank = Rank(e)]
<1>1. ASSUME NEW e \in E
      PROVE  Rank(e) \in Nat
  <2>1. {f \in E : f.rank <= e.rank} \in SUBSET E
    OBVIOUS
  <2>2. IsFiniteSet({f \in E : f.rank <= e.rank})
    BY <2>1, FS_Subset
  <2>3. QED
    BY <2>2, FS_CardinalityType
<1> HIDE DEF Rank
<1>2. ASSUME NEW e \in E
      PROVE  /\ New(e) \in SeenEntry
             /\ New(e).origin = e.origin /\ New(e).seq = e.seq
             /\ New(e).age = e.age
  BY <1>1 DEF SeenEntry
<1>3. Renumber(E) = {New(e) : e \in E}
  BY DEF Renumber, Rank
<1> HIDE DEF New
<1>4. IsFiniteSet(Renumber(E))
  <2> DEFINE F == [e \in E |-> New(e)]
  <2>1. F \in Surjection(E, Renumber(E))
    BY <1>3 DEF Surjection
  <2>2. QED
    BY <2>1, FS_Surjection
<1>5. QED
  BY <1>2, <1>3, <1>4

(* wasSeenAndMark keeps the window a finite set of entries.                 *)
LEMMA MarkSeenType ==
    ASSUME ReliableTypeOK, NEW p \in Packet, p.seq \in Seq
    PROVE  /\ MarkSeen(p) \subseteq SeenEntry
           /\ IsFiniteSet(MarkSeen(p))
<1> DEFINE window == seen[p.dst]
<1>1. /\ p.dst \in Node /\ p.origin \in Node
      /\ window \in SUBSET SeenEntry /\ IsFiniteSet(window)
  BY DEF ReliableTypeOK, Packet
<1>2. CASE WasSeen(p)
  <2> DEFINE Stamp(e) == IF SameKey(e, p) THEN [e EXCEPT !.age = 0] ELSE e
             F == [e \in window |-> Stamp(e)]
  <2>1. MarkSeen(p) = {Stamp(e) : e \in window}
    BY <1>2 DEF MarkSeen
  <2>2. ASSUME NEW e \in window
        PROVE  Stamp(e) \in SeenEntry
    BY <1>1, NumbersAssumption DEF SeenEntry
  <2> HIDE DEF Stamp
  <2>3. F \in Surjection(window, MarkSeen(p))
    BY <2>1 DEF Surjection
  <2>4. QED
    BY <1>1, <2>1, <2>2, <2>3, FS_Surjection
<1>3. CASE ~WasSeen(p)
  <2> DEFINE kept == Renumber(window \ Evicted(p.dst))
             entry == [origin |-> p.origin, seq |-> p.seq, age |-> 0,
                       rank |-> Cardinality(kept) + 1]
  <2>1. window \ Evicted(p.dst) \in SUBSET window
    OBVIOUS
  <2>2. IsFiniteSet(window \ Evicted(p.dst))
    BY <1>1, <2>1, FS_Subset
  <2>3. kept \subseteq SeenEntry /\ IsFiniteSet(kept)
    BY <1>1, <2>1, <2>2, RenumberType
  <2> HIDE DEF kept
  <2>4. Cardinality(kept) \in Nat
    BY <2>3, FS_CardinalityType
  <2>5. entry \in SeenEntry
    BY <1>1, <2>4, NumbersAssumption DEF SeenEntry
  <2>6. MarkSeen(p) = kept \cup {entry}
    BY <1>3 DEF MarkSeen, kept
  <2> HIDE DEF entry
  <2>7. QED
    BY <2>3, <2>5, <2>6, FS_AddElement
<1>4. QED
  BY <1>2, <1>3

(* The window knows no key but those it knew and the packet's own.          *)
LEMMA MarkSeenKeys ==
    ASSUME ReliableTypeOK, NEW p \in Packet, NEW g \in MarkSeen(p)
    PROVE  \/ g.origin = p.origin /\ g.seq = p.seq
           \/ \E e \in seen[p.dst] : g.origin = e.origin /\ g.seq = e.seq
<1>1. /\ p.dst \in Node
      /\ seen[p.dst] \in SUBSET SeenEntry /\ IsFiniteSet(seen[p.dst])
  BY DEF ReliableTypeOK, Packet
<1>2. CASE WasSeen(p)
  BY <1>1, <1>2 DEF MarkSeen, SeenEntry
<1>3. CASE ~WasSeen(p)
  <2>1. seen[p.dst] \ Evicted(p.dst) \in SUBSET seen[p.dst]
    OBVIOUS
  <2>2. IsFiniteSet(seen[p.dst] \ Evicted(p.dst))
    BY <1>1, <2>1, FS_Subset
  <2>3. \A h \in Renumber(seen[p.dst] \ Evicted(p.dst)) :
            \E e \in seen[p.dst] : h.origin = e.origin /\ h.seq = e.seq
    BY <1>1, <2>1, <2>2, RenumberType
  <2>4. QED
    BY <1>3, <2>3 DEF MarkSeen
<1>4. QED
  BY <1>2, <1>3

(* Trimming the window by age invents no key.                               *)
LEMMA TrimmedType ==
    ASSUME ReliableTypeOK, NEW n \in Node
    PROVE  /\ Trimmed(n) \subseteq SeenEntry
           /\ IsFiniteSet(Trimmed(n))
           /\ \A g \in Trimmed(n) :
                \E e \in seen[n] : g.origin = e.origin /\ g.seq = e.seq
<1> DEFINE fresh == {e \in seen[n] : e.age <= SeenTtl}
<1>1. seen[n] \in SUBSET SeenEntry /\ IsFiniteSet(seen[n])
  BY DEF ReliableTypeOK
<1>2. fresh \in SUBSET seen[n]
  OBVIOUS
<1>3. fresh \in SUBSET SeenEntry /\ IsFiniteSet(fresh)
  BY <1>1, <1>2, FS_Subset
<1>4. Trimmed(n) = Renumber(fresh)
  BY DEF Trimmed
<1> HIDE DEF fresh
<1>5. /\ Trimmed(n) \subseteq SeenEntry
      /\ IsFiniteSet(Trimmed(n))
      /\ \A g \in Trimmed(n) :
            \E e \in fresh : g.origin = e.origin /\ g.seq = e.seq
  BY <1>3, <1>4, RenumberType
<1>6. QED
  BY <1>2, <1>5

(* Recognising a packet forgets no key but those evicted for a new one, and *)
(* makes none older.                                                        *)
LEMMA MarkSeenKeeps ==
    ASSUME ReliableTypeOK, NEW p \in Packet, NEW e \in seen[p.dst],
           WasSeen(p) \/ e \notin Evicted(p.dst)
    PROVE  \E g \in MarkSeen(p) :
             g.origin = e.origin /\ g.seq = e.seq /\ g.age <= e.age
<1>1. /\ p.dst \in Node
      /\ seen[p.dst] \in SUBSET SeenEntry /\ IsFiniteSet(seen[p.dst])
      /\ e \in SeenEntry
  BY DEF ReliableTypeOK, Packet
<1>2. e.age \in Nat
  BY <1>1, NumbersAssumption DEF SeenEntry
<1>3. CASE WasSeen(p)
  <2> DEFINE Stamp(k) == IF SameKey(k, p) THEN [k EXCEPT !.age = 0] ELSE k
  <2>1. Stamp(e) \in MarkSeen(p)
    BY <1>3 DEF MarkSeen
  <2>2. /\ Stamp(e).origin = e.origin /\ Stamp(e).seq = e.seq
        /\ Stamp(e).age = 0 \/ Stamp(e).age = e.age
    BY <1>1 DEF SeenEntry
  <2> HIDE DEF Stamp
  <2>3. QED
    BY <1>2, <2>1, <2>2
<1>4. CASE ~WasSeen(p)
  <2>1. seen[p.dst] \ Evicted(p.dst) \in SUBSET seen[p.dst]
    OBVIOUS
  <2>2. IsFiniteSet(seen[p.dst] \ Evicted(p.dst))
    BY <1>1, <2>1, FS_Subset
  <2>3. \E g \in Renumber(seen[p.dst] \ Evicted(p.dst)) :
            g.origin = e.origin /\ g.seq = e.seq /\ g.age = e.age
    BY <1>1, <1>4, <2>1, <2>2, RenumberType
  <2>4. QED
    BY <1>2, <1>4, <2>3 DEF MarkSeen
<1>5. QED
  BY <1>3, <1>4

(* The key of a packet that has just arrived is in the window, stamped.     *)
LEMMA MarkSeenStamps ==
    ASSUME ReliableTypeOK, NEW p \in Packet
    PROVE  \E g \in MarkSeen(p) :
             g.origin = p.origin /\ g.seq = p.seq /\ g.age = 0
<1>1. p.dst \in Node /\ seen[p.dst] \in SUBSET SeenEntry
  BY DEF ReliableTypeOK, Packet
<1>2. CASE WasSeen(p)
  <2>1. PICK k \in seen[p.dst] : k.origin = p.origin /\ k.seq = p.seq
    BY <1>2 DEF WasSeen, SameKey
  <2>2. [k EXCEPT !.age = 0] \in MarkSeen(p)
    BY <1>2, <2>1 DEF MarkSeen, SameKey
  <2>3. QED
    BY <1>1, <2>1, <2>2 DEF SeenEntry
<1>3. CASE ~WasSeen(p)
  <2> DEFINE kept == Renumber(seen[p.dst] \ Evicted(p.dst))
             entry == [origin |-> p.origin, seq |-> p.seq, age |-> 0,
                       rank |-> Cardinality(kept) + 1]
  <2>1. entry \in MarkSeen(p)
    BY <1>3 DEF MarkSeen
  <2>2. entry.origin = p.origin /\ entry.seq = p.seq /\ entry.age = 0
    OBVIOUS
  <2> HIDE DEF entry
  <2>3. QED
    BY <2>1, <2>2
<1>4. QED
  BY <1>2, <1>3

(* Trimming keeps every key that is young enough.                           *)
LEMMA TrimmedKeeps ==
    ASSUME ReliableTypeOK, NEW n \in Node, NEW e \in seen[n], e.age <= SeenTtl
    PROVE  \E g \in Trimmed(n) :
             g.origin = e.origin /\ g.seq = e.seq /\ g.age = e.age
<1> DEFINE fresh == {k \in seen[n] : k.age <= SeenTtl}
<1>1. seen[n] \in SUBSET SeenEntry /\ IsFiniteSet(seen[n])
  BY DEF ReliableTypeOK
<1>2. fresh \in SUBSET seen[n] /\ e \in fresh
  OBVIOUS
<1>3. fresh \in SUBSET SeenEntry /\ IsFiniteSet(fresh)
  BY <1>1, <1>2, FS_Subset
<1>4. Trimmed(n) = Renumber(fresh)
  BY DEF Trimmed
<1> HIDE DEF fresh
<1>5. QED
  BY <1>2, <1>3, <1>4, RenumberType

-----------------------------------------------------------------------------
(* Every fragment of a step keeps the types.                                *)

LEMMA InitType == ReliableInit => ReliableTypeOK
<1> SUFFICES ASSUME ReliableInit PROVE ReliableTypeOK
  OBVIOUS
<1>1. IsFiniteSet({})
  BY FS_EmptySet
<1>2. QED
  BY <1>1, NumbersAssumption DEF ReliableInit, ReliableTypeOK, NoSeq

LEMMA SendReliableType ==
    ASSUME ReliableTypeOK, NEW n \in Node, NEW hop \in Node, NEW addr \in Addr,
           NEW body \in Body, NEW seq, NEW sent,
           SendReliable(n, hop, addr, body, seq, sent)
    PROVE  ReliableTypeOK'
<1>1. seq \in Seq
  BY AllocSeqType DEF SendReliable
<1>2. nextSeq' \in [Node -> Seq \cup {NoSeq}] /\ seqValid' \in [Node -> BOOLEAN]
  BY <1>1 DEF SendReliable, RetainSeq, ReliableTypeOK
<1>3. NewPending(seq, hop, addr, body) \in PendingEntry
  BY <1>1, NumbersAssumption DEF NewPending, PendingEntry
<1>4. pending' \in [Node -> SUBSET PendingEntry]
  BY <1>3 DEF SendReliable, StorePending, ReliableTypeOK
<1>5. net' \subseteq Packet
  <2>1. BuildPacket(ReliableKind, n, hop, seq, addr, body) \in Packet
    BY <1>1, BuildPacketType DEF ReliableKind, PlainKind, Seq, NoSeq
  <2>2. Put({BuildPacket(ReliableKind, n, hop, seq, addr, body)}) \subseteq Packet
    BY <2>1, PutType DEF ReliableTypeOK
  <2>3. QED
    BY <2>2 DEF SendReliable, ReliableTypeOK
<1>6. QED
  BY <1>2, <1>4, <1>5 DEF SendReliable, ReliableTypeOK

LEMMA SendPlainType ==
    ASSUME ReliableTypeOK, NEW n \in Node, NEW hop \in Node, NEW addr \in Addr,
           NEW body \in Body, NEW sent, SendPlain(n, hop, addr, body, sent)
    PROVE  ReliableTypeOK'
<1>1. BuildPacket(PlainKind, n, hop, NoSeq, addr, body) \in Packet
  BY BuildPacketType DEF PlainKind, NoSeq
<1>2. Put({BuildPacket(PlainKind, n, hop, NoSeq, addr, body)}) \subseteq Packet
  BY <1>1, PutType DEF ReliableTypeOK
<1>3. QED
  BY <1>2 DEF SendPlain, ReliableTypeOK

LEMMA HandleAckPacketType ==
    ASSUME ReliableTypeOK, NEW p \in Packet, HandleAckPacket(p)
    PROVE  ReliableTypeOK'
BY DEF HandleAckPacket, ReliableTypeOK, Packet

LEMMA HandleReliablePacketType ==
    ASSUME ReliableTypeOK, NEW p \in Packet, p.seq \in Seq,
           HandleReliablePacket(p)
    PROVE  ReliableTypeOK'
<1>1. /\ p.dst \in Node /\ p.origin \in Node /\ p.addr \in Addr
  BY DEF Packet
<1>2. /\ seen' \in [Node -> SUBSET SeenEntry]
      /\ \A n \in Node : IsFiniteSet(seen'[n])
  BY <1>1, MarkSeenType DEF HandleReliablePacket, ReliableTypeOK
<1>3. BuildPacket(AckKind, p.dst, p.origin, p.seq, p.addr, NoBody) \in Packet
  BY <1>1, BuildPacketType DEF AckKind, PlainKind, Seq, NoSeq
<1>4. net' \subseteq Packet
  BY <1>3, PutType DEF HandleReliablePacket, ReliableTypeOK
<1>5. QED
  BY <1>2, <1>4 DEF HandleReliablePacket, ReliableTypeOK

LEMMA PumpReliableType ==
    ASSUME ReliableTypeOK, NEW n \in Node, PumpReliable(n)
    PROVE  ReliableTypeOK'
<1>1. ASSUME NEW e \in Resent(n)
      PROVE  e \in PendingEntry /\ AfterResend(e) \in PendingEntry
  <2>1. e \in PendingEntry /\ e.retriesLeft # 0
    BY DEF Resent, Exhausted, Due, ReliableTypeOK
  <2>2. /\ e.retriesLeft - 1 \in 0 .. MaxRetries
        /\ RetryInterval \in -MaxLag .. RetryInterval
    BY <2>1, NumbersAssumption DEF PendingEntry
  <2>3. AfterResend(e) \in PendingEntry
    BY <2>1, <2>2 DEF AfterResend, PendingEntry
  <2>4. QED
    BY <2>1, <2>3
<1>2. pending' \in [Node -> SUBSET PendingEntry]
  BY <1>1 DEF PumpReliable, ReliableTypeOK
<1> DEFINE Copy(e) ==
      BuildPacket(ReliableKind, n, e.nextHop, e.seq, e.addr, e.body)
<1>3. ASSUME NEW e \in Resent(n)
      PROVE  Copy(e) \in Packet
  <2>1. /\ e.nextHop \in Node /\ e.seq \in Seq /\ e.addr \in Addr /\ e.body \in Body
    BY <1>1 DEF PendingEntry
  <2>2. QED
    BY <2>1, BuildPacketType DEF ReliableKind, PlainKind, Seq, NoSeq
<1>4. net' = Put({Copy(e) : e \in Resent(n)})
  BY DEF PumpReliable
<1> HIDE DEF Copy
<1>5. net' \subseteq Packet
  BY <1>3, <1>4, PutType DEF ReliableTypeOK
<1>6. /\ seen' \in [Node -> SUBSET SeenEntry]
      /\ \A m \in Node : IsFiniteSet(seen'[m])
  BY TrimmedType DEF PumpReliable, ReliableTypeOK
<1>7. QED
  BY <1>2, <1>5, <1>6 DEF PumpReliable, ReliableTypeOK

LEMMA ReliableTickType ==
    ASSUME ReliableTypeOK, ReliableTick
    PROVE  ReliableTypeOK'
<1>1. ASSUME NEW n \in Node, NEW e \in pending[n]
      PROVE  [e EXCEPT !.due = @ - 1] \in PendingEntry
  <2>1. e \in PendingEntry /\ e.due > -MaxLag
    BY DEF ReliableTypeOK, ReliableTick
  <2>2. e.due - 1 \in -MaxLag .. RetryInterval
    BY <2>1, NumbersAssumption DEF PendingEntry
  <2>3. QED
    BY <2>1, <2>2 DEF PendingEntry
<1>2. pending' \in [Node -> SUBSET PendingEntry]
  BY <1>1 DEF ReliableTick
<1> DEFINE Older(e) == [e EXCEPT !.age = @ + 1]
<1>3. ASSUME NEW n \in Node, NEW e \in seen[n]
      PROVE  Older(e) \in SeenEntry
  <2>1. e \in SeenEntry /\ e.age <= SeenTtl + MaxLag
    BY DEF ReliableTypeOK, ReliableTick
  <2>2. e.age + 1 \in 0 .. SeenTtl + 1 + MaxLag
    BY <2>1, NumbersAssumption DEF SeenEntry
  <2>3. QED
    BY <2>1, <2>2 DEF SeenEntry
<1>4. seen' = [n \in Node |-> {Older(e) : e \in seen[n]}]
  BY DEF ReliableTick
<1> HIDE DEF Older
<1>5. seen' \in [Node -> SUBSET SeenEntry]
  BY <1>3, <1>4
<1>6. ASSUME NEW n \in Node
      PROVE  IsFiniteSet(seen'[n])
  <2> DEFINE F == [e \in seen[n] |-> Older(e)]
  <2>1. F \in Surjection(seen[n], seen'[n])
    BY <1>4 DEF Surjection
  <2>2. IsFiniteSet(seen[n])
    BY DEF ReliableTypeOK
  <2>3. QED
    BY <2>1, <2>2, FS_Surjection
<1>7. ASSUME NEW q \in net, q.life > 0
      PROVE  [q EXCEPT !.life = @ - 1] \in Packet
  <2>1. q \in Packet
    BY DEF ReliableTypeOK
  <2>2. q.life - 1 \in 0 .. MaxDelay
    BY <1>7, <2>1, NumbersAssumption DEF Packet
  <2>3. QED
    BY <2>1, <2>2 DEF Packet
<1>8. net' \subseteq Packet
  BY <1>7 DEF ReliableTick
<1>9. QED
  BY <1>2, <1>5, <1>6, <1>8 DEF ReliableTick, ReliableTypeOK

LEMMA WipeRamType ==
    ASSUME ReliableTypeOK, NEW n \in Node, WakeFromSleep(n) \/ ColdBoot(n)
    PROVE  ReliableTypeOK'
<1>1. IsFiniteSet({})
  BY FS_EmptySet
<1>2. /\ pending' \in [Node -> SUBSET PendingEntry]
      /\ seen' \in [Node -> SUBSET SeenEntry]
      /\ \A m \in Node : IsFiniteSet(seen'[m])
      /\ net' = net
  BY <1>1 DEF WakeFromSleep, ColdBoot, WipeRam, ReliableTypeOK
<1>3. seqValid' \in [Node -> BOOLEAN] /\ nextSeq' \in [Node -> Seq \cup {NoSeq}]
  BY DEF WakeFromSleep, ColdBoot, ReliableTypeOK
<1>4. QED
  BY <1>2, <1>3 DEF ReliableTypeOK

=============================================================================
