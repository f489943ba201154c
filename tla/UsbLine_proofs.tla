---------------------------- MODULE UsbLine_proofs ----------------------------
(***************************************************************************)
(* What is proved of the command line, for texts of any length that arrive   *)
(* in pieces of any size.  Texts are taken apart by recursion, so the proofs *)
(* are by induction, in the form that a set of numbers that holds 0 and with *)
(* every number the next holds all.                                         *)
(***************************************************************************)
EXTENDS UsbLine, WellFoundedInduction, FiniteSetTheorems, SequenceTheorems, TLAPS

-----------------------------------------------------------------------------
(* Induction.                                                               *)

(* Of the numbers that a set leaves out, one would be the least.            *)
LEMMA Counting ==
    ASSUME NEW S, 0 \in S, \A n \in Nat : n \in S => n + 1 \in S
    PROVE  Nat \subseteq S
<1> DEFINE R == OpToRel(<, Nat)
           T == Nat \ S
<1>1. SUFFICES ASSUME T # {} PROVE FALSE
  OBVIOUS
<1>2. PICK x \in T : \A y \in T : ~(<<y, x>> \in R)
  <2> HIDE DEF R, T
  <2>1. IsWellFoundedOn(R, Nat)
    BY NatLessThanWellFounded DEF R
  <2>2. T \subseteq Nat
    BY DEF T
  <2>3. QED
    BY <1>1, <2>1, <2>2, WFMin
<1>3. x \in Nat /\ x # 0
  OBVIOUS
<1>4. x - 1 \in T /\ x - 1 < x
  BY <1>3
<1>5. <<x - 1, x>> \in R
  BY <1>3, <1>4 DEF OpToRel
<1>6. QED
  BY <1>2, <1>4, <1>5

(* Two functions that start alike and go on alike are alike.                *)
LEMMA GoOnAlike ==
    ASSUME NEW n \in Nat, NEW f, NEW g, f[0] = g[0],
           \A i \in 1 .. n : f[i - 1] = g[i - 1] => f[i] = g[i]
    PROVE  \A i \in 0 .. n : f[i] = g[i]
<1> DEFINE S == {i \in Nat : i <= n => f[i] = g[i]}
<1>1. 0 \in S
  OBVIOUS
<1>2. ASSUME NEW i \in Nat, i \in S PROVE i + 1 \in S
  <2>1. CASE i + 1 <= n
    <3>1. i + 1 \in 1 .. n /\ (i + 1) - 1 = i /\ f[i] = g[i]
      BY <1>2, <2>1
    <3>2. QED
      BY <3>1
  <2>2. QED
    BY <2>1
<1> HIDE DEF S
<1>3. Nat \subseteq S
  BY <1>1, <1>2, Counting
<1>4. QED
  BY <1>3 DEF S

\* f starts at b, and g takes it from each number to the next, up to n.
IsStep(g, X, n) == g \in [X \X (1 .. n) -> X]
Follows(f, g, X, n, b) ==
    /\ f \in [0 .. n -> X]
    /\ f[0] = b /\ \A i \in 1 .. n : f[i] = g[<<f[i - 1], i>>]

(* What is defined step by step exists.                                     *)
LEMMA Recursion ==
    ASSUME NEW X, NEW n \in Nat, NEW b \in X, NEW g, IsStep(g, X, n)
    PROVE  \E f : Follows(f, g, X, n, b)
<1> DEFINE Grown(f, k) == /\ f \in [0 .. k -> X]
                         /\ f[0] = b /\ \A i \in 1 .. k : f[i] = g[<<f[i - 1], i>>]
           S == {k \in Nat : k <= n => \E f : Grown(f, k)}
<1> USE DEF IsStep
<1>1. 0 \in S
  <2>1. Grown([i \in 0 .. 0 |-> b], 0)
    OBVIOUS
  <2>2. QED
    BY <2>1
<1>2. ASSUME NEW k \in Nat, k \in S PROVE k + 1 \in S
  <2>1. SUFFICES ASSUME k + 1 <= n PROVE \E f : Grown(f, k + 1)
    OBVIOUS
  <2>2. PICK f : Grown(f, k)
    BY <1>2, <2>1
  <2> DEFINE h == [i \in 0 .. k + 1 |-> IF i <= k THEN f[i] ELSE g[<<f[k], k + 1>>]]
  <2>3. f[k] \in X /\ k + 1 \in 1 .. n
    BY <2>1, <2>2
  <2>4. g[<<f[k], k + 1>>] \in X
    BY <2>3
  <2>5. h \in [0 .. k + 1 -> X]
    BY <2>2, <2>4
  <2>6. h[0] = b
    BY <2>2
  <2>7. ASSUME NEW i \in 1 .. k + 1 PROVE h[i] = g[<<h[i - 1], i>>]
    <3>1. i - 1 \in 0 .. k /\ h[i - 1] = f[i - 1]
      OBVIOUS
    <3>2. CASE i <= k
      BY <2>2, <3>1, <3>2
    <3>3. CASE i = k + 1
      BY <3>1, <3>3
    <3>4. QED
      BY <3>2, <3>3
  <2>8. QED
    BY <2>5, <2>6, <2>7
<1> HIDE DEF S
<1>3. Nat \subseteq S
  BY <1>1, <1>2, Counting
<1>4. PICK f : Grown(f, n)
  <2> HIDE DEF Grown
  <2>1. n \in S /\ n <= n
    BY <1>3
  <2>2. QED
    BY <2>1 DEF S
<1>5. QED
  BY <1>4 DEF Follows

-----------------------------------------------------------------------------
(* Answers one after the other.                                             *)

\* The parts up to the i-th, one after the other.
Flattening(f, parts, Y) ==
    /\ f \in [0 .. Len(parts) -> Seq(Y)]
    /\ f[0] = <<>>
    /\ \A i \in 1 .. Len(parts) : f[i] = f[i - 1] \o parts[i]

(* Joining the parts one by one is possible,                                *)
LEMMA FlatteningExists ==
    ASSUME NEW Y, NEW parts \in Seq(Seq(Y))
    PROVE  \E f : Flattening(f, parts, Y)
<1> DEFINE n == Len(parts)
           g == [x \in Seq(Y) \X (1 .. n) |-> x[1] \o parts[x[2]]]
<1>1. n \in Nat /\ \A i \in 1 .. n : parts[i] \in Seq(Y)
  BY LenProperties, ElementOfSeq
<1>2. g \in [Seq(Y) \X (1 .. n) -> Seq(Y)]
  <2>1. ASSUME NEW x \in Seq(Y) \X (1 .. n) PROVE x[1] \o parts[x[2]] \in Seq(Y)
    BY <1>1, ConcatProperties
  <2>2. QED
    BY <2>1
<1>3. <<>> \in Seq(Y)
  BY EmptySeq
<1> DEFINE X == Seq(Y)
           b == <<>>
<1> HIDE DEF n, g
<1>4. PICK f : Follows(f, g, X, n, b)
  <2>1. n \in Nat /\ b \in X /\ IsStep(g, X, n)
    BY <1>1, <1>2, <1>3 DEF IsStep
  <2> HIDE DEF X, b
  <2>2. QED
    BY <2>1, Recursion
<1>5. ASSUME NEW i \in 1 .. n PROVE f[i] = f[i - 1] \o parts[i]
  <2>1. f[i - 1] \in Seq(Y)
    BY <1>1, <1>4 DEF Follows
  <2>2. g[<<f[i - 1], i>>] = f[i - 1] \o parts[i]
    BY <2>1 DEF g
  <2>3. QED
    BY <1>4, <2>2 DEF Follows
<1>6. QED
  BY <1>4, <1>5 DEF Flattening, Follows, n

(* and gives what FlattenSeq does.                                          *)
LEMMA FlatteningIsFlattenSeq ==
    ASSUME NEW Y, NEW parts \in Seq(Seq(Y)), NEW f, Flattening(f, parts, Y)
    PROVE  FlattenSeq(parts) = f[Len(parts)]
<1> DEFINE n == Len(parts)
           Step(h) == [i \in 1 .. n |-> IF i = 1 THEN parts[i] ELSE h[i - 1] \o parts[i]]
           e == [i \in 1 .. n |-> f[i]]
           flat == CHOOSE h : h = Step(h)
<1>1. n \in Nat /\ \A i \in 1 .. n : parts[i] \in Seq(Y)
  BY LenProperties, ElementOfSeq
<1>2. CASE n = 0
  <2>1. parts = <<>>
    BY <1>2, EmptySeq
  <2>2. FlattenSeq(parts) = parts
    BY <1>2 DEF FlattenSeq
  <2>3. QED
    BY <1>2, <2>1, <2>2 DEF Flattening
<1>3. CASE n # 0
  <2>1. FlattenSeq(parts) = flat[n]
    BY <1>3 DEF FlattenSeq
  <2>2. e = Step(e)
    <3>1. ASSUME NEW i \in 1 .. n
          PROVE  e[i] = IF i = 1 THEN parts[i] ELSE e[i - 1] \o parts[i]
      <4>1. e[i] = f[i - 1] \o parts[i]
        BY DEF Flattening
      <4>2. CASE i = 1
        <5>1. f[i - 1] = <<>>
          BY <4>2 DEF Flattening
        <5>2. QED
          BY <1>1, <4>1, <4>2, <5>1, ConcatEmptySeq
      <4>3. CASE i # 1
        <5>1. i - 1 \in 1 .. n /\ e[i - 1] = f[i - 1]
          BY <1>1, <4>3
        <5>2. QED
          BY <4>1, <4>3, <5>1
      <4>4. QED
        BY <4>2, <4>3
    <3>2. QED
      BY <3>1
  <2>3. flat = Step(flat)
    <3> HIDE DEF Step
    <3>1. \E h : h = Step(h)
      BY <2>2
    <3>2. QED
      BY <3>1
  <2> DEFINE d == [i \in 0 .. n |-> IF i = 0 THEN <<>> ELSE flat[i]]
  <2> HIDE DEF flat
  <2>4. f[0] = d[0]
    BY <1>1 DEF Flattening
  <2>5. ASSUME NEW i \in 1 .. n, f[i - 1] = d[i - 1] PROVE f[i] = d[i]
    <3>1. f[i] = f[i - 1] \o parts[i]
      BY DEF Flattening
    <3>2. d[i] = flat[i]
      BY <1>1
    <3>3. CASE i = 1
      <4>1. f[i - 1] = <<>>
        BY <3>3 DEF Flattening
      <4>2. flat[i] = parts[i]
        BY <2>3, <3>3
      <4>3. QED
        BY <1>1, <3>1, <3>2, <4>1, <4>2, ConcatEmptySeq
    <3>4. CASE i # 1
      <4>1. flat[i] = flat[i - 1] \o parts[i]
        BY <2>3, <3>4
      <4>2. d[i - 1] = flat[i - 1]
        BY <1>1, <3>4
      <4>3. QED
        BY <2>5, <3>1, <3>2, <4>1, <4>2
    <3>5. QED
      BY <3>3, <3>4
  <2> HIDE DEF d
  <2>6. \A i \in 0 .. n : f[i] = d[i]
    BY <1>1, <2>4, <2>5, GoOnAlike, ZenonT(60)
  <2>7. f[n] = d[n]
    BY <1>1, <2>6
  <2>8. QED
    BY <1>1, <1>3, <2>1, <2>7 DEF d
<1>4. QED
  BY <1>2, <1>3

(* A part more goes to the end.                                             *)
LEMMA FlattenAppend ==
    ASSUME NEW Y, NEW parts \in Seq(Seq(Y)), NEW s \in Seq(Y)
    PROVE  /\ FlattenSeq(parts) \in Seq(Y)
           /\ FlattenSeq(Append(parts, s)) = FlattenSeq(parts) \o s
<1> DEFINE n == Len(parts)
           more == Append(parts, s)
<1>1. PICK f : Flattening(f, parts, Y)
  BY FlatteningExists
<1>2. n \in Nat
  BY LenProperties
<1>3. /\ more \in Seq(Seq(Y)) /\ Len(more) = n + 1
      /\ more[n + 1] = s /\ \A i \in 1 .. n : more[i] = parts[i]
  OBVIOUS
<1>4. /\ f \in [0 .. n -> Seq(Y)] /\ f[0] = <<>>
      /\ \A i \in 1 .. n : f[i] = f[i - 1] \o parts[i]
  BY <1>1 DEF Flattening
<1> HIDE DEF more, n
<1> DEFINE last == f[n] \o s
           g == [i \in 0 .. n + 1 |-> IF i <= n THEN f[i] ELSE last]
<1>5. Flattening(g, more, Y)
  <2>1. f[n] \in Seq(Y)
    BY <1>2, <1>4
  <2>2. last \in Seq(Y)
    BY <2>1, ConcatProperties
  <2> HIDE DEF last
  <2>3. g \in [0 .. n + 1 -> Seq(Y)]
    BY <1>2, <1>4, <2>2
  <2>4. g[0] = <<>> /\ g[n + 1] = last /\ \A i \in 0 .. n : g[i] = f[i]
    BY <1>2, <1>4
  <2> HIDE DEF g
  <2>5. ASSUME NEW i \in 1 .. n + 1 PROVE g[i] = g[i - 1] \o more[i]
    <3>1. i - 1 \in 0 .. n /\ g[i - 1] = f[i - 1]
      BY <1>2, <2>4
    <3>2. CASE i <= n
      <4>1. i \in 1 .. n
        BY <1>2, <3>2
      <4>2. f[i] = f[i - 1] \o parts[i]
        BY <1>4, <4>1
      <4>3. more[i] = parts[i]
        BY <1>3, <4>1
      <4>4. g[i] = f[i]
        BY <1>2, <2>4, <4>1
      <4>5. QED
        BY <3>1, <4>2, <4>3, <4>4
    <3>3. CASE i = n + 1
      <4>1. i - 1 = n
        BY <1>2, <3>3
      <4>2. QED
        BY <1>3, <2>4, <3>1, <3>3, <4>1 DEF last
    <3>4. i <= n \/ i = n + 1
      BY <1>2
    <3>5. QED
      BY <3>2, <3>3, <3>4
  <2>6. QED
    BY <1>2, <1>3, <2>3, <2>4, <2>5 DEF Flattening
<1>6. FlattenSeq(more) = g[n + 1]
  <2> HIDE DEF g
  <2>1. QED
    BY <1>3, <1>5, FlatteningIsFlattenSeq
<1>7. FlattenSeq(parts) = f[n]
  BY <1>1, FlatteningIsFlattenSeq DEF n
<1>8. f[n] \in Seq(Y) /\ g[n + 1] = last
  BY <1>2, <1>4
<1>9. QED
  BY <1>6, <1>7, <1>8 DEF more

-----------------------------------------------------------------------------
(* Places in a text, in their order.                                        *)

\* They are places in the first n.
PlacesIn(places, n) == \A j \in places : j \in Nat /\ 1 <= j /\ j <= n

UpTo(places, i) == {j \in places : j <= i}

(* Places in a text are finitely many, and so are those up to any of them.  *)
LEMMA PlacesAreFew ==
    ASSUME NEW n \in Nat, NEW places, PlacesIn(places, n)
    PROVE  /\ IsFiniteSet(places) /\ Cardinality(places) \in Nat
           /\ \A i : IsFiniteSet(UpTo(places, i)) /\ Cardinality(UpTo(places, i)) \in Nat
<1>1. IsFiniteSet(1 .. n)
  BY FS_Interval
<1>2. \A S : S \subseteq 1 .. n => IsFiniteSet(S)
  BY <1>1, FS_Subset
<1>3. places \subseteq 1 .. n /\ \A i : UpTo(places, i) \subseteq 1 .. n
  BY DEF UpTo, PlacesIn
<1>4. QED
  BY <1>2, <1>3, FS_CardinalityType

(* Every number up to that of the places is that of a place.                *)
LEMMA PlaceExists ==
    ASSUME NEW n \in Nat, NEW places, PlacesIn(places, n), NEW k \in 1 .. Cardinality(places)
    PROVE  \E i \in places : Cardinality(UpTo(places, i)) = k
<1> DEFINE count(i) == Cardinality(UpTo(places, i))
           S == {i \in Nat : count(i) < k}
<1>0. \A j \in places : j \in Nat /\ 1 <= j /\ j <= n
  BY DEF PlacesIn
<1>1. SUFFICES ASSUME \A i \in places : count(i) # k PROVE FALSE
  OBVIOUS
<1>2. /\ IsFiniteSet(places) /\ Cardinality(places) \in Nat
      /\ \A i : IsFiniteSet(UpTo(places, i)) /\ count(i) \in Nat
  BY PlacesAreFew
<1>3. 0 \in S
  <2>1. UpTo(places, 0) = {}
    BY <1>0 DEF UpTo
  <2>2. count(0) = 0
    BY <2>1, FS_EmptySet
  <2>3. QED
    BY <1>2, <2>2
<1>4. ASSUME NEW i \in Nat, i \in S PROVE i + 1 \in S
  <2>1. CASE i + 1 \in places
    <3>1. UpTo(places, i + 1) = UpTo(places, i) \cup {i + 1} /\ i + 1 \notin UpTo(places, i)
      BY <2>1, <1>0 DEF UpTo
    <3>2. count(i + 1) = count(i) + 1
      BY <1>2, <3>1, FS_AddElement
    <3>3. count(i + 1) # k
      BY <1>1, <2>1
    <3> HIDE DEF count
    <3>4. QED
      BY <1>2, <1>4, <3>2, <3>3
  <2>2. CASE i + 1 \notin places
    <3>1. UpTo(places, i + 1) = UpTo(places, i)
      BY <2>2, <1>0 DEF UpTo
    <3>2. QED
      BY <1>4, <3>1
  <2>3. QED
    BY <2>1, <2>2
<1>5. UpTo(places, n) = places
  BY <1>0 DEF UpTo
<1>6. count(n) < k
  <2> HIDE DEF S
  <2>1. n \in S
    BY <1>3, <1>4, Counting
  <2>2. QED
    BY <2>1 DEF S
<1>7. QED
  BY <1>2, <1>5, <1>6

(* Kth chooses a place, that of the number asked for.                       *)
LEMMA KthIsPlace ==
    ASSUME NEW n \in Nat, NEW places, PlacesIn(places, n), NEW k \in 1 .. Cardinality(places)
    PROVE  Kth(places, k) \in places /\ Cardinality(UpTo(places, Kth(places, k))) = k
<1>1. Kth(places, k) = CHOOSE i \in places : Cardinality(UpTo(places, i)) = k
  BY DEF Kth, UpTo
<1>2. \E i \in places : Cardinality(UpTo(places, i)) = k
  BY PlaceExists
<1>3. QED
  BY <1>1, <1>2

(* No two places have one number.                                           *)
LEMMA KthIsOnly ==
    ASSUME NEW n \in Nat, NEW places, PlacesIn(places, n), NEW i \in places
    PROVE  Kth(places, Cardinality(UpTo(places, i))) = i
<1> DEFINE k == Cardinality(UpTo(places, i))
           x == Kth(places, k)
<1>0. \A j \in places : j \in Nat /\ 1 <= j /\ j <= n
  BY DEF PlacesIn
<1>1. x \in places /\ Cardinality(UpTo(places, x)) = k
  BY DEF Kth, UpTo
<1> HIDE DEF x
<1>2. \A y, z \in places : UpTo(places, y) = UpTo(places, z) => y = z
  <2>1. \A y \in places : y \in UpTo(places, y) /\ y \in Nat
    BY <1>0 DEF UpTo
  <2>2. \A y, z \in places : y \in UpTo(places, z) /\ z \in UpTo(places, y) => y = z
    BY <1>0 DEF UpTo
  <2>3. QED
    BY <2>1, <2>2
<1>3. \A y, z \in places : UpTo(places, y) \subseteq UpTo(places, z)
                             \/ UpTo(places, z) \subseteq UpTo(places, y)
  BY <1>0 DEF UpTo
<1>4. UpTo(places, x) = UpTo(places, i)
  <2>1. IsFiniteSet(UpTo(places, x)) /\ IsFiniteSet(UpTo(places, i))
    BY PlacesAreFew
  <2>2. QED
    BY <1>1, <1>3, <2>1, FS_Subset
<1>5. QED
  BY <1>1, <1>2, <1>4 DEF x

(* A place beyond all others is the last, and changes none of them.         *)
LEMMA LastPlace ==
    ASSUME NEW n \in Nat, NEW places, PlacesIn(places, n), NEW m \in Nat, m > n
    PROVE  /\ Cardinality(places \cup {m}) = Cardinality(places) + 1
           /\ Kth(places \cup {m}, Cardinality(places) + 1) = m
<1>1. PlacesIn(places \cup {m}, m) /\ m \in places \cup {m} /\ m \notin places
  BY DEF PlacesIn
<1>2. IsFiniteSet(places)
  BY PlacesAreFew
<1>3. Cardinality(places \cup {m}) = Cardinality(places) + 1
  BY <1>1, <1>2, FS_AddElement
<1>4. UpTo(places \cup {m}, m) = places \cup {m}
  BY DEF UpTo, PlacesIn
<1>5. QED
  BY <1>1, <1>3, <1>4, KthIsOnly

(* A place beyond all others leaves the others their numbers.               *)
LEMMA EarlierPlace ==
    ASSUME NEW n \in Nat, NEW places, PlacesIn(places, n), NEW m \in Nat, m > n,
           NEW k \in 1 .. Cardinality(places)
    PROVE  Kth(places \cup {m}, k) = Kth(places, k)
<1> DEFINE x == Kth(places, k)
           all == places \cup {m}
<1>1. x \in places /\ Cardinality(UpTo(places, x)) = k
  BY KthIsPlace
<1>2. UpTo(all, x) = UpTo(places, x) /\ PlacesIn(all, m)
  BY <1>1 DEF UpTo, PlacesIn
<1> HIDE DEF x
<1>3. x \in all /\ Cardinality(UpTo(all, x)) = k
  BY <1>1, <1>2
<1> HIDE DEF all
<1>4. Kth(all, k) = x
  BY <1>2, <1>3, KthIsOnly
<1>5. QED
  BY <1>4 DEF x, all

-----------------------------------------------------------------------------
(* Lines of a text that grows.                                              *)

LastCut(places) == Cut(places, Cardinality(places))

(* A cut is in the text or before it.                                       *)
LEMMA CutIsIn ==
    ASSUME NEW n \in Nat, NEW places, PlacesIn(places, n), NEW k \in 0 .. Cardinality(places)
    PROVE  Cut(places, k) \in 0 .. n
<1>1. CASE k = 0
  BY <1>1 DEF Cut
<1>2. CASE k # 0
  <2>1. k \in 1 .. Cardinality(places)
    BY <1>2, PlacesAreFew
  <2>2. Kth(places, k) \in places
    BY <2>1, KthIsPlace
  <2>3. QED
    BY <1>2, <2>2 DEF Cut, PlacesIn
<1>3. QED
  BY <1>1, <1>2

(* A character more changes no part that ends before it.                    *)
LEMMA SubSeqStays ==
    ASSUME NEW S, NEW s \in Seq(S), NEW c \in S,
           NEW a \in Nat \ {0}, NEW b \in Int, b <= Len(s)
    PROVE  SubSeq(s, a, b) \in Seq(S) /\ SubSeq(Append(s, c), a, b) = SubSeq(s, a, b)
<1> DEFINE t == Append(s, c)
<1>1. /\ Len(s) \in Nat /\ \A i \in a .. b : s[i] \in S
      /\ \A i \in a .. b : t[i] = s[i] /\ t[i] \in S
  OBVIOUS
<1> HIDE DEF t
<1>2. /\ SubSeq(s, a, b) \in Seq(S) /\ SubSeq(t, a, b) \in Seq(S)
      /\ Len(SubSeq(s, a, b)) = Len(SubSeq(t, a, b))
  BY <1>1, SubSeqProperties
<1>3. \A i \in 1 .. b - a + 1 : SubSeq(s, a, b)[i] = SubSeq(t, a, b)[i]
  <2>1. \A i \in 1 .. b - a + 1 : SubSeq(s, a, b)[i] = s[a + i - 1]
    BY <1>1, SubSeqProperties
  <2>2. \A i \in 1 .. b - a + 1 : SubSeq(t, a, b)[i] = t[a + i - 1]
    BY <1>1, SubSeqProperties
  <2>3. \A i \in 1 .. b - a + 1 : a + i - 1 \in a .. b
    OBVIOUS
  <2>4. QED
    BY <1>1, <2>1, <2>2, <2>3
<1>4. Len(SubSeq(s, a, b)) = IF a <= b THEN b - a + 1 ELSE 0
  BY <1>1, SubSeqProperties
<1>5. \A i \in 1 .. Len(SubSeq(s, a, b)) : i \in 1 .. b - a + 1
  BY <1>4
<1>6. SubSeq(s, a, b) = SubSeq(t, a, b)
  BY <1>2, <1>3, <1>5, SeqEqual
<1>7. QED
  BY <1>2, <1>6 DEF t

(* There are as many pieces as places, and each is a text.                  *)
LEMMA PiecesAreParts ==
    ASSUME NEW S, NEW s \in Seq(S), NEW places, PlacesIn(places, Len(s) + 1)
    PROVE  Pieces(s, places) \in Seq(Seq(S)) /\ Len(Pieces(s, places)) = Cardinality(places)
<1> DEFINE n == Cardinality(places)
           piece(k) == SubSeq(s, Cut(places, k - 1) + 1, Cut(places, k) - 1)
<1>1. n \in Nat /\ Len(s) + 1 \in Nat
  BY PlacesAreFew
<1>2. ASSUME NEW k \in 1 .. n PROVE piece(k) \in Seq(S)
  <2>1. k \in 0 .. n /\ k - 1 \in 0 .. n
    BY <1>1
  <2>2. Cut(places, k) \in 0 .. Len(s) + 1 /\ Cut(places, k - 1) \in 0 .. Len(s) + 1
    BY <1>1, <2>1, CutIsIn
  <2>3. Cut(places, k - 1) + 1 \in Nat \ {0} /\ Cut(places, k) - 1 \in Int
        /\ \A i \in Cut(places, k - 1) + 1 .. Cut(places, k) - 1 : i \in 1 .. Len(s)
    BY <2>2
  <2>4. \A i \in Cut(places, k - 1) + 1 .. Cut(places, k) - 1 : s[i] \in S
    BY <2>3
  <2>5. QED
    BY <2>3, <2>4, SubSeqProperties
<1>3. Pieces(s, places) = [k \in 1 .. n |-> piece(k)]
  BY DEF Pieces
<1> HIDE DEF n, piece
<1>4. QED
  BY <1>1, <1>2, <1>3 DEF n

(* A character that is no end changes no piece; one that is ends the last.  *)
LEMMA PiecesGrow ==
    ASSUME NEW S, NEW s \in Seq(S), NEW c \in S, NEW places, PlacesIn(places, Len(s))
    PROVE  /\ Pieces(Append(s, c), places) = Pieces(s, places)
           /\ Pieces(Append(s, c), places \cup {Len(s) + 1})
                = Append(Pieces(s, places), SubSeq(s, LastCut(places) + 1, Len(s)))
           /\ LastCut(places \cup {Len(s) + 1}) = Len(s) + 1
<1> DEFINE n == Cardinality(places)
           m == Len(s) + 1
           t == Append(s, c)
           all == places \cup {m}
<1>1. n \in Nat /\ Len(s) \in Nat /\ m \in Nat /\ m > Len(s)
  BY PlacesAreFew
<1>2. /\ Cardinality(all) = n + 1 /\ Kth(all, n + 1) = m
      /\ \A k \in 1 .. n : Kth(all, k) = Kth(places, k)
  <2> DEFINE len == Len(s)
  <2>1. len \in Nat /\ m \in Nat /\ m > len /\ PlacesIn(places, len)
    BY <1>1
  <2> HIDE DEF m, len
  <2>2. Cardinality(places \cup {m}) = Cardinality(places) + 1
    BY <2>1, LastPlace
  <2>3. Kth(places \cup {m}, Cardinality(places) + 1) = m
    BY <2>1, LastPlace
  <2>4. ASSUME NEW k \in 1 .. Cardinality(places)
        PROVE  Kth(places \cup {m}, k) = Kth(places, k)
    BY <2>1, EarlierPlace
  <2>5. QED
    BY <2>2, <2>3, <2>4
<1>3. \A k \in 0 .. n : Cut(all, k) = Cut(places, k) /\ Cut(places, k) \in 0 .. Len(s)
  <2>1. \A k \in 0 .. n : k # 0 => k \in 1 .. n
    OBVIOUS
  <2>2. \A k \in 0 .. n : Cut(all, k) = Cut(places, k)
    BY <1>2, <2>1 DEF Cut
  <2>3. \A k \in 0 .. n : Cut(places, k) \in 0 .. Len(s)
    BY <1>1, CutIsIn
  <2>4. QED
    BY <2>2, <2>3
<1>4. Cut(all, n + 1) = m
  BY <1>1, <1>2 DEF Cut
<1> HIDE DEF all, t, m
<1>5. ASSUME NEW k \in 1 .. n
      PROVE  SubSeq(t, Cut(places, k - 1) + 1, Cut(places, k) - 1)
               = SubSeq(s, Cut(places, k - 1) + 1, Cut(places, k) - 1)
  <2>1. Cut(places, k) \in 0 .. Len(s) /\ Cut(places, k - 1) \in 0 .. Len(s)
    BY <1>1, <1>3
  <2>2. Cut(places, k - 1) + 1 \in Nat \ {0} /\ Cut(places, k) - 1 \in Int
        /\ Cut(places, k) - 1 <= Len(s)
    BY <1>1, <2>1
  <2> DEFINE a == Cut(places, k - 1) + 1
             b == Cut(places, k) - 1
  <2> HIDE DEF a, b
  <2>3. a \in Nat \ {0} /\ b \in Int /\ b <= Len(s)
    BY <2>2 DEF a, b
  <2>4. SubSeq(Append(s, c), a, b) = SubSeq(s, a, b)
    BY <2>3, SubSeqStays
  <2>5. QED
    BY <2>4 DEF a, b, t
<1>6. /\ SubSeq(t, Cut(places, n) + 1, m - 1) = SubSeq(s, Cut(places, n) + 1, Len(s))
      /\ SubSeq(s, Cut(places, n) + 1, Len(s)) \in Seq(S)
  <2>1. Cut(places, n) \in 0 .. Len(s)
    BY <1>1, <1>3
  <2>2. Cut(places, n) + 1 \in Nat \ {0} /\ m - 1 = Len(s) /\ Len(s) \in Int
    BY <1>1, <2>1 DEF m
  <2> DEFINE a == Cut(places, n) + 1
  <2> HIDE DEF a
  <2>3. a \in Nat \ {0} /\ Len(s) <= Len(s)
    BY <1>1, <2>2 DEF a
  <2>4. SubSeq(Append(s, c), a, Len(s)) = SubSeq(s, a, Len(s)) /\ SubSeq(s, a, Len(s)) \in Seq(S)
    BY <2>2, <2>3, SubSeqStays
  <2>5. QED
    BY <2>2, <2>4 DEF a, t
<1>7. Pieces(t, places) = Pieces(s, places)
  BY <1>5 DEF Pieces
<1>8. Pieces(t, all) = Append(Pieces(s, places), SubSeq(s, Cut(places, n) + 1, Len(s)))
  <2> DEFINE last == SubSeq(s, Cut(places, n) + 1, Len(s))
             p == Pieces(s, places)
  <2>1. p = [k \in 1 .. n |-> SubSeq(s, Cut(places, k - 1) + 1, Cut(places, k) - 1)]
    BY DEF Pieces
  <2>2. Pieces(t, all)
          = [k \in 1 .. n + 1 |-> SubSeq(t, Cut(all, k - 1) + 1, Cut(all, k) - 1)]
    BY <1>2 DEF Pieces
  <2>3. ASSUME NEW k \in 1 .. n
        PROVE  SubSeq(t, Cut(all, k - 1) + 1, Cut(all, k) - 1) = p[k]
    <3>1. Cut(all, k - 1) = Cut(places, k - 1) /\ Cut(all, k) = Cut(places, k)
      BY <1>1, <1>3
    <3>2. QED
      BY <1>5, <2>1, <3>1
  <2>4. SubSeq(t, Cut(all, n) + 1, Cut(all, n + 1) - 1) = last
    <3>1. n \in 0 .. n
      BY <1>1
    <3>2. Cut(all, n) = Cut(places, n)
      BY <1>3, <3>1
    <3>3. QED
      BY <1>4, <1>6, <3>2
  <2>0. last \in Seq(S)
    BY <1>6
  <2> HIDE DEF last, p
  <2>5. p \in Seq(Seq(S)) /\ Len(p) = n
    <3>1. PlacesIn(places, Len(s) + 1)
      BY <1>1 DEF PlacesIn
    <3>2. QED
      BY <3>1, PiecesAreParts DEF p
  <2>6. Append(p, last) = [k \in 1 .. n + 1 |-> IF k = n + 1 THEN last ELSE p[k]]
    <3>1. /\ Append(p, last) \in Seq(Seq(S)) /\ Len(Append(p, last)) = n + 1
          /\ Append(p, last)[n + 1] = last
          /\ \A k \in 1 .. n : Append(p, last)[k] = p[k]
      BY <1>1, <2>0, <2>5
    <3> DEFINE q == Append(p, last)
    <3>2. q \in [1 .. n + 1 -> Seq(S)]
      BY <3>1, LenProperties
    <3>3. \A k \in 1 .. n + 1 : k # n + 1 => k \in 1 .. n
      BY <1>1
    <3>4. \A k \in 1 .. n + 1 : q[k] = IF k = n + 1 THEN last ELSE p[k]
      BY <3>1, <3>3
    <3> HIDE DEF q
    <3>5. q = [k \in 1 .. n + 1 |-> q[k]]
      BY <3>2
    <3>6. q = [k \in 1 .. n + 1 |-> IF k = n + 1 THEN last ELSE p[k]]
      BY <3>4, <3>5
    <3>7. QED
      BY <3>6 DEF q
  <2>7. \A k \in 1 .. n + 1 : SubSeq(t, Cut(all, k - 1) + 1, Cut(all, k) - 1)
                                = IF k = n + 1 THEN last ELSE p[k]
    <3> SUFFICES ASSUME NEW k \in 1 .. n + 1
                 PROVE  SubSeq(t, Cut(all, k - 1) + 1, Cut(all, k) - 1)
                          = IF k = n + 1 THEN last ELSE p[k]
      OBVIOUS
    <3>1. CASE k = n + 1
      <4>1. k - 1 = n
        BY <1>1, <3>1
      <4>2. QED
        BY <2>4, <3>1, <4>1
    <3>2. CASE k # n + 1
      <4>1. k \in 1 .. n
        BY <1>1, <3>2
      <4>2. QED
        BY <2>3, <3>2, <4>1
    <3>3. QED
      BY <3>1, <3>2
  <2>8. QED
    BY <2>2, <2>6, <2>7 DEF p, last
<1>9. LastCut(all) = m
  BY <1>2, <1>4 DEF LastCut
<1>10. QED
  BY <1>7, <1>8, <1>9 DEF LastCut, all, t, m

-----------------------------------------------------------------------------

(* A part that ends with the text grows with it.                            *)
LEMMA SubSeqMore ==
    ASSUME NEW S, NEW s \in Seq(S), NEW c \in S, NEW a \in 1 .. Len(s) + 1
    PROVE  SubSeq(Append(s, c), a, Len(s) + 1) = Append(SubSeq(s, a, Len(s)), c)
<1> DEFINE t == Append(s, c)
           n == Len(s)
           old == SubSeq(s, a, n)
           new == SubSeq(t, a, n + 1)
<1>1. /\ n \in Nat /\ \A i \in 1 .. n : s[i] \in S /\ t[i] = s[i]
      /\ t[n + 1] = c /\ \A i \in 1 .. n + 1 : t[i] \in S
  OBVIOUS
<1> HIDE DEF t, n
<1>2. /\ old \in Seq(S) /\ Len(old) = n - a + 1
      /\ \A i \in 1 .. n - a + 1 : old[i] = s[a + i - 1]
  <2>1. a \in Nat /\ n \in Nat /\ a <= n + 1 /\ \A i \in a .. n : s[i] \in S
    BY <1>1 DEF n
  <2>2. QED
    BY <2>1, SubSeqProperties
<1>3. /\ new \in Seq(S) /\ Len(new) = n - a + 2
      /\ \A i \in 1 .. n - a + 2 : new[i] = t[a + i - 1]
  <2> DEFINE b == n + 1
  <2>1. /\ a \in Int /\ b \in Int /\ a <= b /\ \A i \in a .. b : t[i] \in S
        /\ b - a + 1 = n - a + 2
    BY <1>1 DEF n
  <2> HIDE DEF b
  <2>2. /\ SubSeq(t, a, b) \in Seq(S) /\ Len(SubSeq(t, a, b)) = b - a + 1
        /\ \A i \in 1 .. b - a + 1 : SubSeq(t, a, b)[i] = t[a + i - 1]
    BY <2>1, SubSeqProperties
  <2>3. QED
    BY <2>1, <2>2 DEF b
<1> HIDE DEF old, new
<1>4. /\ Append(old, c) \in Seq(S) /\ Len(Append(old, c)) = n - a + 2
      /\ Append(old, c)[n - a + 2] = c
      /\ \A i \in 1 .. n - a + 1 : Append(old, c)[i] = old[i]
  <2> DEFINE m == n - a + 1
  <2>1. Len(old) = m /\ m \in Nat /\ m + 1 = n - a + 2
    BY <1>1, <1>2 DEF n
  <2> HIDE DEF m
  <2>2. /\ Append(old, c) \in Seq(S) /\ Len(Append(old, c)) = m + 1
        /\ Append(old, c)[m + 1] = c
        /\ \A i \in 1 .. m : Append(old, c)[i] = old[i]
    BY <1>2, <2>1, SMTT(40)
  <2>3. QED
    BY <2>1, <2>2 DEF m
<1>5. \A i \in 1 .. n - a + 2 : new[i] = Append(old, c)[i]
  <2> SUFFICES ASSUME NEW i \in 1 .. n - a + 2 PROVE new[i] = Append(old, c)[i]
    OBVIOUS
  <2>1. a \in Nat /\ a <= n + 1
    BY <1>1 DEF n
  <2>2. new[i] = t[a + i - 1]
    BY <1>3
  <2>3. CASE i = n - a + 2
    <3>1. a + i - 1 = n + 1
      BY <1>1, <2>1, <2>3
    <3>2. QED
      BY <1>1, <1>4, <2>2, <2>3, <3>1
  <2>4. CASE i # n - a + 2
    <3>1. i \in 1 .. n - a + 1 /\ a + i - 1 \in 1 .. n
      BY <1>1, <2>1, <2>4
    <3>2. t[a + i - 1] = s[a + i - 1]
      BY <1>1, <3>1
    <3>3. QED
      BY <1>2, <1>4, <2>2, <3>1, <3>2
  <2>5. QED
    BY <2>3, <2>4
<1>6. new = Append(old, c)
  BY <1>3, <1>4, <1>5, SeqEqual
<1>7. QED
  BY <1>6 DEF new, old, t, n

IsMap(F, X, Z) == F \in [X -> Z]

(* What a function makes of each part, in the order of the parts,           *)
LEMMA MapIsSeq ==
    ASSUME NEW X, NEW Z, NEW parts \in Seq(X), NEW F, IsMap(F, X, Z)
    PROVE  [k \in DOMAIN parts |-> F[parts[k]]] \in Seq(Z)
<1> DEFINE n == Len(parts)
<1> USE DEF IsMap
<1>1. n \in Nat /\ DOMAIN parts = 1 .. n /\ \A k \in 1 .. n : parts[k] \in X
  BY LenProperties, ElementOfSeq
<1>2. \A k \in 1 .. n : F[parts[k]] \in Z
  BY <1>1
<1> HIDE DEF n
<1>3. [k \in 1 .. n |-> F[parts[k]]] \in Seq(Z)
  BY <1>1, <1>2
<1>4. QED
  BY <1>1, <1>3

(* grows by what it makes of a part more,                                   *)
LEMMA MapAppend ==
    ASSUME NEW X, NEW Z, NEW parts \in Seq(X), NEW x \in X, NEW F, IsMap(F, X, Z)
    PROVE  [k \in DOMAIN Append(parts, x) |-> F[Append(parts, x)[k]]]
             = Append([k \in DOMAIN parts |-> F[parts[k]]], F[x])
<1> DEFINE n == Len(parts)
           more == Append(parts, x)
           old == [k \in 1 .. n |-> F[parts[k]]]
           new == [k \in 1 .. n + 1 |-> F[more[k]]]
<1> USE DEF IsMap
<1>1. n \in Nat /\ DOMAIN parts = 1 .. n /\ \A k \in 1 .. n : parts[k] \in X
  BY LenProperties, ElementOfSeq
<1>2. /\ DOMAIN more = 1 .. n + 1 /\ more[n + 1] = x
      /\ \A k \in 1 .. n : more[k] = parts[k]
  OBVIOUS
<1>3. F[x] \in Z /\ \A k \in 1 .. n : F[parts[k]] \in Z
  BY <1>1
<1> HIDE DEF n, more
<1>4. old \in Seq(Z) /\ Len(old) = n /\ \A k \in 1 .. n : old[k] = F[parts[k]]
  BY <1>1, <1>3
<1>5. \A k \in 1 .. n + 1 : k # n + 1 => k \in 1 .. n
  BY <1>1
<1>6. \A k \in 1 .. n + 1 : new[k] = IF k = n + 1 THEN F[x] ELSE F[parts[k]]
  BY <1>2, <1>5
<1>7. new \in Seq(Z) /\ Len(new) = n + 1
  <2>1. \A k \in 1 .. n + 1 : new[k] \in Z
    BY <1>3, <1>5, <1>6
  <2>2. QED
    BY <1>1, <2>1
<1> HIDE DEF old, new
<1>8. /\ Append(old, F[x]) \in Seq(Z) /\ Len(Append(old, F[x])) = n + 1
      /\ Append(old, F[x])[n + 1] = F[x]
      /\ \A k \in 1 .. n : Append(old, F[x])[k] = old[k]
  BY <1>3, <1>4
<1>9. \A k \in 1 .. n + 1 : new[k] = Append(old, F[x])[k]
  BY <1>4, <1>5, <1>6, <1>8
<1>10. new = Append(old, F[x])
  BY <1>7, <1>8, <1>9, SeqEqual
<1>11. QED
  BY <1>1, <1>2, <1>4, <1>10 DEF old, new, more

IsImage(mapped, parts, F) == mapped = [k \in DOMAIN parts |-> F[parts[k]]]

(* and so does all of it joined.                                            *)
LEMMA FlattenMap ==
    ASSUME NEW X, NEW Y, NEW parts \in Seq(X), NEW x \in X, NEW F, IsMap(F, X, Seq(Y)),
           NEW mapped, IsImage(mapped, parts, F),
           NEW newly, IsImage(newly, Append(parts, x), F)
    PROVE  FlattenSeq(newly) = FlattenSeq(mapped) \o F[x]
<1> DEFINE Z == Seq(Y)
<1>1. mapped \in Seq(Z) /\ newly = Append(mapped, F[x])
  <2>1. IsMap(F, X, Z)
    OBVIOUS
  <2> HIDE DEF Z
  <2>2. mapped \in Seq(Z)
    BY <2>1, MapIsSeq DEF IsImage
  <2>3. newly = Append(mapped, F[x])
    BY <2>1, MapAppend DEF IsImage
  <2>4. QED
    BY <2>2, <2>3
<1>2. F[x] \in Z
  BY DEF IsMap
<1>3. QED
  BY <1>1, <1>2, FlattenAppend

-----------------------------------------------------------------------------
(* Each line is answered once, whole, in order.                             *)

Ends(text) == {i \in DOMAIN text : text[i] \in LineEnds}

\* All answers to lines.
AllAnswers == {Answer(line)[1] : line \in Seq(STRING)}

(* The answer to a line is one answer or none.                              *)
LEMMA AnswerIsOne ==
    ASSUME NEW line \in Seq(STRING)
    PROVE  Answer(line) \in Seq(AllAnswers)
<1> DEFINE t == Trim(line)
           r3 == [kind |-> "file", name |-> Trim(SubSeq(t, 3, Len(t)))]
           r4 == SendCommand(SubSeq(t, 3, Len(t)))
           r6 == [kind |-> "echo", line |-> t]
           p3 == IsPrefix(<<"GETFILE", Comma>>, t)
           p4 == IsPrefix(<<"SEND", Comma>>, t)
<1>0. Answer(line) =
        CASE t = <<>> -> <<>>
          [] t \in {<<"GETTHINGS">>, <<"getthings">>} -> <<[kind |-> "things"]>>
          [] p3 -> <<r3>>
          [] p4 -> <<r4>>
          [] t \in {<<"PACKETTEST">>, <<"packettest">>} -> <<[kind |-> "test"]>>
          [] OTHER -> <<r6>>
  BY DEF Answer
<1> HIDE DEF t, r3, r4, r6, p3, p4
<1>1. Answer(line) = <<>> \/ \E x : Answer(line) = <<x>>
  BY <1>0
<1>2. CASE Answer(line) = <<>>
  BY <1>2, EmptySeq
<1>3. CASE \E x : Answer(line) = <<x>>
  <2>1. PICK x : Answer(line) = <<x>>
    BY <1>3
  <2>2. Answer(line)[1] = x
    BY <2>1
  <2>3. x \in AllAnswers
    BY <2>2 DEF AllAnswers
  <2>4. QED
    BY <2>1, <2>3
<1>4. QED
  BY <1>1, <1>2, <1>3

\* The unfinished line is what was read since the last end of a line.
LinesInv ==
    /\ typing \in Seq(STRING) /\ serial \in Seq(STRING) /\ heard \in Seq(STRING)
    /\ input = SubSeq(heard, LastCut(Ends(heard)) + 1, Len(heard))
    /\ LinesWhole

(* The ends of lines in a text, and in one with a character more.           *)
LEMMA EndsGrow ==
    ASSUME NEW s \in Seq(STRING), NEW c \in STRING
    PROVE  /\ PlacesIn(Ends(s), Len(s))
           /\ Ends(Append(s, c)) = IF c \in LineEnds THEN Ends(s) \cup {Len(s) + 1} ELSE Ends(s)
           /\ LastCut(Ends(s)) \in 0 .. Len(s)
<1> DEFINE n == Len(s)
           t == Append(s, c)
<1>1. /\ n \in Nat /\ DOMAIN s = 1 .. n /\ DOMAIN t = 1 .. n + 1
      /\ t[n + 1] = c /\ \A i \in 1 .. n : t[i] = s[i]
  OBVIOUS
<1>2. PlacesIn(Ends(s), n)
  BY <1>1 DEF PlacesIn, Ends
<1>3. Ends(t) = IF c \in LineEnds THEN Ends(s) \cup {n + 1} ELSE Ends(s)
  <2> HIDE DEF t, n
  <2> DEFINE m == n + 1
  <2>1. 1 .. n + 1 = (1 .. n) \cup {m} /\ m \notin 1 .. n
    BY <1>1
  <2> HIDE DEF m
  <2>2. \A i : i \in Ends(t) <=> (i \in 1 .. n \/ i = m) /\ t[i] \in LineEnds
    BY <1>1, <2>1 DEF Ends
  <2>3. \A i : i \in Ends(s) <=> i \in 1 .. n /\ s[i] \in LineEnds
    BY <1>1 DEF Ends
  <2>4. t[m] = c
    BY <1>1 DEF m
  <2>5. \A i : i \in Ends(t) <=> i \in Ends(s) \/ (i = m /\ c \in LineEnds)
    BY <1>1, <2>2, <2>3, <2>4
  <2>6. QED
    BY <2>5 DEF m
<1>4. LastCut(Ends(s)) \in 0 .. n
  <2> DEFINE places == Ends(s)
             k == Cardinality(places)
  <2> HIDE DEF n, places
  <2>1. k \in Nat
    BY <1>1, <1>2, PlacesAreFew DEF places
  <2>2. k \in 0 .. Cardinality(places) /\ PlacesIn(places, n)
    BY <1>2, <2>1 DEF places
  <2> HIDE DEF k
  <2>3. Cut(places, k) \in 0 .. n
    BY <1>1, <2>2, CutIsIn
  <2>4. QED
    BY <2>3 DEF LastCut, k, places
<1>5. QED
  BY <1>2, <1>3, <1>4

(* A character that ends a line makes it a finished one.                    *)
LEMMA LinesGrow ==
    ASSUME LinesInv, ReadChar
    PROVE  /\ input \in Seq(STRING) /\ Lines(heard) \in Seq(Seq(STRING))
           /\ heard' = Append(heard, Head(serial)) /\ heard' \in Seq(STRING)
           /\ LastCut(Ends(heard)) \in 0 .. Len(heard)
           /\ Head(serial) \notin LineEnds =>
                /\ input' = Append(input, Head(serial)) /\ answers' = answers
                /\ Lines(heard)' = Lines(heard)
                /\ LastCut(Ends(heard')) = LastCut(Ends(heard))
           /\ Head(serial) \in LineEnds =>
                /\ input' = <<>> /\ answers' = answers \o Answer(input)
                /\ Lines(heard)' = Append(Lines(heard), input)
                /\ LastCut(Ends(heard')) = Len(heard) + 1
<1> DEFINE c == Head(serial)
           s == heard
           places == Ends(heard)
           n == Len(heard)
           L == Lines(heard)
<1>1. c \in STRING /\ heard' = Append(s, c) /\ s \in Seq(STRING)
  BY DEF ReadChar, LinesInv
<1>2. heard' \in Seq(STRING) /\ n \in Nat
  BY <1>1
<1> HIDE DEF c
<1>3. /\ PlacesIn(places, n) /\ LastCut(places) \in 0 .. n
      /\ Ends(heard') = IF c \in LineEnds THEN places \cup {n + 1} ELSE places
  BY <1>1, EndsGrow
<1>4. /\ Pieces(heard', places) = Pieces(s, places)
      /\ Pieces(heard', places \cup {n + 1})
           = Append(Pieces(s, places), SubSeq(s, LastCut(places) + 1, n))
      /\ LastCut(places \cup {n + 1}) = n + 1
  <2> HIDE DEF places
  <2>1. PlacesIn(places, Len(s))
    BY <1>3
  <2>2. /\ Pieces(Append(s, c), places) = Pieces(s, places)
        /\ Pieces(Append(s, c), places \cup {Len(s) + 1})
             = Append(Pieces(s, places), SubSeq(s, LastCut(places) + 1, Len(s)))
        /\ LastCut(places \cup {Len(s) + 1}) = Len(s) + 1
    BY <1>1, <2>1, PiecesGrow
  <2>3. QED
    BY <1>1, <2>2
<1>5. L = Pieces(s, places) /\ Lines(heard)' = Pieces(heard', Ends(heard'))
  BY DEF Lines, Ends
<1>6. input = SubSeq(s, LastCut(places) + 1, n)
  BY DEF LinesInv
<1>7. L \in Seq(Seq(STRING)) /\ input \in Seq(STRING)
  <2>1. PlacesIn(places, Len(s) + 1)
    BY <1>2, <1>3 DEF PlacesIn
  <2>2. L \in Seq(Seq(STRING))
    BY <1>1, <1>5, <2>1, PiecesAreParts
  <2>3. \A i \in LastCut(places) + 1 .. n : s[i] \in STRING
    BY <1>1, <1>3
  <2>4. LastCut(places) + 1 \in Int /\ n \in Int
    BY <1>2, <1>3
  <2>5. QED
    BY <1>6, <2>2, <2>3, <2>4, SubSeqProperties
<1> HIDE DEF places, n, L
<1>8. ASSUME c \notin LineEnds
      PROVE  /\ input' = Append(input, c) /\ answers' = answers
             /\ Lines(heard)' = L /\ LastCut(Ends(heard')) = LastCut(places)
  <2>1. input' = Append(input, c) /\ answers' = answers
    BY <1>8 DEF ReadChar, Keep, c
  <2>2. Ends(heard') = places
    BY <1>3, <1>8
  <2>3. QED
    BY <1>4, <1>5, <2>1, <2>2
<1>9. ASSUME c \in LineEnds
      PROVE  /\ input' = <<>> /\ answers' = answers \o Answer(input)
             /\ Lines(heard)' = Append(L, input) /\ LastCut(Ends(heard')) = n + 1
  <2>1. input' = <<>> /\ answers' = answers \o Answer(input)
    BY <1>9 DEF ReadChar, c
  <2>2. Ends(heard') = places \cup {n + 1}
    BY <1>3, <1>9
  <2>3. QED
    BY <1>4, <1>5, <1>6, <2>1, <2>2
<1>10. QED
  BY <1>1, <1>2, <1>3, <1>7, <1>8, <1>9 DEF c, L, n, places

(* Text that arrives changes no line, a character read only the last.       *)
LEMMA LinesInvStep ==
    ASSUME LinesInv, UsbNext
    PROVE  LinesInv'
<1>1. CASE Arrive
  <2>1. PICK n \in 1 .. Len(typing) :
            /\ serial' = serial \o SubSeq(typing, 1, n)
            /\ typing' = SubSeq(typing, n + 1, Len(typing))
    BY <1>1 DEF Arrive
  <2>2. UNCHANGED <<input, heard, answers>>
    BY <1>1 DEF Arrive
  <2>3. /\ typing \in Seq(STRING) /\ serial \in Seq(STRING)
        /\ \A i \in 1 .. Len(typing) : typing[i] \in STRING
    BY DEF LinesInv
  <2>4. SubSeq(typing, 1, n) \in Seq(STRING)
    BY <2>3, SubSeqProperties
  <2>5. SubSeq(typing, n + 1, Len(typing)) \in Seq(STRING)
    BY <2>3, SubSeqProperties
  <2>6. typing' \in Seq(STRING) /\ serial' \in Seq(STRING)
    BY <2>1, <2>3, <2>4, <2>5, ConcatProperties
  <2>7. QED
    BY <2>2, <2>6 DEF LinesInv, LinesWhole
<1>2. CASE ReadChar
  <2> DEFINE c == Head(serial)
             s == heard
             n == Len(heard)
             last == LastCut(Ends(heard))
  <2>1. /\ input \in Seq(STRING) /\ Lines(heard) \in Seq(Seq(STRING))
        /\ heard' = Append(s, c) /\ heard' \in Seq(STRING) /\ last \in 0 .. n
        /\ c \notin LineEnds =>
             /\ input' = Append(input, c) /\ answers' = answers
             /\ Lines(heard)' = Lines(heard) /\ LastCut(Ends(heard')) = last
        /\ c \in LineEnds =>
             /\ input' = <<>> /\ answers' = answers \o Answer(input)
             /\ Lines(heard)' = Append(Lines(heard), input) /\ LastCut(Ends(heard')) = n + 1
    BY <1>2, LinesGrow
  <2>2. /\ serial' \in Seq(STRING) /\ typing' \in Seq(STRING)
        /\ c \in STRING /\ s \in Seq(STRING)
        /\ input = SubSeq(s, last + 1, n) /\ LinesWhole
    BY <1>2 DEF ReadChar, LinesInv
  <2>3. n \in Nat /\ Len(heard') = n + 1
    BY <2>1, <2>2
  <2> HIDE DEF c, n, last
  <2>4. input' = SubSeq(heard', LastCut(Ends(heard')) + 1, Len(heard'))
    <3>1. CASE c \notin LineEnds
      <4> DEFINE a == last + 1
      <4>1. a \in 1 .. Len(s) + 1
        BY <2>1, <2>3 DEF n
      <4> HIDE DEF a
      <4>2. SubSeq(Append(s, c), a, Len(s) + 1) = Append(SubSeq(s, a, Len(s)), c)
        BY <2>2, <4>1, SubSeqMore
      <4>3. QED
        BY <2>1, <2>2, <2>3, <3>1, <4>2 DEF a, n
    <3>2. CASE c \in LineEnds
      <4>1. SubSeq(heard', n + 1 + 1, n + 1) = <<>>
        BY <2>3, SubSeqEmpty
      <4>2. QED
        BY <2>1, <2>3, <3>2, <4>1
    <3>3. QED
      BY <3>1, <3>2
  <2>5. LinesWhole'
    <3>1. CASE c \notin LineEnds
      BY <2>1, <2>2, <3>1 DEF LinesWhole
    <3>2. CASE c \in LineEnds
      <4> DEFINE F == [line \in Seq(STRING) |-> Answer(line)]
                 X == Seq(STRING)
                 Y == AllAnswers
                 L == Lines(heard)
                 more == Append(L, input)
                 mapped == [k \in DOMAIN L |-> F[L[k]]]
                 newly == [k \in DOMAIN more |-> F[more[k]]]
      <4>1. IsMap(F, X, Seq(Y)) /\ F[input] = Answer(input)
        BY <2>1, AnswerIsOne DEF IsMap
      <4>2. /\ mapped = [k \in DOMAIN L |-> Answer(L[k])]
            /\ newly = [k \in DOMAIN more |-> Answer(more[k])]
        <5>1. \A k \in DOMAIN L : L[k] \in Seq(STRING)
          BY <2>1
        <5>2. \A k \in DOMAIN more : more[k] \in Seq(STRING)
          BY <2>1
        <5>3. QED
          BY <5>1, <5>2
      <4>3. FlattenSeq(newly) = FlattenSeq(mapped) \o F[input]
        <5>1. L \in Seq(X) /\ input \in X
          BY <2>1
        <5>2. IsImage(mapped, L, F) /\ IsImage(newly, Append(L, input), F)
          BY DEF IsImage
        <5> HIDE DEF F, X, Y, L, mapped, newly, more
        <5>3. QED
          BY <4>1, <5>1, <5>2, FlattenMap, Z3
      <4>4. answers = FlattenSeq(mapped)
        BY <2>2, <4>2 DEF LinesWhole
      <4>5. Lines(heard)' = more /\ answers' = answers \o F[input]
        BY <2>1, <3>2, <4>1
      <4>6. LinesWhole' <=> answers' = FlattenSeq([k \in DOMAIN more |-> Answer(more[k])])
        BY <4>5 DEF LinesWhole
      <4> HIDE DEF F, more, mapped, newly
      <4>7. QED
        BY <4>2, <4>3, <4>4, <4>5, <4>6
    <3>3. QED
      BY <3>1, <3>2
  <2>6. QED
    BY <2>1, <2>2, <2>4, <2>5 DEF LinesInv
<1>3. QED
  BY <1>1, <1>2 DEF UsbNext

(* Where nothing was heard there is no line.                                *)
LEMMA NoLines ==
    Cardinality(Ends(<<>>)) = 0 /\ Lines(<<>>) = <<>>
<1> DEFINE none == <<>>
<1>1. Ends(none) = {}
  BY DEF Ends
<1>2. Cardinality(Ends(none)) = 0
  BY <1>1, FS_EmptySet
<1>3. Lines(none) = Pieces(none, Ends(none))
  BY DEF Lines, Ends
<1>4. QED
  BY <1>2, <1>3 DEF Pieces

(* Nothing is heard at first.                                               *)
LEMMA LinesInvInit ==
    ASSUME UsbInit
    PROVE  LinesInv
<1>1. /\ typing \in Seq(STRING) /\ serial = <<>> /\ heard = <<>>
      /\ input = <<>> /\ answers = <<>>
  BY TextsAssumption DEF UsbInit
<1>3. LastCut(Ends(heard)) = 0
  BY <1>1, NoLines DEF LastCut, Cut
<1>4. Lines(heard) = <<>>
  BY <1>1, NoLines
<1>5. [k \in DOMAIN Lines(heard) |-> Answer(Lines(heard)[k])] = <<>>
  BY <1>4
<1>6. LinesWhole
  BY <1>1, <1>5 DEF LinesWhole, FlattenSeq
<1>7. SubSeq(heard, 1, 0) = <<>>
  <2>1. SubSeq(heard, 1, 0) \in Seq(STRING) /\ Len(SubSeq(heard, 1, 0)) = 0
    BY <1>1, SubSeqProperties
  <2>2. QED
    BY <2>1, EmptySeq
<1>8. QED
  BY <1>1, <1>3, <1>6, <1>7 DEF LinesInv

-----------------------------------------------------------------------------
(* What a field says.                                                       *)

(* A set of numbers has a least one.                                        *)
LEMMA Least ==
    ASSUME NEW T, \A x \in T : x \in Nat, T # {}
    PROVE  \E x \in T : \A y \in T : x <= y
<1> DEFINE R == OpToRel(<, Nat)
<1>1. PICK x \in T : \A y \in T : ~(<<y, x>> \in R)
  <2> HIDE DEF R
  <2>1. IsWellFoundedOn(R, Nat)
    BY NatLessThanWellFounded DEF R
  <2>2. T \subseteq Nat
    OBVIOUS
  <2>3. QED
    BY <2>1, <2>2, WFMin
<1>2. ASSUME NEW y \in T PROVE x <= y
  <2>1. <<y, x>> \notin R
    BY <1>1
  <2>2. x \in Nat /\ y \in Nat
    OBVIOUS
  <2>3. ~(y < x)
    BY <2>1, <2>2 DEF OpToRel
  <2>4. QED
    BY <2>2, <2>3
<1>3. QED
  BY <1>2

(* A set of places has a first and a last.                                  *)
LEMMA FirstAndLast ==
    ASSUME NEW n \in Nat, NEW places, PlacesIn(places, n), places # {}
    PROVE  /\ Min(places) \in places /\ \A i \in places : Min(places) <= i
           /\ Max(places) \in places /\ \A i \in places : i <= Max(places)
<1>1. \A i \in places : i \in Nat /\ 1 <= i /\ i <= n
  BY DEF PlacesIn
<1>2. \E x \in places : \A y \in places : x <= y
  BY <1>1, Least
<1>3. \E x \in places : \A y \in places : x >= y
  <2> DEFINE T == {n - i : i \in places}
  <2>1. T # {} /\ \A x \in T : x \in Nat
    BY <1>1
  <2>2. PICK x \in T : \A y \in T : x <= y
    <3> HIDE DEF T
    <3>1. QED
      BY <2>1, Least
  <2>3. PICK i \in places : x = n - i
    OBVIOUS
  <2>4. ASSUME NEW j \in places PROVE i >= j
    <3>1. n - j \in T
      OBVIOUS
    <3>2. n - i <= n - j
      BY <2>2, <2>3, <3>1
    <3>3. i \in Nat /\ j \in Nat
      BY <1>1
    <3>4. QED
      BY <3>2, <3>3
  <2>5. QED
    BY <2>4
<1>4. Min(places) \in places /\ \A y \in places : Min(places) <= y
  BY <1>2 DEF Min
<1>5. Max(places) \in places /\ \A y \in places : Max(places) >= y
  BY <1>3 DEF Max
<1>6. \A y \in places : Max(places) >= y => y <= Max(places)
  BY <1>1, <1>5
<1>7. QED
  BY <1>4, <1>5, <1>6

(* A trimmed text is a text.                                                *)
LEMMA TrimIsText ==
    ASSUME NEW S, NEW s \in Seq(S)
    PROVE  Trim(s) \in Seq(S)
<1> DEFINE solid == {i \in DOMAIN s : s[i] \notin Blank}
           n == Len(s)
           a == Min(solid)
           b == Max(solid)
<1>1. n \in Nat /\ DOMAIN s = 1 .. n
  OBVIOUS
<1>2. PlacesIn(solid, n)
  BY <1>1 DEF PlacesIn
<1>3. Trim(s) = IF solid = {} THEN <<>> ELSE SubSeq(s, a, b)
  BY DEF Trim
<1>4. CASE solid = {}
  BY <1>3, <1>4, EmptySeq
<1>5. CASE solid # {}
  <2> HIDE DEF solid, n
  <2>1. a \in solid /\ b \in solid
    BY <1>1, <1>2, <1>5, FirstAndLast
  <2>2. 1 <= a /\ b <= n /\ a \in Nat /\ b \in Nat
    BY <1>2, <2>1 DEF PlacesIn
  <2> HIDE DEF a, b
  <2>3. \A i \in a .. b : i \in 1 .. n
    BY <1>1, <2>2
  <2>4. \A i \in a .. b : s[i] \in S
    BY <2>3 DEF n
  <2>5. QED
    BY <1>3, <1>5, <2>2, <2>4, SubSeqProperties
<1>6. QED
  BY <1>4, <1>5

WordIsWide ==
    Word \in Nat /\ MaxThing \in Nat /\ Word > MaxThing /\ MaxThing >= 1 /\ MaxThing >= MaxByte

(* A word is wider than a thing, and a thing no narrower than a byte.       *)
LEMMA WordWidth ==
    WordIsWide
<1>1. Base \in Nat /\ Base >= 2
  BY BaseAssumption
<1> DEFINE m == Base * Base
<1>2. m \in Nat /\ m >= Base /\ m >= 4
  BY <1>1
<1> DEFINE w == m * m
<1>3. MaxThing = m - 1
  BY DEF MaxThing
<1>4. Word = w
  <2> HIDE DEF m
  <2>1. MaxThing + 1 = m
    BY <1>2, <1>3
  <2>2. QED
    BY <2>1 DEF Word
<1> HIDE DEF m
<1>5. w \in Nat /\ w >= m
  BY <1>2
<1> HIDE DEF w
<1>6. QED
  BY <1>1, <1>2, <1>3, <1>4, <1>5 DEF WordIsWide, MaxByte

(* A digit is worth less than ten.                                          *)
LEMMA DigitRange ==
    \A c \in DOMAIN Digit : Digit[c] \in 0 .. 9
BY DEF Digit

(* A digit more, in a width that holds the maximum.                         *)
LEMMA AddDigitExact ==
    ASSUME NEW maximum \in Nat, maximum < Word, NEW c \in DOMAIN Digit, NEW w \in Nat
    PROVE  LET p == IF w <= maximum THEN w ELSE Invalid
               v == 10 * w + Digit[c]
           IN  AddDigit(maximum, p, c) = IF v <= maximum THEN v ELSE Invalid
<1> DEFINE d == Digit[c]
           q == maximum \div 10
           r == maximum % 10
           v == 10 * w + d
<1>1. d \in 0 .. 9 /\ Word \in Nat
  BY DigitRange, WordWidth DEF WordIsWide
<1>2. q \in Nat /\ r \in 0 .. 9 /\ maximum = 10 * q + r
  OBVIOUS
<1>3. CASE w > maximum
  <2>1. v > maximum
    BY <1>1, <1>3
  <2>2. AddDigit(maximum, Invalid, c) = Invalid
    BY DEF AddDigit
  <2>3. QED
    BY <1>1, <1>3, <2>1, <2>2
<1>4. CASE w <= maximum
  <2>1. w # Invalid
    BY DEF Invalid
  <2>2. AddDigit(maximum, w, c)
          = IF w > q \/ (w = q /\ d > r) THEN Invalid ELSE (w * 10 + d) % Word
    BY <2>1 DEF AddDigit
  <2> HIDE DEF d, q, r
  <2>3. v <= maximum <=> ~(w > q \/ (w = q /\ d > r))
    BY <1>1, <1>2
  <2>4. v <= maximum => (w * 10 + d) % Word = v
    <3> HAVE v <= maximum
    <3>1. v \in Nat /\ v < Word /\ w * 10 + d = v
      BY <1>1
    <3> HIDE DEF v
    <3>2. v % Word = v
      BY <1>1, <3>1
    <3>3. QED
      BY <3>1, <3>2
  <2> HIDE DEF v
  <2>5. QED
    BY <1>4, <2>2, <2>3, <2>4 DEF d, v
<1>5. QED
  BY <1>3, <1>4

-----------------------------------------------------------------------------
\* What AddDigit makes of the characters of a text so far, each from the last.
Parsing(f, text, maximum) ==
    /\ f[0] = 0
    /\ \A i \in 1 .. Len(text) : f[i] = AddDigit(maximum, f[i - 1], text[i])

(* A digit more gives a number or Invalid, which is one.                    *)
LEMMA AddDigitIsInt ==
    ASSUME NEW maximum, NEW p \in Int, NEW c
    PROVE  AddDigit(maximum, p, c) \in Int
<1>1. CASE c \in DOMAIN Digit
  <2>1. Digit[c] \in Int /\ Word \in Int /\ Word > 0
    BY <1>1, DigitRange, WordWidth DEF WordIsWide
  <2> DEFINE v == p * 10 + Digit[c]
  <2>2. v \in Int
    BY <2>1
  <2>3. AddDigit(maximum, p, c) \in {Invalid, v % Word}
    BY DEF AddDigit
  <2> HIDE DEF v
  <2>4. v % Word \in Int /\ Invalid \in Int
    BY <2>1, <2>2 DEF Invalid
  <2>5. QED
    BY <2>3, <2>4
<1>2. CASE c \notin DOMAIN Digit
  <2>1. AddDigit(maximum, p, c) = Invalid
    BY <1>2 DEF AddDigit
  <2>2. QED
    BY <2>1 DEF Invalid
<1>3. QED
  BY <1>1, <1>2

(* Every text can be parsed character by character,                         *)
LEMMA ParsingExists ==
    ASSUME NEW S, NEW text \in Seq(S), NEW maximum
    PROVE  \E f : Parsing(f, text, maximum)
<1> DEFINE n == Len(text)
           X == Int
           b == 0
           g == [x \in X \X (1 .. n) |-> AddDigit(maximum, x[1], text[x[2]])]
<1>1. n \in Nat
  OBVIOUS
<1>2. \A x \in X \X (1 .. n) : AddDigit(maximum, x[1], text[x[2]]) \in X
  BY AddDigitIsInt
<1>3. IsStep(g, X, n)
  BY <1>2 DEF IsStep
<1>4. PICK f : Follows(f, g, X, n, b)
  <2>1. b \in X
    OBVIOUS
  <2> HIDE DEF g, X, n, b
  <2>2. QED
    BY <1>1, <1>3, <2>1, Recursion
<1>5. ASSUME NEW i \in 1 .. n PROVE f[i] = AddDigit(maximum, f[i - 1], text[i])
  <2>1. f[i - 1] \in X /\ f[i] = g[<<f[i - 1], i>>]
    <3> HIDE DEF g, X, b
    <3>1. QED
      BY <1>1, <1>4 DEF Follows
  <2>2. g[<<f[i - 1], i>>] = AddDigit(maximum, f[i - 1], text[i])
    BY <2>1
  <2>3. QED
    BY <2>1, <2>2
<1>6. f[0] = 0
  BY <1>4 DEF Follows
<1>7. QED
  BY <1>5, <1>6 DEF Parsing

(* in one way only,                                                         *)
LEMMA ParsingIsOne ==
    ASSUME NEW S, NEW text \in Seq(S), NEW maximum,
           NEW f, Parsing(f, text, maximum), NEW g, Parsing(g, text, maximum)
    PROVE  f[Len(text)] = g[Len(text)]
<1> DEFINE n == Len(text)
<1>1. n \in Nat
  OBVIOUS
<1>2. f[0] = g[0] /\ \A i \in 1 .. n : f[i - 1] = g[i - 1] => f[i] = g[i]
  BY DEF Parsing
<1> HIDE DEF n
<1>3. \A i \in 0 .. n : f[i] = g[i]
  BY <1>1, <1>2, GoOnAlike, SMTT(40), ZenonT(60)
<1>4. QED
  BY <1>1, <1>3 DEF n

(* After a character that is no digit nothing is valid.                     *)
LEMMA BadDigitStays ==
    ASSUME NEW S, NEW text \in Seq(S), NEW maximum, NEW f, Parsing(f, text, maximum),
           NEW j \in 1 .. Len(text), text[j] \notin DOMAIN Digit
    PROVE  f[Len(text)] = Invalid
<1> DEFINE n == Len(text)
           T == {k \in Nat : j + k <= n => f[j + k] = Invalid}
<1>1. n \in Nat /\ j \in 1 .. n
  OBVIOUS
<1>2. \A i \in 1 .. n : f[i] = AddDigit(maximum, f[i - 1], text[i])
  BY DEF Parsing
<1> HIDE DEF n
<1>3. 0 \in T
  <2>1. AddDigit(maximum, f[j - 1], text[j]) = Invalid
    BY DEF AddDigit
  <2>2. f[j] = Invalid
    BY <1>1, <1>2, <2>1
  <2>3. j + 0 = j
    BY <1>1
  <2>4. QED
    BY <2>2, <2>3
<1>4. ASSUME NEW k \in Nat, k \in T PROVE k + 1 \in T
  <2>1. SUFFICES ASSUME j + (k + 1) <= n PROVE f[j + (k + 1)] = Invalid
    OBVIOUS
  <2> DEFINE i == j + (k + 1)
  <2>2. i \in 1 .. n /\ i - 1 = j + k /\ j + k <= n
    BY <1>1, <2>1
  <2>3. f[j + k] = Invalid
    BY <1>4, <2>2
  <2> HIDE DEF i
  <2>4. f[i] = AddDigit(maximum, f[i - 1], text[i])
    BY <1>2, <2>2
  <2>5. f[i - 1] = Invalid
    BY <2>2, <2>3
  <2>6. f[i] = Invalid
    BY <2>4, <2>5 DEF AddDigit
  <2>7. QED
    BY <2>6 DEF i
<1>5. n - j \in T
  <2>1. n - j \in Nat
    BY <1>1
  <2> HIDE DEF T
  <2>2. QED
    BY <1>3, <1>4, <2>1, Counting
<1>6. j + (n - j) = n
  BY <1>1
<1>7. f[n] = Invalid
  BY <1>1, <1>5, <1>6
<1>8. QED
  BY <1>7 DEF n

(* which is that of parseUnsignedField.                                     *)
LEMMA ParseIsParsing ==
    ASSUME NEW S, NEW field \in Seq(S), NEW maximum,
           NEW f, Parsing(f, Trim(field), maximum), Trim(field) # <<>>
    PROVE  ParseUnsigned(field, maximum) = f[Len(Trim(field))]
<1> DEFINE text == Trim(field)
           n == Len(text)
           Step(h) == [i \in 0 .. n |->
                         IF i = 0 THEN 0 ELSE AddDigit(maximum, h[i - 1], text[i])]
           e == [i \in 0 .. n |-> f[i]]
           p == CHOOSE h : h = Step(h)
<1>1. text \in Seq(S)
  BY TrimIsText
<1>2. ParseUnsigned(field, maximum) = p[n]
  BY DEF ParseUnsigned
<1> HIDE DEF text
<1>3. n \in Nat
  BY <1>1
<1>4. e = Step(e)
  <2>1. ASSUME NEW i \in 0 .. n
        PROVE  f[i] = IF i = 0 THEN 0 ELSE AddDigit(maximum, e[i - 1], text[i])
    <3>1. CASE i = 0
      BY <3>1 DEF Parsing, text
    <3>2. CASE i # 0
      <4>1. i \in 1 .. n /\ e[i - 1] = f[i - 1]
        BY <1>3, <3>2
      <4>2. QED
        BY <3>2, <4>1 DEF Parsing, text
    <3>3. QED
      BY <3>1, <3>2
  <2>2. QED
    BY <2>1
<1>5. p = Step(p)
  <2> HIDE DEF Step
  <2>1. \E h : h = Step(h)
    BY <1>4
  <2>2. QED
    BY <2>1
<1> HIDE DEF p
<1>6. Parsing(p, text, maximum)
  <2>1. p[0] = 0
    BY <1>3, <1>5
  <2>2. ASSUME NEW i \in 1 .. n PROVE p[i] = AddDigit(maximum, p[i - 1], text[i])
    <3>1. i \in 0 .. n /\ i # 0
      BY <1>3
    <3>2. QED
      BY <1>5, <3>1
  <2>3. QED
    BY <2>1, <2>2 DEF Parsing
<1>7. p[n] = f[n]
  BY <1>1, <1>6, ParsingIsOne DEF text
<1>8. QED
  BY <1>2, <1>7 DEF text

-----------------------------------------------------------------------------
\* What the digits so far are worth.
Worths(f, digits) ==
    /\ f \in [0 .. Len(digits) -> Nat]
    /\ f[0] = 0
    /\ \A i \in 1 .. Len(digits) : f[i] = 10 * f[i - 1] + Digit[digits[i]]

(* So can digits be added up,                                               *)
LEMMA WorthsExist ==
    ASSUME NEW digits \in Seq(DOMAIN Digit)
    PROVE  \E f : Worths(f, digits)
<1> DEFINE n == Len(digits)
           X == Nat
           b == 0
           g == [x \in X \X (1 .. n) |-> 10 * x[1] + Digit[digits[x[2]]]]
<1>1. n \in Nat /\ b \in X /\ \A i \in 1 .. n : Digit[digits[i]] \in Nat
  BY DigitRange
<1>2. IsStep(g, X, n)
  <2>1. ASSUME NEW x \in X \X (1 .. n) PROVE 10 * x[1] + Digit[digits[x[2]]] \in X
    <3>1. x[1] \in Nat /\ Digit[digits[x[2]]] \in Nat
      BY <1>1
    <3>2. QED
      BY <3>1
  <2>2. QED
    BY <2>1 DEF IsStep
<1>3. PICK f : Follows(f, g, X, n, b)
  <2> HIDE DEF g, X, n, b
  <2>1. QED
    BY <1>1, <1>2, Recursion
<1>4. ASSUME NEW i \in 1 .. n PROVE f[i] = 10 * f[i - 1] + Digit[digits[i]]
  <2>1. f[i - 1] \in X /\ f[i] = g[<<f[i - 1], i>>]
    <3> HIDE DEF g, X, b, n
    <3>1. f \in [0 .. n -> X] /\ \A k \in 1 .. n : f[k] = g[<<f[k - 1], k>>]
      BY <1>3 DEF Follows
    <3>2. i - 1 \in 0 .. n
      BY <1>1
    <3>3. QED
      BY <3>1, <3>2
  <2>2. g[<<f[i - 1], i>>] = 10 * f[i - 1] + Digit[digits[i]]
    BY <2>1
  <2>3. QED
    BY <2>1, <2>2
<1>5. f \in [0 .. n -> Nat] /\ f[0] = 0
  BY <1>3 DEF Follows
<1>6. QED
  BY <1>4, <1>5 DEF Worths

(* and that gives what they are worth.                                      *)
LEMMA WorthIsWorths ==
    ASSUME NEW digits \in Seq(DOMAIN Digit), NEW f, Worths(f, digits)
    PROVE  Worth(digits) = f[Len(digits)]
<1> DEFINE n == Len(digits)
           Step(h) == [i \in 0 .. n |->
                         IF i = 0 THEN 0 ELSE 10 * h[i - 1] + Digit[digits[i]]]
           e == [i \in 0 .. n |-> f[i]]
           p == CHOOSE h : h = Step(h)
<1>1. n \in Nat
  OBVIOUS
<1>2. Worth(digits) = p[n]
  BY DEF Worth
<1>3. e = Step(e)
  <2>1. ASSUME NEW i \in 0 .. n
        PROVE  f[i] = IF i = 0 THEN 0 ELSE 10 * e[i - 1] + Digit[digits[i]]
    <3>1. CASE i = 0
      BY <3>1 DEF Worths
    <3>2. CASE i # 0
      <4>1. i \in 1 .. n /\ e[i - 1] = f[i - 1]
        BY <1>1, <3>2
      <4>2. QED
        BY <3>2, <4>1 DEF Worths
    <3>3. QED
      BY <3>1, <3>2
  <2>2. QED
    BY <2>1
<1>4. p = Step(p)
  <2> HIDE DEF Step
  <2>1. \E h : h = Step(h)
    BY <1>3
  <2>2. QED
    BY <2>1
<1> HIDE DEF p
<1>5. \A i \in 0 .. n : p[i] = f[i]
  <2>1. p[0] = f[0]
    BY <1>1, <1>4 DEF Worths
  <2>2. ASSUME NEW i \in 1 .. n, p[i - 1] = f[i - 1] PROVE p[i] = f[i]
    <3>1. i \in 0 .. n /\ i # 0
      BY <1>1
    <3>2. p[i] = 10 * p[i - 1] + Digit[digits[i]]
      BY <1>4, <3>1
    <3>3. QED
      BY <2>2, <3>2 DEF Worths
  <2> HIDE DEF n
  <2>3. QED
    BY <1>1, <2>1, <2>2, GoOnAlike, ZenonT(60)
<1>6. QED
  BY <1>1, <1>2, <1>5

(* A field is taken for the number it says, and any other is refused.       *)
LEMMA ParseExact ==
    ASSUME NEW S, NEW field \in Seq(S), NEW maximum \in Nat, maximum < Word
    PROVE  /\ ParseUnsigned(field, maximum)
                = IF Says(field, maximum) THEN Worth(Trim(field)) ELSE Invalid
           /\ Says(field, maximum) => Worth(Trim(field)) \in 0 .. maximum
<1> DEFINE text == Trim(field)
           n == Len(text)
<1>1. text \in Seq(S) /\ n \in Nat
  BY TrimIsText
<1>2. CASE text = <<>>
  BY <1>2 DEF ParseUnsigned, Says
<1>3. CASE text # <<>> /\ ToSet(text) \subseteq DOMAIN Digit
  <2>1. text \in Seq(DOMAIN Digit)
    BY <1>1, <1>3 DEF ToSet
  <2>2. PICK w : Worths(w, text)
    <3> HIDE DEF text
    <3>1. QED
      BY <2>1, WorthsExist
  <2>3. Worth(text) = w[n] /\ w[n] \in Nat
    <3>1. Worth(text) = w[n]
      BY <2>1, <2>2, WorthIsWorths
    <3>2. w[n] \in Nat
      BY <1>1, <2>2 DEF Worths
    <3>3. QED
      BY <3>1, <3>2
  <2> DEFINE f == [i \in 0 .. n |-> IF w[i] <= maximum THEN w[i] ELSE Invalid]
  <2>4. Parsing(f, text, maximum)
    <3> HIDE DEF text
    <3>1. f[0] = 0
      BY <1>1, <2>2 DEF Worths
    <3>2. ASSUME NEW i \in 1 .. n PROVE f[i] = AddDigit(maximum, f[i - 1], text[i])
      <4>1. i \in 0 .. n /\ i - 1 \in 0 .. n /\ text[i] \in DOMAIN Digit
        BY <1>1, <2>1
      <4>2. w[i - 1] \in Nat /\ w[i] = 10 * w[i - 1] + Digit[text[i]]
        BY <1>1, <2>2, <4>1 DEF Worths
      <4> DEFINE c == text[i]
                 u == w[i - 1]
      <4>3. /\ f[i] = IF w[i] <= maximum THEN w[i] ELSE Invalid
            /\ f[i - 1] = IF u <= maximum THEN u ELSE Invalid
        BY <4>1
      <4> HIDE DEF c, u, f
      <4>4. AddDigit(maximum, IF u <= maximum THEN u ELSE Invalid, c)
              = IF 10 * u + Digit[c] <= maximum THEN 10 * u + Digit[c] ELSE Invalid
        BY <4>1, <4>2, AddDigitExact DEF c, u
      <4>5. QED
        BY <4>2, <4>3, <4>4 DEF c, u
    <3>3. QED
      BY <3>1, <3>2 DEF Parsing
  <2>5. ParseUnsigned(field, maximum) = f[n]
    <3> HIDE DEF f
    <3>1. QED
      BY <1>3, <2>4, ParseIsParsing
  <2>6. f[n] = IF w[n] <= maximum THEN w[n] ELSE Invalid
    BY <1>1
  <2>7. Says(field, maximum) <=> w[n] <= maximum
    BY <1>3, <2>3 DEF Says
  <2> HIDE DEF f, text, n
  <2>8. QED
    BY <2>3, <2>5, <2>6, <2>7 DEF text
<1>4. CASE text # <<>> /\ ~(ToSet(text) \subseteq DOMAIN Digit)
  <2>1. PICK j \in 1 .. n : text[j] \notin DOMAIN Digit
    BY <1>1, <1>4 DEF ToSet
  <2>2. PICK f : Parsing(f, text, maximum)
    <3> HIDE DEF text
    <3>1. QED
      BY <1>1, ParsingExists
  <2>4. f[n] = Invalid
    <3> HIDE DEF text
    <3>1. QED
      BY <1>1, <2>1, <2>2, BadDigitStays
  <2>5. ParseUnsigned(field, maximum) = Invalid
    BY <1>4, <2>2, <2>4, ParseIsParsing
  <2>6. ~Says(field, maximum)
    BY <1>4 DEF Says
  <2>7. QED
    BY <2>5, <2>6
<1>5. QED
  BY <1>2, <1>3, <1>4

-----------------------------------------------------------------------------
(* The line without its first field.                                        *)

Shift(A) == {i + 2 : i \in A}

(* Moving places leaves as many,                                            *)
LEMMA ShiftKeepsNumber ==
    ASSUME NEW A, IsFiniteSet(A), \A i \in A : i \in Nat
    PROVE  IsFiniteSet(Shift(A)) /\ Cardinality(Shift(A)) = Cardinality(A)
<1> DEFINE f == [i \in A |-> i + 2]
           T == Shift(A)
<1>1. f \in [A -> T] /\ (\A y \in T : \E x \in A : f[x] = y)
  BY DEF Shift
<1>2. \A x, y \in A : f[x] = f[y] => x = y
  OBVIOUS
<1>3. f \in Bijection(A, T)
  BY <1>1, <1>2 DEF Bijection, Injection, Surjection, IsInjective
<1>4. ExistsBijection(A, T)
  BY <1>3 DEF ExistsBijection
<1> HIDE DEF T
<1>5. IsFiniteSet(T) /\ Cardinality(T) = Cardinality(A)
  BY <1>4, FS_Bijection
<1>6. QED
  BY <1>5 DEF T

(* with the first comma's place there is one more,                          *)
LEMMA ShiftPlaces ==
    ASSUME NEW n \in Nat, NEW places, PlacesIn(places, n),
           NEW more, more = {2} \cup Shift(places)
    PROVE  /\ PlacesIn(more, n + 2)
           /\ Cardinality(more) = Cardinality(places) + 1
           /\ Kth(more, 1) = 2
<1>1. \A i \in places : i \in Nat /\ 1 <= i /\ i <= n
  BY DEF PlacesIn
<1>2. PlacesIn(more, n + 2) /\ 2 \in more
  BY <1>1 DEF PlacesIn, Shift
<1>3. IsFiniteSet(places) /\ 2 \notin Shift(places)
  BY <1>1, PlacesAreFew DEF Shift
<1>4. IsFiniteSet(Shift(places)) /\ Cardinality(Shift(places)) = Cardinality(places)
  BY <1>1, <1>3, ShiftKeepsNumber
<1>5. more = Shift(places) \cup {2}
  OBVIOUS
<1>6. Cardinality(more) = Cardinality(places) + 1
  BY <1>3, <1>4, <1>5, FS_AddElement
<1>7. UpTo(more, 2) = {2}
  BY <1>1 DEF UpTo, Shift
<1>8. Cardinality(UpTo(more, 2)) = 1
  BY <1>7, FS_Singleton
<1>9. Kth(more, 1) = 2
  <2> DEFINE m == n + 2
  <2>1. m \in Nat /\ PlacesIn(more, m)
    BY <1>2
  <2> HIDE DEF m
  <2>2. Kth(more, Cardinality(UpTo(more, 2))) = 2
    BY <1>2, <2>1, KthIsOnly
  <2>3. QED
    BY <1>8, <2>2
<1>10. QED
  BY <1>2, <1>6, <1>9

(* and each is numbered one higher.                                         *)
LEMMA ShiftKth ==
    ASSUME NEW n \in Nat, NEW places, PlacesIn(places, n),
           NEW more, more = {2} \cup Shift(places), NEW k \in 1 .. Cardinality(places)
    PROVE  Kth(more, k + 1) = Kth(places, k) + 2
<1> DEFINE i == Kth(places, k)
           part == UpTo(places, i)
<1>1. \A j \in places : j \in Nat /\ 1 <= j /\ j <= n
  BY DEF PlacesIn
<1>2. i \in places /\ Cardinality(part) = k
  BY KthIsPlace
<1> HIDE DEF i
<1>3. i \in Nat /\ i + 2 \in more
  BY <1>1, <1>2 DEF Shift
<1>4. UpTo(more, i + 2) = Shift(part) \cup {2} /\ 2 \notin Shift(part)
  <2>1. \A j : j \in UpTo(more, i + 2) <=> j = 2 \/ \E h \in places : j = h + 2 /\ h <= i
    BY <1>1, <1>3 DEF UpTo, Shift
  <2>2. \A j : j \in Shift(part) <=> \E h \in places : j = h + 2 /\ h <= i
    BY DEF UpTo, Shift
  <2>3. \A h \in places : h + 2 # 2
    BY <1>1
  <2>4. QED
    BY <2>1, <2>2, <2>3
<1>5. IsFiniteSet(part) /\ \A j \in part : j \in Nat
  BY <1>1, PlacesAreFew DEF UpTo
<1> HIDE DEF part
<1>6. IsFiniteSet(Shift(part)) /\ Cardinality(Shift(part)) = k
  BY <1>2, <1>5, ShiftKeepsNumber
<1>7. Cardinality(UpTo(more, i + 2)) = k + 1
  BY <1>4, <1>6, FS_AddElement
<1>8. PlacesIn(more, n + 2)
  BY ShiftPlaces
<1>9. Kth(more, Cardinality(UpTo(more, i + 2))) = i + 2
  <2> DEFINE m == n + 2
             j == i + 2
  <2>1. m \in Nat /\ PlacesIn(more, m) /\ j \in more
    BY <1>3, <1>8
  <2> HIDE DEF m, j
  <2>2. Kth(more, Cardinality(UpTo(more, j))) = j
    BY <2>1, KthIsOnly
  <2>3. QED
    BY <2>2 DEF j
<1>10. QED
  BY <1>7, <1>9 DEF i

\* Where the fields of a line end.
FieldEnds(s) == {i \in DOMAIN s : s[i] = Comma} \cup {Len(s) + 1}

(* A line has as many fields as ends of fields, and each is a text.         *)
LEMMA FieldEndsArePlaces ==
    ASSUME NEW S, NEW s \in Seq(S)
    PROVE  /\ PlacesIn(FieldEnds(s), Len(s) + 1)
           /\ SplitCsv(s) \in Seq(Seq(S))
           /\ Len(SplitCsv(s)) = Cardinality(FieldEnds(s))
<1> DEFINE n == Len(s)
<1>0. n \in Nat /\ DOMAIN s = 1 .. n
  OBVIOUS
<1>1. PlacesIn(FieldEnds(s), n + 1)
  <2> HIDE DEF n
  <2>1. \A i \in FieldEnds(s) : i \in 1 .. n \/ i = n + 1
    BY <1>0 DEF FieldEnds, n
  <2>2. QED
    BY <1>0, <2>1 DEF PlacesIn
<1>2. SplitCsv(s) = Pieces(s, FieldEnds(s))
  BY DEF SplitCsv, FieldEnds
<1>3. QED
  BY <1>1, <1>2, PiecesAreParts

(* A part of what follows the first two characters is a part of the line.   *)
LEMMA SubSeqOfRest ==
    ASSUME NEW S, NEW t \in Seq(S), Len(t) >= 2,
           NEW a \in Nat \ {0}, NEW b \in Int, b <= Len(t) - 2
    PROVE  SubSeq(t, a + 2, b + 2) = SubSeq(SubSeq(t, 3, Len(t)), a, b)
<1> DEFINE n == Len(t)
           r == SubSeq(t, 3, n)
           a2 == a + 2
           b2 == b + 2
<1>1. n \in Nat /\ n >= 2 /\ \A i \in 1 .. n : t[i] \in S
  OBVIOUS
<1> HIDE DEF n
<1>2. r \in Seq(S) /\ Len(r) = n - 2 /\ \A i \in 1 .. n - 2 : r[i] = t[i + 2]
  <2>1. \A i \in 3 .. n : t[i] \in S
    BY <1>1
  <2>2. /\ r \in Seq(S) /\ Len(r) = IF 3 <= n THEN n - 3 + 1 ELSE 0
        /\ \A i \in 1 .. n - 3 + 1 : r[i] = t[3 + i - 1]
    BY <1>1, <2>1, SubSeqProperties
  <2>3. n - 3 + 1 = n - 2 /\ \A i \in 1 .. n - 2 : 3 + i - 1 = i + 2
    BY <1>1
  <2>4. Len(r) = n - 2
    BY <1>1, <2>2, <2>3
  <2> HIDE DEF r
  <2>5. QED
    BY <2>2, <2>3, <2>4
<1> HIDE DEF r
<1>3. /\ a2 \in Int /\ b2 \in Int /\ b2 - a2 + 1 = b - a + 1
      /\ a2 <= b2 <=> a <= b
  OBVIOUS
<1>3a. \A i \in a2 .. b2 : t[i] \in S
  BY <1>1 DEF n
<1>4. \A i \in a .. b : r[i] \in S /\ r[i] = t[i + 2]
  <2>0. b <= n - 2
    BY DEF n
  <2>1. \A i \in a .. b : i \in 1 .. n - 2 /\ i + 2 \in 1 .. n
    BY <1>1, <2>0
  <2>2. \A i \in a .. b : r[i] = t[i + 2] /\ t[i + 2] \in S
    BY <1>1, <1>2, <2>1
  <2>3. QED
    BY <2>2
<1> HIDE DEF a2, b2
<1>5. /\ SubSeq(t, a2, b2) \in Seq(S)
      /\ Len(SubSeq(t, a2, b2)) = IF a2 <= b2 THEN b2 - a2 + 1 ELSE 0
      /\ \A i \in 1 .. b2 - a2 + 1 : SubSeq(t, a2, b2)[i] = t[a2 + i - 1]
  BY <1>3, <1>3a, SubSeqProperties
<1>6. /\ SubSeq(r, a, b) \in Seq(S)
      /\ Len(SubSeq(r, a, b)) = IF a <= b THEN b - a + 1 ELSE 0
      /\ \A i \in 1 .. b - a + 1 : SubSeq(r, a, b)[i] = r[a + i - 1]
  BY <1>4, SubSeqProperties
<1>7. Len(SubSeq(t, a2, b2)) = Len(SubSeq(r, a, b))
  BY <1>3, <1>5, <1>6
<1>8. ASSUME NEW i \in 1 .. b - a + 1 PROVE SubSeq(t, a2, b2)[i] = SubSeq(r, a, b)[i]
  <2>1. a + i - 1 \in a .. b /\ a2 + i - 1 = (a + i - 1) + 2 /\ i \in 1 .. b2 - a2 + 1
    BY <1>3 DEF a2, b2
  <2>2. SubSeq(t, a2, b2)[i] = t[a2 + i - 1] /\ SubSeq(r, a, b)[i] = r[a + i - 1]
    BY <1>5, <1>6, <2>1
  <2>3. QED
    BY <1>4, <2>1, <2>2
<1>9. \A i \in 1 .. Len(SubSeq(t, a2, b2)) : i \in 1 .. b - a + 1
  BY <1>6, <1>7
<1>10. SubSeq(t, a2, b2) = SubSeq(r, a, b)
  BY <1>5, <1>6, <1>7, <1>8, <1>9, SeqEqual
<1>11. QED
  BY <1>10 DEF a2, b2, r, n

-----------------------------------------------------------------------------
Rest(t) == SubSeq(t, 3, Len(t))

(* The rest of a line is the line, two places on.                           *)
LEMMA RestIsText ==
    ASSUME NEW S, NEW t \in Seq(S), Len(t) >= 2
    PROVE  /\ Rest(t) \in Seq(S) /\ Len(Rest(t)) = Len(t) - 2
           /\ \A i \in 1 .. Len(t) - 2 : Rest(t)[i] = t[i + 2]
<1> DEFINE n == Len(t)
           r == SubSeq(t, 3, n)
<1>1. n \in Nat /\ n >= 2 /\ \A i \in 1 .. n : t[i] \in S
  OBVIOUS
<1> HIDE DEF n
<1>2. \A i \in 3 .. n : t[i] \in S
  BY <1>1
<1>3. /\ r \in Seq(S) /\ Len(r) = IF 3 <= n THEN n - 3 + 1 ELSE 0
      /\ \A i \in 1 .. n - 3 + 1 : r[i] = t[3 + i - 1]
  BY <1>1, <1>2, SubSeqProperties
<1>4. n - 3 + 1 = n - 2 /\ \A i \in 1 .. n - 2 : 3 + i - 1 = i + 2
  BY <1>1
<1>5. Len(r) = n - 2
  BY <1>1, <1>3, <1>4
<1> HIDE DEF r
<1>6. /\ r \in Seq(S) /\ Len(r) = n - 2
      /\ \A i \in 1 .. n - 2 : r[i] = t[i + 2]
  BY <1>3, <1>4, <1>5
<1>7. QED
  BY <1>6 DEF r, n, Rest

(* Past the first, fields of a line end where those of its rest do.         *)
LEMMA EndsOfRest ==
    ASSUME NEW S, NEW t \in Seq(S), Len(t) >= 2, t[1] # Comma, t[2] = Comma
    PROVE  FieldEnds(t) = {2} \cup Shift(FieldEnds(Rest(t)))
<1> DEFINE n == Len(t)
           r == Rest(t)
<1>1. /\ n \in Nat /\ n >= 2 /\ DOMAIN t = 1 .. n
      /\ r \in Seq(S) /\ Len(r) = n - 2 /\ \A i \in 1 .. n - 2 : r[i] = t[i + 2]
  BY RestIsText
<1>2. DOMAIN r = 1 .. n - 2
  BY <1>1
<1> HIDE DEF n, r
<1>3. \A i : i \in FieldEnds(t) <=> (i \in 1 .. n /\ t[i] = Comma) \/ i = n + 1
  BY <1>1 DEF FieldEnds, n
<1>4. \A i : i \in FieldEnds(r) <=> (i \in 1 .. n - 2 /\ r[i] = Comma) \/ i = n - 1
  BY <1>1, <1>2 DEF FieldEnds
<1>5. ASSUME NEW i \in FieldEnds(t), i # 2 PROVE i \in Shift(FieldEnds(r))
  <2>1. CASE i = n + 1
    <3>1. n - 1 \in FieldEnds(r) /\ i = (n - 1) + 2
      BY <1>1, <1>4, <2>1
    <3>2. QED
      BY <3>1 DEF Shift
  <2>2. CASE i \in 1 .. n /\ t[i] = Comma
    <3>1. i - 2 \in 1 .. n - 2 /\ (i - 2) + 2 = i
      BY <1>1, <1>5, <2>2
    <3>2. r[i - 2] = Comma
      BY <1>1, <2>2, <3>1
    <3>3. i - 2 \in FieldEnds(r)
      BY <1>4, <3>1, <3>2
    <3>4. QED
      BY <3>1, <3>3 DEF Shift
  <2>3. QED
    BY <1>3, <2>1, <2>2
<1>6. ASSUME NEW j \in FieldEnds(r) PROVE j + 2 \in FieldEnds(t)
  <2>1. CASE j = n - 1
    <3>1. j + 2 = n + 1
      BY <1>1, <2>1
    <3>2. QED
      BY <1>3, <3>1
  <2>2. CASE j \in 1 .. n - 2 /\ r[j] = Comma
    <3>1. j + 2 \in 1 .. n /\ t[j + 2] = Comma
      BY <1>1, <2>2
    <3>2. QED
      BY <1>3, <3>1
  <2>3. QED
    BY <1>4, <2>1, <2>2
<1>7. 2 \in FieldEnds(t)
  <2>1. 2 \in 1 .. n
    BY <1>1
  <2>2. QED
    BY <1>3, <2>1
<1>8. QED
  BY <1>5, <1>6, <1>7 DEF Shift, r

(* So the fields of the rest are those of the line, but the first.          *)
LEMMA SplitRest ==
    ASSUME NEW S, NEW t \in Seq(S), Len(t) >= 2, t[1] # Comma, t[2] = Comma
    PROVE  SplitCsv(t)[1] = <<t[1]>> /\ Tail(SplitCsv(t)) = SplitCsv(Rest(t))
<1> DEFINE n == Len(t)
           r == Rest(t)
           P == FieldEnds(t)
           Q == FieldEnds(r)
           q == Cardinality(Q)
<1>1. /\ n \in Nat /\ n >= 2 /\ r \in Seq(S) /\ Len(r) = n - 2
      /\ \A i \in 1 .. n : t[i] \in S
  BY RestIsText
<1>2. P = {2} \cup Shift(Q)
  BY EndsOfRest
<1>3. /\ PlacesIn(Q, n - 1) /\ SplitCsv(r) \in Seq(Seq(S)) /\ Len(SplitCsv(r)) = q
      /\ SplitCsv(t) \in Seq(Seq(S)) /\ Len(SplitCsv(t)) = Cardinality(P)
  <2>1. Len(r) + 1 = n - 1
    BY <1>1
  <2> HIDE DEF n, r
  <2>2. QED
    BY <1>1, <2>1, FieldEndsArePlaces
<1>4. SplitCsv(t) = Pieces(t, P) /\ SplitCsv(r) = Pieces(r, Q)
  BY DEF SplitCsv, FieldEnds
<1> HIDE DEF P, Q, n
<1>5. /\ Cardinality(P) = q + 1 /\ Kth(P, 1) = 2
      /\ \A k \in 1 .. q : Kth(P, k + 1) = Kth(Q, k) + 2
      /\ q \in Nat /\ \A k \in 0 .. q : Cut(Q, k) \in 0 .. n - 1
  <2> DEFINE m == n - 1
  <2>1. m \in Nat
    BY <1>1
  <2>2. PlacesIn(Q, m)
    BY <1>3
  <2> HIDE DEF m
  <2>3. Cardinality(P) = Cardinality(Q) + 1 /\ Kth(P, 1) = 2
    BY <1>2, <2>1, <2>2, ShiftPlaces
  <2>4. ASSUME NEW k \in 1 .. Cardinality(Q) PROVE Kth(P, k + 1) = Kth(Q, k) + 2
    BY <1>2, <2>1, <2>2, ShiftKth
  <2>5. Cardinality(Q) \in Nat
    BY <2>1, <2>2, PlacesAreFew
  <2>6. ASSUME NEW k \in 0 .. Cardinality(Q) PROVE Cut(Q, k) \in 0 .. m
    BY <2>1, <2>2, CutIsIn
  <2>7. QED
    BY <2>3, <2>4, <2>5, <2>6 DEF m
<1> HIDE DEF q, r
<1>6. \A k \in 0 .. q : Cut(P, k + 1) = Cut(Q, k) + 2
  <2> SUFFICES ASSUME NEW k \in 0 .. q PROVE Cut(P, k + 1) = Cut(Q, k) + 2
    OBVIOUS
  <2>1. Cut(P, k + 1) = Kth(P, k + 1)
    BY DEF Cut
  <2>2. CASE k = 0
    BY <1>5, <2>1, <2>2 DEF Cut
  <2>3. CASE k # 0
    <3>1. k \in 1 .. q
      BY <1>5, <2>3
    <3>2. QED
      BY <1>5, <2>1, <2>3, <3>1 DEF Cut
  <2>4. QED
    BY <2>2, <2>3
<1>7. SplitCsv(t) = [k \in 1 .. q + 1 |-> SubSeq(t, Cut(P, k - 1) + 1, Cut(P, k) - 1)]
  BY <1>4, <1>5 DEF Pieces
<1>8. SplitCsv(r) = [k \in 1 .. q |-> SubSeq(r, Cut(Q, k - 1) + 1, Cut(Q, k) - 1)]
  BY <1>4 DEF Pieces, q
<1>9. SplitCsv(t)[1] = <<t[1]>>
  <2>1. Cut(P, 1) = 2 /\ Cut(P, 0) = 0
    BY <1>5 DEF Cut
  <2>2. 1 \in 1 .. q + 1
    BY <1>5
  <2>3. SplitCsv(t)[1] = SubSeq(t, 1, 1)
    <3>1. SplitCsv(t)[1] = SubSeq(t, Cut(P, 1 - 1) + 1, Cut(P, 1) - 1)
      BY <1>7, <2>2
    <3>2. 1 - 1 = 0 /\ 0 + 1 = 1 /\ 2 - 1 = 1
      OBVIOUS
    <3>3. QED
      BY <2>1, <3>1, <3>2
  <2>4. t[1] \in S /\ \A i \in 1 .. 1 : t[i] \in S
    BY <1>1
  <2>5. /\ SubSeq(t, 1, 1) \in Seq(S) /\ Len(SubSeq(t, 1, 1)) = 1
        /\ SubSeq(t, 1, 1)[1] = t[1]
    BY <2>4, SubSeqProperties
  <2>6. SubSeq(t, 1, 1) = <<t[1]>>
    <3> DEFINE u == SubSeq(t, 1, 1)
    <3> HIDE DEF u
    <3>1. u \in Seq(S) /\ Len(u) = 1 /\ u[1] = t[1]
      BY <2>5 DEF u
    <3>2. u = <<u[1]>>
      BY <3>1
    <3>3. QED
      BY <3>1, <3>2 DEF u
  <2>7. QED
    BY <2>3, <2>6
<1>10. ASSUME NEW k \in 1 .. q PROVE SplitCsv(t)[k + 1] = SplitCsv(r)[k]
  <2> DEFINE a == Cut(Q, k - 1) + 1
             b == Cut(Q, k) - 1
  <2>1. k - 1 \in 0 .. q /\ k \in 0 .. q /\ k + 1 \in 1 .. q + 1 /\ (k - 1) + 1 = k /\ (k + 1) - 1 = k
    BY <1>5
  <2>2. SplitCsv(t)[k + 1] = SubSeq(t, Cut(P, k) + 1, Cut(P, k + 1) - 1)
    BY <1>7, <2>1
  <2>3. Cut(P, k) = Cut(Q, k - 1) + 2
    BY <1>6, <2>1
  <2>4. Cut(P, k + 1) = Cut(Q, k) + 2
    BY <1>6, <2>1
  <2>5. Cut(Q, k - 1) \in 0 .. n - 1 /\ Cut(Q, k) \in 0 .. n - 1
    BY <1>5, <2>1
  <2>6. Cut(P, k) + 1 = a + 2 /\ Cut(P, k + 1) - 1 = b + 2
    BY <1>1, <2>3, <2>4, <2>5, SMTT(40)
  <2>7. a \in Nat \ {0} /\ b \in Int /\ b <= n - 2
    BY <1>1, <2>5, SMTT(40)
  <2> HIDE DEF a, b
  <2>8. SubSeq(t, a + 2, b + 2) = SubSeq(SubSeq(t, 3, Len(t)), a, b)
    BY <1>1, <2>7, SubSeqOfRest DEF n
  <2>9. SplitCsv(r)[k] = SubSeq(r, a, b)
    BY <1>8 DEF a, b
  <2>10. QED
    BY <2>2, <2>6, <2>8, <2>9 DEF r, Rest
<1>11. Tail(SplitCsv(t)) = SplitCsv(r)
  <2> DEFINE u == SplitCsv(t)
             v == SplitCsv(r)
  <2>1. /\ u \in Seq(Seq(S)) /\ v \in Seq(Seq(S)) /\ Len(u) = q + 1 /\ Len(v) = q
        /\ \A k \in 1 .. q : u[k + 1] = v[k]
    BY <1>3, <1>5, <1>10 DEF q
  <2> HIDE DEF u, v
  <2>2. /\ Tail(u) \in Seq(Seq(S)) /\ Len(Tail(u)) = q
        /\ \A k \in 1 .. q : Tail(u)[k] = u[k + 1]
    BY <1>5, <2>1, HeadTailProperties
  <2>3. Tail(u) = v
    BY <2>1, <2>2, SeqEqual, SMTT(40)
  <2>4. QED
    BY <2>3 DEF u, v
<1>12. QED
  BY <1>9, <1>11 DEF r

(* The first of several fields stands before a comma.                       *)
LEMMA FirstFieldStands ==
    ASSUME NEW S, NEW t \in Seq(S), NEW c, c # Comma,
           SplitCsv(t)[1] = <<c>>, Len(SplitCsv(t)) >= 2
    PROVE  Len(t) >= 2 /\ t[1] = c /\ t[2] = Comma
<1> DEFINE n == Len(t)
           P == FieldEnds(t)
           p == Cardinality(P)
           e == Kth(P, 1)
<1>1. n \in Nat /\ DOMAIN t = 1 .. n /\ \A i \in 1 .. n : t[i] \in S
  OBVIOUS
<1>2. PlacesIn(P, n + 1) /\ SplitCsv(t) \in Seq(Seq(S)) /\ Len(SplitCsv(t)) = p
  BY FieldEndsArePlaces
<1>3. SplitCsv(t) = [k \in 1 .. p |-> SubSeq(t, Cut(P, k - 1) + 1, Cut(P, k) - 1)]
  BY DEF SplitCsv, FieldEnds, Pieces
<1>4. \A i : i \in P <=> (i \in 1 .. n /\ t[i] = Comma) \/ i = n + 1
  BY <1>1 DEF FieldEnds
<1> HIDE DEF P, n
<1>5. p \in Nat /\ p >= 2
  <2> DEFINE m == n + 1
  <2>1. m \in Nat /\ PlacesIn(P, m)
    BY <1>1, <1>2
  <2> HIDE DEF m
  <2>2. p \in Nat
    BY <2>1, PlacesAreFew
  <2>3. QED
    BY <1>2, <2>2
<1>6. e \in P /\ e \in 1 .. n + 1
  <2> DEFINE m == n + 1
  <2>1. m \in Nat /\ PlacesIn(P, m) /\ 1 \in 1 .. Cardinality(P)
    BY <1>1, <1>2, <1>5
  <2> HIDE DEF m
  <2>2. e \in P
    BY <2>1, KthIsPlace
  <2>3. QED
    BY <2>1, <2>2 DEF PlacesIn, m
<1> HIDE DEF p
<1>7. SplitCsv(t)[1] = SubSeq(t, 1, e - 1)
  <2>1. Cut(P, 1) = e /\ Cut(P, 0) = 0 /\ 1 \in 1 .. p
    BY <1>5 DEF Cut
  <2>2. SplitCsv(t)[1] = SubSeq(t, Cut(P, 1 - 1) + 1, Cut(P, 1) - 1)
    BY <1>3, <2>1
  <2>3. 1 - 1 = 0 /\ 0 + 1 = 1
    OBVIOUS
  <2>4. QED
    BY <2>1, <2>2, <2>3
<1> HIDE DEF e
<1>8. e = 2 /\ t[1] = c /\ n >= 1
  <2> DEFINE b == e - 1
             u == SubSeq(t, 1, b)
  <2>1. b \in 0 .. n
    BY <1>1, <1>6
  <2>2. \A i \in 1 .. b : t[i] \in S
    BY <1>1, <2>1
  <2> HIDE DEF b
  <2>3. Len(u) = (IF 1 <= b THEN b - 1 + 1 ELSE 0) /\ \A i \in 1 .. b - 1 + 1 : u[i] = t[1 + i - 1]
    BY <2>1, <2>2, SubSeqProperties
  <2>4. u = <<c>>
    BY <1>7 DEF b
  <2>5. Len(u) = 1 /\ u[1] = c
    <3> HIDE DEF u
    <3>1. QED
      BY <2>4
  <2>6. b = 1
    BY <2>1, <2>3, <2>5
  <2>7. u[1] = t[1]
    BY <2>3, <2>6
  <2>8. QED
    BY <1>6, <2>1, <2>5, <2>6, <2>7 DEF b
<1>9. n >= 2
  <2>1. SUFFICES ASSUME n = 1 PROVE FALSE
    BY <1>1, <1>8
  <2>2. P = {2}
    <3>1. \A i \in 1 .. n : i = 1
      BY <2>1
    <3>2. \A i : i \in P <=> i = 2
      BY <1>4, <1>8, <2>1, <3>1
    <3>3. QED
      BY <3>2
  <2>3. p = 1
    BY <2>2, FS_Singleton DEF p
  <2>4. QED
    BY <1>5, <2>3
<1>10. t[2] = Comma
  BY <1>1, <1>4, <1>6, <1>8, <1>9
<1>11. QED
  BY <1>8, <1>9, <1>10 DEF n

-----------------------------------------------------------------------------
(* A command is sent if and only if the line asks for it, with its numbers. *)

(* What it takes to begin with a name and a comma.                          *)
LEMMA PrefixOfTwo ==
    ASSUME NEW S, NEW t \in Seq(S), NEW a, NEW b
    PROVE  IsPrefix(<<a, b>>, t) <=> Len(t) >= 2 /\ t[1] = a /\ t[2] = b
<1> DEFINE u == <<a, b>>
           v == SubSeq(t, 1, 2)
           w == SubSeq(u, 1, 2)
           X == {a, b}
<1>1. u \in Seq(X) /\ Len(u) = 2 /\ u[1] = a /\ u[2] = b /\ Len(t) \in Nat
  OBVIOUS
<1>2. IsPrefix(u, t) <=> 2 <= Len(t) /\ w = v
  BY <1>1 DEF IsPrefix
<1> HIDE DEF u, X
<1>3. Len(w) = 2 /\ w[1] = a /\ w[2] = b /\ w \in Seq(X)
  <2>1. \A i \in 1 .. 2 : u[i] \in X
    BY <1>1 DEF X
  <2>2. /\ Len(w) = IF 1 <= 2 THEN 2 - 1 + 1 ELSE 0
        /\ \A i \in 1 .. 2 - 1 + 1 : w[i] = u[1 + i - 1]
        /\ w \in Seq(X)
    BY <2>1, SubSeqProperties
  <2>3. w[1] = u[1] /\ w[2] = u[2]
    BY <2>2
  <2> HIDE DEF w
  <2>4. QED
    BY <1>1, <2>2, <2>3
<1>4. ASSUME Len(t) >= 2
      PROVE  Len(v) = 2 /\ v[1] = t[1] /\ v[2] = t[2] /\ v \in Seq(S)
  <2>1. \A i \in 1 .. 2 : t[i] \in S
    BY <1>4
  <2>2. /\ Len(v) = IF 1 <= 2 THEN 2 - 1 + 1 ELSE 0
        /\ \A i \in 1 .. 2 - 1 + 1 : v[i] = t[1 + i - 1]
        /\ v \in Seq(S)
    BY <2>1, SubSeqProperties
  <2>3. v[1] = t[1] /\ v[2] = t[2]
    BY <2>2
  <2> HIDE DEF v
  <2>4. QED
    BY <2>2, <2>3
<1> HIDE DEF v, w
<1>5. ASSUME Len(t) >= 2, t[1] = a, t[2] = b PROVE w = v
  <2>1. \A i \in 1 .. 2 : w[i] = v[i]
    BY <1>3, <1>4, <1>5
  <2>2. QED
    BY <1>3, <1>4, <1>5, <2>1, SeqEqual
<1>6. QED
  BY <1>1, <1>2, <1>3, <1>4, <1>5 DEF u

(* A function on the first numbers is a sequence.                           *)
LEMMA IsSeqOf ==
    ASSUME NEW X, NEW n \in Nat, NEW s, s = [k \in 1 .. n |-> s[k]], \A k \in 1 .. n : s[k] \in X
    PROVE  s \in Seq(X) /\ Len(s) = n
<1> DEFINE t == [k \in 1 .. n |-> s[k]]
<1>1. t \in [1 .. n -> X]
  OBVIOUS
<1>2. t \in Seq(X)
  <2> HIDE DEF t
  <2>1. Seq(X) = UNION {[1 .. m -> X] : m \in Nat}
    BY SeqDef
  <2>2. [1 .. n -> X] \in {[1 .. m -> X] : m \in Nat}
    OBVIOUS
  <2>3. QED
    BY <1>1, <2>1, <2>2
<1>3. Len(t) = n
  BY <1>2, LenProperties
<1>4. s = t
  OBVIOUS
<1> HIDE DEF t
<1>5. QED
  BY <1>2, <1>3, <1>4

\* What send() is called with.
IsCommand(x) ==
    /\ x.kind = "send" /\ x.reliable \in BOOLEAN
    /\ x.thing \in Thing /\ x.id \in Byte /\ x.action \in Byte
    /\ x.payload \in Seq(Byte)

(* The maximum of every field fits a word.                                  *)
LEMMA MaximumFits ==
    ASSUME NEW k \in Nat
    PROVE  Maximum(k) \in Nat /\ Maximum(k) < Word
<1>1. MaxByte \in Nat /\ MaxByte >= 1
  BY BaseAssumption DEF MaxByte
<1>2. 1 < Word /\ MaxThing < Word /\ MaxByte < Word /\ MaxThing \in Nat
  BY <1>1, WordWidth DEF WordIsWide
<1>3. Maximum(k) \in {1, MaxThing, MaxByte}
  BY DEF Maximum
<1>4. QED
  BY <1>1, <1>2, <1>3

(* If the fields are enough and all good they are sent as they say, or not. *)
LEMMA SendCommandExact ==
    ASSUME NEW S, NEW rest \in Seq(S),
           NEW fields, fields = SplitCsv(rest),
           NEW all, all <=> /\ Len(fields) >= 4
                           /\ \A k \in DOMAIN fields : Says(fields[k], Maximum(k))
    PROVE  /\ all => /\ IsCommand(SendCommand(rest))
                     /\ SentBy(SendCommand(rest)) = [k \in DOMAIN fields |-> Worth(Trim(fields[k]))]
           /\ ~all => SendCommand(rest) = [kind |-> "error"]
<1> DEFINE n == Len(fields)
           parsed == [k \in DOMAIN fields |-> ParseUnsigned(fields[k], Maximum(k))]
           worth == [k \in DOMAIN fields |-> Worth(Trim(fields[k]))]
<1>1. fields \in Seq(Seq(S)) /\ n \in Nat /\ DOMAIN fields = 1 .. n
  BY FieldEndsArePlaces
<1>2. ASSUME NEW k \in 1 .. n
      PROVE  /\ parsed[k] = IF Says(fields[k], Maximum(k)) THEN worth[k] ELSE Invalid
             /\ Says(fields[k], Maximum(k)) => worth[k] \in 0 .. Maximum(k)
  <2>1. fields[k] \in Seq(S) /\ k \in Nat
    BY <1>1
  <2>2. Maximum(k) \in Nat /\ Maximum(k) < Word
    BY <2>1, MaximumFits
  <2>3. /\ ParseUnsigned(fields[k], Maximum(k))
             = IF Says(fields[k], Maximum(k)) THEN Worth(Trim(fields[k])) ELSE Invalid
        /\ Says(fields[k], Maximum(k)) => Worth(Trim(fields[k])) \in 0 .. Maximum(k)
    BY <2>1, <2>2, ParseExact
  <2>4. parsed[k] = ParseUnsigned(fields[k], Maximum(k)) /\ worth[k] = Worth(Trim(fields[k]))
    BY <1>1
  <2> HIDE DEF parsed, worth
  <2>5. QED
    BY <2>3, <2>4
<1> DEFINE r == [kind |-> "send",
                 reliable |-> parsed[1] = 1,
                 thing |-> parsed[2] % (MaxThing + 1),
                 id |-> parsed[3] % Base,
                 action |-> parsed[4] % Base,
                 payload |-> [k \in 1 .. Len(parsed) - 4 |-> parsed[k + 4] % Base]]
<1>3. SendCommand(rest) = IF n < 4 \/ Invalid \in ToSet(parsed) THEN [kind |-> "error"] ELSE r
  BY DEF SendCommand
<1>4. DOMAIN parsed = 1 .. n /\ DOMAIN worth = 1 .. n
  BY <1>1
<1>5. parsed = [k \in 1 .. n |-> parsed[k]] /\ worth = [k \in 1 .. n |-> worth[k]]
  BY <1>4
<1>6. worth = [k \in DOMAIN fields |-> Worth(Trim(fields[k]))]
  OBVIOUS
<1> HIDE DEF parsed, worth
<1>7. CASE ~all
  <2>1. n < 4 \/ Invalid \in ToSet(parsed)
    <3>1. CASE n < 4
      BY <3>1
    <3>2. CASE ~(n < 4)
      <4>1. PICK k \in 1 .. n : ~Says(fields[k], Maximum(k))
        BY <1>1, <1>7, <3>2
      <4>2. parsed[k] = Invalid
        BY <1>2, <4>1
      <4>3. QED
        BY <1>4, <4>2 DEF ToSet
    <3>3. QED
      BY <3>1, <3>2
  <2> HIDE DEF n, r
  <2>2. QED
    BY <1>3, <1>7, <2>1
<1>8. CASE all
  <2>1. n >= 4 /\ \A k \in 1 .. n : Says(fields[k], Maximum(k))
    BY <1>1, <1>8
  <2>2. \A k \in 1 .. n : parsed[k] = worth[k] /\ worth[k] \in 0 .. Maximum(k)
    BY <1>2, <2>1
  <2> HIDE DEF n
  <2>3. parsed = worth
    BY <1>5, <2>2
  <2>4. Invalid \notin ToSet(parsed)
    <3>1. \A k \in 1 .. n : worth[k] # Invalid
      BY <2>2 DEF Invalid
    <3>2. QED
      BY <1>4, <2>3, <3>1 DEF ToSet
  <2>5. SendCommand(rest) = r
    <3> HIDE DEF r
    <3>1. QED
      BY <1>1, <1>3, <2>1, <2>4
  <2>6. /\ worth[1] \in 0 .. 1 /\ worth[2] \in 0 .. MaxThing
        /\ \A k \in 3 .. n : worth[k] \in 0 .. MaxByte
    <3>1. 1 \in 1 .. n /\ 2 \in 1 .. n /\ \A k \in 3 .. n : k \in 1 .. n /\ k # 1 /\ k # 2
      BY <1>1, <2>1
    <3>2. Maximum(1) = 1 /\ Maximum(2) = MaxThing /\ \A k : k # 1 /\ k # 2 => Maximum(k) = MaxByte
      BY DEF Maximum
    <3>3. QED
      BY <2>2, <3>1, <3>2
  <2>7. Base \in Nat /\ Base > 0 /\ MaxByte = Base - 1 /\ MaxThing \in Nat
    BY BaseAssumption, WordWidth DEF MaxByte, WordIsWide
  <2>8. \A k \in 3 .. n : worth[k] % Base = worth[k]
    <3> SUFFICES ASSUME NEW k \in 3 .. n PROVE worth[k] % Base = worth[k]
      OBVIOUS
    <3>1. worth[k] \in Nat /\ worth[k] < Base
      BY <2>6, <2>7
    <3>2. QED
      BY <2>7, <3>1
  <2>9. worth[2] % (MaxThing + 1) = worth[2]
    <3> DEFINE m == MaxThing + 1
    <3>1. m \in Nat /\ m > 0 /\ worth[2] \in Nat /\ worth[2] < m
      BY <2>6, <2>7
    <3> HIDE DEF m
    <3>2. worth[2] % m = worth[2]
      BY <3>1
    <3>3. QED
      BY <3>2 DEF m
  <2>10. Len(parsed) = n
    <3>1. \A k \in 1 .. n : worth[k] \in Nat
      <4> SUFFICES ASSUME NEW k \in 1 .. n PROVE worth[k] \in Nat
        OBVIOUS
      <4>1. k \in Nat
        BY <1>1
      <4>2. Maximum(k) \in Nat
        BY <4>1, MaximumFits
      <4>3. QED
        BY <2>2, <4>2
    <3>2. Len(worth) = n
      BY <1>1, <1>5, <3>1, IsSeqOf
    <3>3. QED
      BY <2>3, <3>2
  <2> DEFINE p == [k \in 1 .. n - 4 |-> worth[k + 4]]
  <2>11. \A k \in 1 .. n - 4 : k + 4 \in 3 .. n
    BY <1>1
  <2>12. [k \in 1 .. Len(parsed) - 4 |-> parsed[k + 4] % Base] = p
    BY <2>3, <2>8, <2>10, <2>11
  <2>13. p \in Seq(Byte) /\ Len(p) = n - 4 /\ \A k \in 1 .. n - 4 : p[k] = worth[k + 4]
    <3>1. n - 4 \in Nat
      BY <1>1, <2>1
    <3>2. \A k \in 1 .. n - 4 : worth[k + 4] \in Byte
      BY <2>6, <2>11 DEF Byte
    <3>3. QED
      BY <3>1, <3>2
  <2>14. 3 \in 3 .. n /\ 4 \in 3 .. n
    BY <1>1, <2>1
  <2> DEFINE q == [kind |-> "send", reliable |-> worth[1] = 1, thing |-> worth[2],
                   id |-> worth[3], action |-> worth[4], payload |-> p]
  <2> HIDE DEF p
  <2>15. r = q
    <3>1. parsed[3] % Base = worth[3] /\ parsed[4] % Base = worth[4]
          /\ parsed[2] % (MaxThing + 1) = worth[2] /\ parsed[1] = worth[1]
      BY <2>3, <2>8, <2>9, <2>14
    <3>2. QED
      BY <2>12, <3>1
  <2> HIDE DEF r
  <2>16. IsCommand(q)
    <3>1. worth[2] \in Thing /\ worth[3] \in Byte /\ worth[4] \in Byte
      BY <2>6, <2>14 DEF Thing, Byte
    <3>2. QED
      BY <2>13, <3>1 DEF IsCommand
  <2>17. SentBy(q) = worth
    <3> DEFINE four == <<IF worth[1] = 1 THEN 1 ELSE 0, worth[2], worth[3], worth[4]>>
    <3>1. SentBy(q) = four \o p
      BY DEF SentBy
    <3>2. (IF worth[1] = 1 THEN 1 ELSE 0) = worth[1]
      BY <2>6
    <3>3. four = <<worth[1], worth[2], worth[3], worth[4]>>
      BY <3>2
    <3>4. \A k \in 1 .. n : worth[k] \in Int
      <4> SUFFICES ASSUME NEW k \in 1 .. n PROVE worth[k] \in Int
        OBVIOUS
      <4>1. k \in Nat
        BY <1>1
      <4>2. Maximum(k) \in Nat
        BY <4>1, MaximumFits
      <4>3. QED
        BY <2>2, <4>2
    <3>5. four \in Seq(Int) /\ Len(four) = 4 /\ \A k \in 1 .. 4 : four[k] = worth[k]
      <4> DEFINE w1 == worth[1]
                 w2 == worth[2]
                 w3 == worth[3]
                 w4 == worth[4]
      <4>1. w1 \in Int /\ w2 \in Int /\ w3 \in Int /\ w4 \in Int
        BY <1>1, <2>1, <3>4
      <4>2. four = <<w1, w2, w3, w4>>
        BY <3>3
      <4> HIDE DEF four
      <4>3. four[1] = w1 /\ four[2] = w2 /\ four[3] = w3 /\ four[4] = w4
        BY <4>2
      <4>4. \A k \in 1 .. 4 : four[k] = worth[k]
        BY <4>3
      <4> HIDE DEF w1, w2, w3, w4
      <4>5. QED
        BY <4>1, <4>2, <4>4
    <3>6. p \in Seq(Int)
      <4>1. \A x \in Byte : x \in Int
        BY DEF Byte
      <4>2. QED
        BY <2>13, <4>1
    <3> HIDE DEF four
    <3>7. /\ four \o p \in Seq(Int) /\ Len(four \o p) = n
          /\ \A k \in 1 .. n : (four \o p)[k] = IF k <= 4 THEN four[k] ELSE p[k - 4]
      <4> DEFINE m == Len(four) + Len(p)
      <4>1. m = n
        <5>1. Len(four) = 4 /\ Len(p) = n - 4
          BY <2>13, <3>5
        <5>2. m = 4 + (n - 4)
          BY <5>1
        <5>3. QED
          BY <1>1, <5>2
      <4>2. /\ four \o p \in Seq(Int) /\ Len(four \o p) = m
            /\ \A k \in 1 .. m : (four \o p)[k] = IF k <= Len(four) THEN four[k] ELSE p[k - Len(four)]
        BY <3>5, <3>6, ConcatProperties
      <4> HIDE DEF m
      <4>3. QED
        BY <3>5, <4>1, <4>2
    <3>8. \A k \in 1 .. n : (four \o p)[k] = worth[k]
      <4> SUFFICES ASSUME NEW k \in 1 .. n PROVE (four \o p)[k] = worth[k]
        OBVIOUS
      <4>1. CASE k <= 4
        <5>1. k \in 1 .. 4
          BY <4>1
        <5>2. (four \o p)[k] = four[k] /\ four[k] = worth[k]
          BY <3>5, <3>7, <4>1, <5>1
        <5>3. QED
          BY <5>2
      <4>2. CASE k > 4
        <5>1. k - 4 \in 1 .. n - 4 /\ (k - 4) + 4 = k
          BY <1>1, <4>2
        <5>2. p[k - 4] = worth[k]
          BY <2>13, <5>1
        <5>3. (four \o p)[k] = p[k - 4]
          <6>1. ~(k <= 4)
            BY <4>2
          <6>2. QED
            BY <3>7, <6>1
        <5>4. QED
          BY <5>2, <5>3
      <4>3. k <= 4 \/ k > 4
        BY <1>1
      <4> HIDE DEF p
      <4>4. QED
        BY <4>1, <4>2, <4>3, Zenon
    <3>9. worth \in Seq(Int) /\ Len(worth) = n
      BY <1>1, <1>5, <3>4, IsSeqOf
    <3>10. four \o p = worth
      BY <3>7, <3>8, <3>9, SeqEqual
    <3>11. QED
      BY <3>1, <3>10
  <2> HIDE DEF q
  <2>18. SendCommand(rest) = q
    BY <2>5, <2>15
  <2>19. QED
    BY <1>6, <1>8, <2>16, <2>17, <2>18
<1>9. QED
  BY <1>7, <1>8

-----------------------------------------------------------------------------

(* Every text has a field.                                                  *)
LEMMA FieldsAreSome ==
    ASSUME NEW S, NEW s \in Seq(S)
    PROVE  SplitCsv(s) # <<>>
<1> DEFINE n == Len(s) + 1
<1>1. n \in Nat
  OBVIOUS
<1>2. PlacesIn(FieldEnds(s), n) /\ Len(SplitCsv(s)) = Cardinality(FieldEnds(s))
  BY FieldEndsArePlaces
<1>3. n \in FieldEnds(s)
  BY DEF FieldEnds
<1> HIDE DEF n
<1>4. IsFiniteSet(FieldEnds(s))
  BY <1>1, <1>2, PlacesAreFew
<1>5. Cardinality(FieldEnds(s)) # 0
  BY <1>3, <1>4, FS_EmptySet
<1>6. Len(<<>>) = 0
  OBVIOUS
<1>7. QED
  BY <1>2, <1>5, <1>6

(* A line is answered by a call of send() just if it is a good SEND.        *)
LEMMA AnswerExact ==
    ASSUME NEW line \in Seq(STRING)
    PROVE  \/ /\ Answer(line) = <<>> /\ ~IsSend(line)
           \/ \E x : /\ Answer(line) = <<x>>
                     /\ x.kind = "send" <=> IsSend(line)
                     /\ x.kind = "send" => IsCommand(x) /\ SentBy(x) = SaidBy(line)
<1> DEFINE t == Trim(line)
           rest == Rest(t)
           r3 == [kind |-> "file", name |-> Trim(SubSeq(t, 3, Len(t)))]
           r4 == SendCommand(rest)
           r6 == [kind |-> "echo", line |-> t]
           p2 == t \in {<<"GETTHINGS">>, <<"getthings">>}
           p3 == IsPrefix(<<"GETFILE", Comma>>, t)
           p4 == IsPrefix(<<"SEND", Comma>>, t)
           p5 == t \in {<<"PACKETTEST">>, <<"packettest">>}
<1>1. Answer(line) =
        CASE t = <<>> -> <<>>
          [] p2 -> <<[kind |-> "things"]>>
          [] p3 -> <<r3>>
          [] p4 -> <<r4>>
          [] p5 -> <<[kind |-> "test"]>>
          [] OTHER -> <<r6>>
  BY DEF Answer, Rest
<1>2. t \in Seq(STRING)
  BY TrimIsText
<1>3. p4 <=> Len(t) >= 2 /\ t[1] = "SEND" /\ t[2] = Comma
  <2> HIDE DEF t
  <2>1. QED
    BY <1>2, PrefixOfTwo
<1>4. p3 <=> Len(t) >= 2 /\ t[1] = "GETFILE" /\ t[2] = Comma
  <2> HIDE DEF t
  <2>1. QED
    BY <1>2, PrefixOfTwo
<1>5. p2 => Len(t) = 1
  OBVIOUS
<1>6. p5 => Len(t) = 1
  OBVIOUS
<1>7. t = <<>> => Len(t) = 0
  OBVIOUS
<1>8. IsSend(line) <=> /\ t # <<>> /\ SplitCsv(t)[1] = <<"SEND">>
                       /\ Len(SendFields(line)) >= 4
                       /\ \A k \in DOMAIN SendFields(line) : Says(SendFields(line)[k], Maximum(k))
  BY DEF IsSend
<1>9. SendFields(line) = Tail(SplitCsv(t))
  BY DEF SendFields
<1>10. /\ r3.kind = "file" /\ r6.kind = "echo"
       /\ [kind |-> "things"].kind = "things" /\ [kind |-> "test"].kind = "test"
       /\ [kind |-> "error"].kind = "error"
  OBVIOUS
<1>11. "SEND" # Comma /\ "SEND" # "GETFILE"
  BY Zenon DEF Comma
<1>12. "file" # "send" /\ "echo" # "send" /\ "things" # "send" /\ "test" # "send" /\ "error" # "send"
  OBVIOUS
<1> HIDE DEF t, r3, r6, p2, p3, p4, p5
<1>13. CASE p4
  <2>1. Len(t) >= 2 /\ t[1] = "SEND" /\ t[2] = Comma
    BY <1>3, <1>13
  <2>2. t # <<>> /\ ~p2 /\ ~p3 /\ ~p5
    <3>1. Len(t) # 0 /\ Len(t) # 1
      BY <2>1
    <3>2. QED
      BY <1>4, <1>5, <1>6, <1>7, <1>11, <2>1, <3>1
  <2> HIDE DEF r4
  <2>3. Answer(line) = <<r4>>
    BY <1>1, <1>13, <2>2
  <2>4. SplitCsv(t)[1] = <<"SEND">> /\ Tail(SplitCsv(t)) = SplitCsv(rest)
    BY <1>2, <1>11, <2>1, SplitRest
  <2>5. rest \in Seq(STRING)
    BY <1>2, <2>1, RestIsText
  <2> DEFINE fields == SendFields(line)
             all == Len(fields) >= 4 /\ \A k \in DOMAIN fields : Says(fields[k], Maximum(k))
  <2>6. fields = SplitCsv(rest)
    BY <1>9, <2>4
  <2>7. IsSend(line) <=> all
    BY <1>8, <2>2, <2>4
  <2>8. SaidBy(line) = [k \in DOMAIN fields |-> Worth(Trim(fields[k]))]
    BY DEF SaidBy
  <2>9. /\ all => /\ IsCommand(r4)
                  /\ SentBy(r4) = [k \in DOMAIN fields |-> Worth(Trim(fields[k]))]
        /\ ~all => r4 = [kind |-> "error"]
    <3> HIDE DEF rest, fields
    <3>1. all <=> Len(fields) >= 4 /\ \A k \in DOMAIN fields : Says(fields[k], Maximum(k))
      OBVIOUS
    <3> HIDE DEF all
    <3>2. QED
      BY <2>5, <2>6, <3>1, SendCommandExact DEF r4
  <2> HIDE DEF all, fields, rest
  <2>10. CASE all
    <3>1. r4.kind = "send"
      BY <2>9, <2>10 DEF IsCommand
    <3>2. QED
      BY <2>3, <2>7, <2>8, <2>9, <2>10, <3>1
  <2>11. CASE ~all
    <3>1. r4.kind # "send"
      BY <1>10, <1>12, <2>9, <2>11
    <3>2. QED
      BY <2>3, <2>7, <2>11, <3>1
  <2>12. QED
    BY <2>10, <2>11
<1>14. CASE ~p4
  <2>1. ~IsSend(line)
    <3>1. SUFFICES ASSUME IsSend(line) PROVE FALSE
      OBVIOUS
    <3>2. SplitCsv(t)[1] = <<"SEND">> /\ Len(Tail(SplitCsv(t))) >= 4
      BY <1>8, <1>9, <3>1
    <3>3. SplitCsv(t) \in Seq(Seq(STRING))
      BY <1>2, FieldEndsArePlaces
    <3>4. Len(SplitCsv(t)) >= 2
      <4> DEFINE u == SplitCsv(t)
      <4> HIDE DEF u
      <4>1. u \in Seq(Seq(STRING)) /\ Len(Tail(u)) >= 4
        BY <3>2, <3>3 DEF u
      <4>2. u # <<>>
        BY <1>2, FieldsAreSome DEF u
      <4>3. Len(u) \in Nat /\ Len(Tail(u)) = Len(u) - 1
        BY <4>1, <4>2
      <4>4. QED
        BY <4>1, <4>3 DEF u
    <3>5. Len(t) >= 2 /\ t[1] = "SEND" /\ t[2] = Comma
      BY <1>2, <1>11, <3>2, <3>4, FirstFieldStands
    <3>6. QED
      BY <1>3, <1>14, <3>5
  <2>2. \/ Answer(line) = <<>> \/ Answer(line) = <<[kind |-> "things"]>>
        \/ Answer(line) = <<r3>> \/ Answer(line) = <<[kind |-> "test"]>>
        \/ Answer(line) = <<r6>>
    <3> HIDE DEF r4
    <3>1. QED
      BY <1>1, <1>14
  <2>3. Answer(line) = <<>> \/ \E x : Answer(line) = <<x>> /\ x.kind # "send"
    BY <1>10, <1>12, <2>2
  <2>4. QED
    BY <2>1, <2>3
<1>15. QED
  BY <1>13, <1>14

-----------------------------------------------------------------------------
(* send() is called for exactly the lines that ask for it.                  *)

\* All calls that answers make or that lines ask for.
SentOrAsked == {SentBy(x) : x \in AllAnswers} \cup {SaidBy(line) : line \in Seq(STRING)}

(* An answer makes one call or none, and a line asks for one or none.       *)
LEMMA CallsAreCalls ==
    /\ \A x \in AllAnswers : Made(x) \in Seq(SentOrAsked)
    /\ \A line \in Seq(STRING) : Asked(line) \in Seq(SentOrAsked)
<1>1. ASSUME NEW x \in AllAnswers PROVE Made(x) \in Seq(SentOrAsked)
  <2>1. SentBy(x) \in SentOrAsked
    BY DEF SentOrAsked
  <2>2. <<SentBy(x)>> \in Seq(SentOrAsked) /\ <<>> \in Seq(SentOrAsked)
    BY <2>1
  <2>3. QED
    BY <2>2 DEF Made
<1>2. ASSUME NEW line \in Seq(STRING) PROVE Asked(line) \in Seq(SentOrAsked)
  <2>1. SaidBy(line) \in SentOrAsked
    BY DEF SentOrAsked
  <2>2. <<SaidBy(line)>> \in Seq(SentOrAsked) /\ <<>> \in Seq(SentOrAsked)
    BY <2>1
  <2>3. QED
    BY <2>2 DEF Asked
<1>3. QED
  BY <1>1, <1>2

(* Sequences that are joined make a sequence of their elements.             *)
LEMMA FlattenIsSeq ==
    ASSUME NEW Y, NEW parts \in Seq(Seq(Y))
    PROVE  FlattenSeq(parts) \in Seq(Y)
<1>1. <<>> \in Seq(Y)
  BY EmptySeq
<1>2. FlattenSeq(parts) \in Seq(Y) /\ FlattenSeq(Append(parts, <<>>)) = FlattenSeq(parts) \o <<>>
  BY <1>1, FlattenAppend
<1>3. QED
  BY <1>2

SendsInv == LinesInv /\ answers \in Seq(AllAnswers) /\ SendsExact

(* A line that ends adds the call it asks for.                              *)
LEMMA SendsExactStep ==
    ASSUME SendsInv, ReadChar, Head(serial) \in LineEnds
    PROVE  SendsExact'
<1> DEFINE X == Seq(STRING)
           A == [line \in X |-> Asked(line)]
           M == [x \in AllAnswers |-> Made(x)]
           L == Lines(heard)
           more == Append(L, input)
           asked == [k \in DOMAIN L |-> Asked(L[k])]
           askedNow == [k \in DOMAIN more |-> Asked(more[k])]
           made == [k \in DOMAIN answers |-> Made(answers[k])]
<1>1. /\ L \in Seq(X) /\ input \in X /\ answers \in Seq(AllAnswers)
      /\ answers' = answers \o Answer(input) /\ Lines(heard)' = more
  BY LinesGrow DEF SendsInv
<1>2. FlattenSeq(made) = FlattenSeq(asked)
  BY DEF SendsInv, SendsExact
<1>3. SendsExact' <=> FlattenSeq([k \in DOMAIN answers' |-> Made(answers'[k])]) = FlattenSeq(askedNow)
  BY <1>1 DEF SendsExact
<1>4. IsMap(A, X, Seq(SentOrAsked)) /\ IsMap(M, AllAnswers, Seq(SentOrAsked)) /\ A[input] = Asked(input)
  BY <1>1, CallsAreCalls DEF IsMap
<1>5. IsImage(asked, L, A) /\ IsImage(askedNow, more, A)
  <2>1. (\A k \in DOMAIN L : L[k] \in X) /\ \A k \in DOMAIN more : more[k] \in X
    BY <1>1
  <2>2. QED
    BY <2>1 DEF IsImage
<1>6. IsImage(made, answers, M)
  <2>1. \A k \in DOMAIN answers : answers[k] \in AllAnswers
    BY <1>1
  <2>2. QED
    BY <2>1 DEF IsImage
<1>7. FlattenSeq(askedNow) = FlattenSeq(asked) \o Asked(input)
  <2>1. L \in Seq(X) /\ input \in X /\ IsMap(A, X, Seq(SentOrAsked))
    BY <1>1, <1>4
  <2>2. IsImage(asked, L, A) /\ IsImage(askedNow, Append(L, input), A)
    BY <1>5
  <2> HIDE DEF A, X, L, asked, askedNow
  <2>3. FlattenSeq(askedNow) = FlattenSeq(asked) \o A[input]
    BY <2>1, <2>2, FlattenMap
  <2>4. QED
    BY <1>4, <2>3
<1>8. FlattenSeq(asked) \in Seq(SentOrAsked)
  <2> DEFINE Z == Seq(SentOrAsked)
  <2> HIDE DEF A, X, L, asked, Z
  <2>1. IsMap(A, X, Z)
    BY <1>4 DEF Z
  <2>2. asked \in Seq(Z)
    BY <1>1, <1>5, <2>1, MapIsSeq DEF IsImage
  <2>3. QED
    BY <2>2, FlattenIsSeq DEF Z
<1>9. CASE Answer(input) = <<>> /\ ~IsSend(input)
  <2>1. answers' = answers
    BY <1>1, <1>9, ConcatEmptySeq
  <2>2. Asked(input) = <<>>
    BY <1>9 DEF Asked
  <2> HIDE DEF asked, askedNow
  <2>3. FlattenSeq(askedNow) = FlattenSeq(asked)
    BY <1>7, <1>8, <2>2, ConcatEmptySeq
  <2>4. [k \in DOMAIN answers' |-> Made(answers'[k])] = made
    BY <2>1
  <2> HIDE DEF made
  <2>5. QED
    BY <1>2, <1>3, <2>3, <2>4
<1>10. ASSUME NEW x, Answer(input) = <<x>>,
              x.kind = "send" <=> IsSend(input),
              x.kind = "send" => SentBy(x) = SaidBy(input)
       PROVE  SendsExact'
  <2>1. x \in AllAnswers
    <3>1. Answer(input)[1] = x
      BY <1>10
    <3>2. QED
      BY <1>1, <3>1 DEF AllAnswers
  <2>2. Made(x) = Asked(input) /\ M[x] = Made(x)
    BY <1>10, <2>1 DEF Made, Asked
  <2>3. answers' = Append(answers, x)
    BY <1>1, <1>10, <2>1
  <2> DEFINE madeNow == [k \in DOMAIN answers' |-> Made(answers'[k])]
  <2>4. IsImage(madeNow, Append(answers, x), M)
    <3>1. \A k \in DOMAIN Append(answers, x) : Append(answers, x)[k] \in AllAnswers
      BY <1>1, <2>1
    <3>2. QED
      BY <2>3, <3>1 DEF IsImage
  <2> HIDE DEF madeNow, made, M, asked, askedNow
  <2>5. FlattenSeq(madeNow) = FlattenSeq(made) \o M[x]
    BY <1>1, <1>4, <1>6, <2>1, <2>4, FlattenMap
  <2>6. QED
    BY <1>2, <1>3, <1>7, <2>2, <2>5 DEF madeNow
<1>11. QED
  BY <1>1, <1>9, <1>10, AnswerExact

(* What was sent and what was asked for go on alike,                        *)
LEMMA SendsInvStep ==
    ASSUME SendsInv, UsbNext
    PROVE  SendsInv'
<1>1. LinesInv'
  BY LinesInvStep DEF SendsInv
<1>2. CASE Arrive
  <2>1. UNCHANGED <<heard, answers>>
    BY <1>2 DEF Arrive
  <2>2. QED
    BY <1>1, <2>1 DEF SendsInv, SendsExact
<1>3. CASE ReadChar
  <2>1. CASE Head(serial) \notin LineEnds
    <3>1. answers' = answers /\ Lines(heard)' = Lines(heard)
      BY <1>3, <2>1, LinesGrow DEF SendsInv
    <3>2. QED
      BY <1>1, <3>1 DEF SendsInv, SendsExact
  <2>2. CASE Head(serial) \in LineEnds
    <3>1. answers' = answers \o Answer(input) /\ input \in Seq(STRING)
      BY <1>3, <2>2, LinesGrow DEF SendsInv
    <3>2. answers' \in Seq(AllAnswers)
      BY <3>1, AnswerIsOne, ConcatProperties DEF SendsInv
    <3>3. QED
      BY <1>1, <1>3, <2>2, <3>2, SendsExactStep DEF SendsInv
  <2>3. QED
    BY <2>1, <2>2
<1>4. QED
  BY <1>2, <1>3 DEF UsbNext

(* and begin alike.                                                         *)
LEMMA SendsInvInit ==
    ASSUME UsbInit
    PROVE  SendsInv
<1>1. LinesInv
  BY LinesInvInit
<1>2. heard = <<>> /\ answers = <<>>
  BY DEF UsbInit
<1>3. Lines(heard) = <<>>
  BY <1>2, NoLines
<1>4. [k \in DOMAIN answers |-> Made(answers[k])] = <<>>
  BY <1>2
<1>5. [k \in DOMAIN Lines(heard) |-> Asked(Lines(heard)[k])] = <<>>
  BY <1>3
<1>6. QED
  BY <1>1, <1>2, <1>4, <1>5 DEF SendsInv, SendsExact

(* LinesWhole: whatever the host types and however it arrives, each finished *)
(* line is answered once, whole, in its order (updateUsb, usb.cpp).         *)
THEOREM LinesAnswered ==
    UsbSpec => []LinesWhole
<1>1. UsbInit => LinesInv
  BY LinesInvInit
<1>2. LinesInv /\ [UsbNext]_usbVars => LinesInv'
  <2>1. LinesInv /\ UNCHANGED usbVars => LinesInv'
    BY DEF LinesInv, LinesWhole, usbVars
  <2>2. QED
    BY <2>1, LinesInvStep
<1>3. LinesInv => LinesWhole
  BY DEF LinesInv
<1>4. QED
  BY <1>1, <1>2, <1>3, PTL DEF UsbSpec

(* SendsExact: send() is called for exactly the well-formed SEND lines, with *)
(* the numbers that they say, for every width of the numbers, every line and *)
(* any number of fields (sendCommandFromUsb, parseUnsignedField, splitCsv). *)
THEOREM SendsAsSaid ==
    UsbSpec => []SendsExact
<1>1. UsbInit => SendsInv
  BY SendsInvInit
<1>2. SendsInv /\ [UsbNext]_usbVars => SendsInv'
  <2>1. SendsInv /\ UNCHANGED usbVars => SendsInv'
    BY DEF SendsInv, SendsExact, LinesInv, LinesWhole, usbVars
  <2>2. QED
    BY <2>1, SendsInvStep
<1>3. SendsInv => SendsExact
  BY DEF SendsInv
<1>4. QED
  BY <1>1, <1>2, <1>3, PTL DEF UsbSpec

=============================================================================
