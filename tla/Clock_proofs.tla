---------------------------- MODULE Clock_proofs ----------------------------
(***************************************************************************)
(* The wrapped clock implements the countdowns, for every word size and     *)
(* every interval that fits half of it.                                     *)
(***************************************************************************)
EXTENDS Clock, TLAPS

(* The time left and the time gone stay in the ranges that half a word, and *)
(* a word, can tell apart.                                                  *)
InRange ==
    /\ TypeOK
    /\ armed => TimeLeft \in -MaxLag .. RetryInterval
    /\ stamped => Elapsed \in 0 .. SeenTtl + 1 + MaxLag

LEMMA ArmedAfresh ==
    ASSUME now \in Uint32
    PROVE  /\ Plus(now, RetryInterval) \in Uint32
           /\ -Signed(Minus(now, Plus(now, RetryInterval))) = RetryInterval
           /\ Minus(now, now) = 0
BY ClockAssumption DEF Uint32, Word, Plus, Minus, Signed

(* One tick takes one from the time left as long as the entry is not late   *)
(* by half a word.                                                          *)
LEMMA TickLeft ==
    ASSUME now \in Uint32, NEW due \in Uint32,
           -Signed(Minus(now, due)) \in -MaxLag + 1 .. RetryInterval
    PROVE  -Signed(Minus(Plus(now, 1), due)) = -Signed(Minus(now, due)) - 1
BY ClockAssumption DEF Uint32, Word, Plus, Minus, Signed

(* One tick adds one to the age as long as it is not a whole word.          *)
LEMMA TickAge ==
    ASSUME now \in Uint32, NEW stamp \in Uint32,
           Minus(now, stamp) \in 0 .. SeenTtl + MaxLag
    PROVE  Minus(Plus(now, 1), stamp) = Minus(now, stamp) + 1
BY ClockAssumption DEF Uint32, Word, Plus, Minus

LEMMA InitRefines == Init => InRange /\ C!Init
<1> SUFFICES ASSUME Init PROVE InRange /\ C!Init
  OBVIOUS
<1>1. now \in Uint32 /\ nextDueMs \in Uint32 /\ when \in Uint32
  BY ClockAssumption DEF Init, Uint32, Word
<1>2. ~armed /\ ~stamped /\ armed \in BOOLEAN /\ stamped \in BOOLEAN
  BY Zenon DEF Init
<1>3. QED
  BY <1>1, <1>2, Zenon DEF InRange, TypeOK, C!Init, TimeLeft, Elapsed

LEMMA ArmRefines == InRange /\ Arm => InRange' /\ C!Arm
<1> SUFFICES ASSUME InRange, Arm PROVE InRange' /\ C!Arm
  OBVIOUS
<1>1. now \in Uint32
  BY DEF InRange, TypeOK
<1>2. TimeLeft' = RetryInterval /\ nextDueMs' \in Uint32
  BY <1>1, ArmedAfresh DEF Arm, TimeLeft, Signed, Minus
<1>3. Elapsed' = Elapsed
  BY DEF Arm, Elapsed, Minus
<1>4. InRange'
  <2>1. TypeOK'
    BY <1>2 DEF InRange, TypeOK, Arm
  <2>2. RetryInterval \in -MaxLag .. RetryInterval
    BY ClockAssumption
  <2>3. QED
    BY <1>2, <1>3, <2>1, <2>2 DEF InRange, Arm
<1>5. QED
  BY <1>2, <1>3, <1>4 DEF Arm, C!Arm

LEMMA StampRefines == InRange /\ Stamp => InRange' /\ C!Stamp
<1> SUFFICES ASSUME InRange, Stamp PROVE InRange' /\ C!Stamp
  OBVIOUS
<1>1. now \in Uint32
  BY DEF InRange, TypeOK
<1>2. Elapsed' = 0
  BY <1>1, ArmedAfresh DEF Stamp, Elapsed, Minus
<1>3. TimeLeft' = TimeLeft
  BY DEF Stamp, TimeLeft, Signed, Minus
<1>4. InRange'
  <2>1. TypeOK'
    BY <1>1 DEF InRange, TypeOK, Stamp
  <2>2. 0 \in 0 .. SeenTtl + 1 + MaxLag
    BY ClockAssumption
  <2>3. QED
    BY <1>2, <1>3, <2>1, <2>2 DEF InRange, Stamp
<1>5. QED
  BY <1>2, <1>3, <1>4 DEF Stamp, C!Stamp

LEMMA DisarmRefines == InRange /\ Disarm => InRange' /\ C!Disarm
<1> SUFFICES ASSUME InRange, Disarm PROVE InRange' /\ C!Disarm
  OBVIOUS
<1>1. TimeLeft' = 0 /\ armed' = FALSE
  BY DEF Disarm, TimeLeft
<1>2. Elapsed' = Elapsed
  BY DEF Disarm, Elapsed, Minus
<1>3. InRange'
  BY <1>1, <1>2 DEF InRange, TypeOK, Disarm
<1>4. QED
  BY <1>1, <1>2, <1>3 DEF Disarm, C!Disarm

LEMMA PumpRefines == InRange /\ Pump => InRange' /\ C!Pump
<1> SUFFICES ASSUME InRange, Pump PROVE InRange' /\ C!Pump
  OBVIOUS
<1>1. /\ now \in Uint32 /\ nextDueMs \in Uint32 /\ when \in Uint32
      /\ armed \in BOOLEAN /\ stamped \in BOOLEAN
      /\ armed => TimeLeft \in -MaxLag .. RetryInterval
      /\ stamped => Elapsed \in 0 .. SeenTtl + 1 + MaxLag
  BY DEF InRange, TypeOK
<1>2. now' = now /\ when' = when /\ stamped' = (stamped /\ ~Expired) /\ PumpPending
  BY DEF Pump, PumpWindow
<1>3. armed => (Overdue <=> TimeLeft <= 0)
  <2>1. Signed(Minus(now, nextDueMs)) \in Int
    BY <1>1, ClockAssumption DEF Signed, Minus, Uint32, Word
  <2>2. QED
    BY <2>1 DEF Overdue, TimeLeft
<1>4. stamped => (Expired <=> Elapsed > SeenTtl)
  BY DEF Expired, Elapsed
<1>5. C!PumpPending /\ (armed' => TimeLeft' \in -MaxLag .. RetryInterval)
      /\ nextDueMs' \in Uint32 /\ armed' \in BOOLEAN
  <2>1. CASE armed /\ Overdue /\ armed' = TRUE /\ nextDueMs' = Plus(now, RetryInterval)
    <3>1. TimeLeft' = RetryInterval /\ nextDueMs' \in Uint32
      BY <1>1, <1>2, <2>1, ArmedAfresh DEF TimeLeft, Signed, Minus
    <3>2. RetryInterval \in -MaxLag .. RetryInterval
      BY ClockAssumption
    <3>3. QED
      BY <1>3, <2>1, <3>1, <3>2 DEF C!PumpPending
  <2>2. CASE armed /\ Overdue /\ armed' = FALSE /\ UNCHANGED nextDueMs
    <3>1. TimeLeft' = 0
      BY <2>2 DEF TimeLeft
    <3>2. QED
      BY <1>1, <1>3, <2>2, <3>1 DEF C!PumpPending
  <2>3. CASE ~(armed /\ Overdue) /\ UNCHANGED <<armed, nextDueMs>>
    <3>1. TimeLeft' = TimeLeft
      BY <1>2, <2>3 DEF TimeLeft, Signed, Minus
    <3>2. QED
      BY <1>1, <1>3, <2>3, <3>1 DEF C!PumpPending
  <2>4. QED
    BY <1>2, <2>1, <2>2, <2>3 DEF PumpPending
<1>6. C!PumpWindow /\ (stamped' => Elapsed' \in 0 .. SeenTtl + 1 + MaxLag)
      /\ stamped' \in BOOLEAN
  <2>1. CASE stamped /\ Expired
    <3>1. stamped' = FALSE /\ Elapsed' = 0
      BY <1>2, <2>1 DEF Elapsed
    <3>2. QED
      BY <1>4, <2>1, <3>1 DEF C!PumpWindow
  <2>2. CASE ~(stamped /\ Expired)
    <3>1. stamped' = stamped
      BY <1>1, <1>2, <2>2, Zenon
    <3>2. Elapsed' = Elapsed
      BY <1>2, <3>1 DEF Elapsed, Minus
    <3>3. QED
      BY <1>1, <1>4, <2>2, <3>1, <3>2 DEF C!PumpWindow
  <2>3. QED
    BY <2>1, <2>2
<1>7. InRange'
  BY <1>1, <1>2, <1>5, <1>6 DEF InRange, TypeOK
<1>8. QED
  BY <1>5, <1>6, <1>7 DEF C!Pump

LEMMA TickRefines == InRange /\ Tick => InRange' /\ C!Tick
<1> SUFFICES ASSUME InRange, Tick PROVE InRange' /\ C!Tick
  OBVIOUS
<1>1. /\ now \in Uint32 /\ nextDueMs \in Uint32 /\ when \in Uint32
      /\ armed => TimeLeft \in -MaxLag .. RetryInterval
      /\ stamped => Elapsed \in 0 .. SeenTtl + 1 + MaxLag
  BY DEF InRange, TypeOK
<1>2. /\ armed => TimeLeft > -MaxLag
      /\ stamped => Elapsed <= SeenTtl + MaxLag
      /\ now' = Plus(now, 1)
      /\ UNCHANGED <<armed, nextDueMs, stamped, when>>
  BY DEF Tick
<1>3. now' \in Uint32
  BY <1>1, <1>2, ClockAssumption DEF Plus, Uint32, Word
<1>4. TimeLeft' = (IF armed THEN TimeLeft - 1 ELSE 0)
      /\ (armed => TimeLeft' \in -MaxLag .. RetryInterval)
  <2>1. CASE armed
    <3>1. TimeLeft = -Signed(Minus(now, nextDueMs))
      BY <2>1 DEF TimeLeft
    <3>2. TimeLeft \in -MaxLag + 1 .. RetryInterval
      BY <1>1, <1>2, <2>1, ClockAssumption
    <3>3. -Signed(Minus(Plus(now, 1), nextDueMs)) = TimeLeft - 1
      BY <1>1, <3>1, <3>2, TickLeft
    <3>4. TimeLeft' = -Signed(Minus(Plus(now, 1), nextDueMs))
      BY <1>2, <2>1 DEF TimeLeft, Signed, Minus
    <3>5. QED
      BY <2>1, <3>2, <3>3, <3>4, ClockAssumption
  <2>2. CASE ~armed
    BY <1>2, <2>2 DEF TimeLeft
  <2>3. QED
    BY <2>1, <2>2
<1>5. Elapsed' = (IF stamped THEN Elapsed + 1 ELSE 0)
      /\ (stamped => Elapsed' \in 0 .. SeenTtl + 1 + MaxLag)
  <2>1. CASE stamped
    <3>1. Elapsed = Minus(now, when) /\ Elapsed \in 0 .. SeenTtl + MaxLag
      BY <1>1, <1>2, <2>1, ClockAssumption DEF Elapsed
    <3>2. Minus(Plus(now, 1), when) = Elapsed + 1
      BY <1>1, <3>1, TickAge
    <3>3. Elapsed' = Minus(Plus(now, 1), when)
      BY <1>2, <2>1 DEF Elapsed, Minus
    <3>4. QED
      BY <2>1, <3>1, <3>2, <3>3, ClockAssumption
  <2>2. CASE ~stamped
    BY <1>2, <2>2 DEF Elapsed
  <2>3. QED
    BY <2>1, <2>2
<1>6. InRange'
  BY <1>1, <1>2, <1>3, <1>4, <1>5 DEF InRange, TypeOK
<1>7. QED
  BY <1>2, <1>4, <1>5, <1>6 DEF C!Tick

(* Comparing wrapped moments is as good as counting down, for ever: every   *)
(* behaviour of the clock is one of the countdowns.                         *)
THEOREM WrapUnseen == Spec => CountsDown
<1>1. Init => InRange /\ C!Init
  BY InitRefines
<1>2. InRange /\ [Next]_vars => InRange' /\ [C!Next]_C!vars
  <2> SUFFICES ASSUME InRange, [Next]_vars PROVE InRange' /\ [C!Next]_C!vars
    OBVIOUS
  <2>1. CASE Arm
    BY <2>1, ArmRefines DEF C!Next
  <2>2. CASE Stamp
    BY <2>2, StampRefines DEF C!Next
  <2>3. CASE Disarm
    BY <2>3, DisarmRefines DEF C!Next
  <2>4. CASE Pump
    BY <2>4, PumpRefines DEF C!Next
  <2>5. CASE Tick
    BY <2>5, TickRefines DEF C!Next
  <2>6. CASE UNCHANGED vars
    BY <2>6 DEF vars, C!vars, InRange, TypeOK, TimeLeft, Elapsed, Signed, Minus
  <2>7. QED
    BY <2>1, <2>2, <2>3, <2>4, <2>5, <2>6 DEF Next
<1>3. QED
  BY <1>1, <1>2, PTL DEF Spec, CountsDown, C!Spec

=============================================================================
