-------------------------------- MODULE Clock --------------------------------
(***************************************************************************)
(* What reliable delivery makes of millis(): a 32-bit counter that wraps    *)
(* every 49 days, the moment nextDueMs of a pending entry and the moment an *)
(* entry of the duplicate window was stamped, compared by the wrapped       *)
(* differences of core.cpp and util.cpp.                                    *)
(***************************************************************************)
EXTENDS Integers

CONSTANTS
    HalfWord,      \* 2^31
    RetryInterval, \* BEETON_RETRY_INTERVAL_MS
    SeenTtl,       \* BEETON_SEEN_PACKET_TTL_MS
    MaxLag         \* longest time loop() keeps a due update() waiting

Word == 2 * HalfWord

ASSUME ClockAssumption ==
    /\ HalfWord \in Nat /\ RetryInterval \in Nat \ {0}
    /\ SeenTtl \in Nat /\ MaxLag \in Nat
    /\ RetryInterval <= HalfWord
    /\ MaxLag < HalfWord
    /\ SeenTtl + 1 + MaxLag < Word

VARIABLES
    now,       \* millis()
    armed,     \* there is a pending entry
    nextDueMs, \* of that entry
    stamped,   \* there is an entry in the window
    when       \* its time stamp

vars == <<now, armed, nextDueMs, stamped, when>>

Uint32 == 0 .. Word - 1

(* Every variable has its type.                                             *)
TypeOK ==
    /\ now \in Uint32 /\ nextDueMs \in Uint32 /\ when \in Uint32
    /\ armed \in BOOLEAN /\ stamped \in BOOLEAN

\* Sums and differences of uint32_t.
Plus(a, b) == IF a + b < Word THEN a + b ELSE a + b - Word
Minus(a, b) == IF a >= b THEN a - b ELSE a - b + Word

\* The same bits read as int32_t.
Signed(a) == IF a < HalfWord THEN a ELSE a - Word

\* Mutant of Overdue: the moments themselves are compared.
Overdue_ByMoment == now >= nextDueMs

Overdue == Signed(Minus(now, nextDueMs)) >= 0

Expired == Minus(now, when) > SeenTtl

Init ==
    /\ now \in Uint32
    /\ armed = FALSE /\ nextDueMs = 0
    /\ stamped = FALSE /\ when = 0

Arm ==
    /\ armed' = TRUE /\ nextDueMs' = Plus(now, RetryInterval)
    /\ UNCHANGED <<now, stamped, when>>

Stamp ==
    /\ stamped' = TRUE /\ when' = now
    /\ UNCHANGED <<now, armed, nextDueMs>>

Disarm ==
    /\ armed' = FALSE
    /\ UNCHANGED <<now, nextDueMs, stamped, when>>

\* A due entry is resent, or given up when no retries are left.
PumpPending ==
    IF armed /\ Overdue
    THEN \/ armed' = TRUE /\ nextDueMs' = Plus(now, RetryInterval)
         \/ armed' = FALSE /\ UNCHANGED nextDueMs
    ELSE UNCHANGED <<armed, nextDueMs>>

PumpWindow == stamped' = (stamped /\ ~Expired) /\ UNCHANGED when

Pump == PumpPending /\ PumpWindow /\ UNCHANGED now

\* The time until nextDueMs and the time since `when`, as wrapped differences.
TimeLeft == IF armed THEN -Signed(Minus(now, nextDueMs)) ELSE 0
Elapsed == IF stamped THEN Minus(now, when) ELSE 0

\* loop() is not kept from update() for more than MaxLag.
Tick ==
    /\ armed => TimeLeft > -MaxLag
    /\ stamped => Elapsed <= SeenTtl + MaxLag
    /\ now' = Plus(now, 1)
    /\ UNCHANGED <<armed, nextDueMs, stamped, when>>

Next == Arm \/ Stamp \/ Disarm \/ Pump \/ Tick

Spec == Init /\ [][Next]_vars

-----------------------------------------------------------------------------
(* Properties.                                                              *)

(* The wrap of millis() is never seen: entries fall due after the retry     *)
(* interval and expire after the TTL of real time, wherever in its 49 days  *)
(* the counter stood when they were made.                                   *)
C == INSTANCE Countdown WITH due <- TimeLeft, age <- Elapsed

CountsDown == C!Spec

=============================================================================
