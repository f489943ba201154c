------------------------------ MODULE Countdown ------------------------------
(***************************************************************************)
(* The timers of reliable delivery as Reliable models them: the time left   *)
(* of one pending entry and the age of one entry of the duplicate window,   *)
(* numbers that no clock ever wraps.  Clock, which keeps what the code      *)
(* keeps, implements this.                                                  *)
(***************************************************************************)
EXTENDS Integers

CONSTANTS
    RetryInterval, \* BEETON_RETRY_INTERVAL_MS
    SeenTtl,       \* BEETON_SEEN_PACKET_TTL_MS
    MaxLag         \* longest time loop() keeps a due update() waiting

VARIABLES
    armed,   \* there is a pending entry
    due,     \* the time left of it; 0 when there is none
    stamped, \* there is an entry in the window
    age      \* the time since it was stamped; 0 when there is none

vars == <<armed, due, stamped, age>>

Init == ~armed /\ due = 0 /\ ~stamped /\ age = 0

Arm ==
    /\ armed' = TRUE /\ due' = RetryInterval
    /\ UNCHANGED <<stamped, age>>

Stamp ==
    /\ stamped' = TRUE /\ age' = 0
    /\ UNCHANGED <<armed, due>>

\* An ACK completes the pending entry.
Disarm ==
    /\ armed' = FALSE /\ due' = 0
    /\ UNCHANGED <<stamped, age>>

PumpPending ==
    IF armed /\ due <= 0
    THEN \/ armed' = TRUE /\ due' = RetryInterval
         \/ armed' = FALSE /\ due' = 0
    ELSE UNCHANGED <<armed, due>>

PumpWindow ==
    IF stamped /\ age > SeenTtl
    THEN stamped' = FALSE /\ age' = 0
    ELSE UNCHANGED <<stamped, age>>

Pump == PumpPending /\ PumpWindow

Tick ==
    /\ armed => due > -MaxLag
    /\ stamped => age <= SeenTtl + MaxLag
    /\ due' = IF armed THEN due - 1 ELSE 0
    /\ age' = IF stamped THEN age + 1 ELSE 0
    /\ UNCHANGED <<armed, stamped>>

Next == Arm \/ Stamp \/ Disarm \/ Pump \/ Tick

Spec == Init /\ [][Next]_vars

=============================================================================
