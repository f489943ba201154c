-------------------------------- MODULE Widths --------------------------------
(***************************************************************************)
(* The numbers of Beeton: a byte has Base values, 256 in the code.  Action   *)
(* numbers and instances are one byte wide, things and sequence numbers two. *)
(***************************************************************************)
EXTENDS Integers

CONSTANT Base

ASSUME BaseAssumption == Base \in Nat /\ Base > 1 /\ Base % 2 = 0

MaxByte == Base - 1
MaxThing == Base * Base - 1

Byte == 0 .. MaxByte
Thing == 0 .. MaxThing

=============================================================================
