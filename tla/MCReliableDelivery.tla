------------------------- MODULE MCReliableDelivery -------------------------
(* Instances of ReliableDelivery for TLC: device a talks to device b, which *)
(* hosts address x; address y is hosted by a for traffic the other way.     *)
EXTENDS ReliableDelivery, TLC

CONSTANTS a, b, x, y

\* Both addresses, or only the one hosted by b.
BothWays == (x :> b) @@ (y :> a)
OneWay == x :> b

BodySymmetry == Permutations(Body)

=============================================================================
