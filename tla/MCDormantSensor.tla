--------------------------- MODULE MCDormantSensor ---------------------------
(* An instance of DormantSensor for TLC: a leader and one sensor that hosts  *)
(* the thing ts.                                                             *)
EXTENDS DormantSensor, TLC

CONSTANTS leader, sensor, ts

SensorThings == (leader :> {}) @@ (sensor :> {ts})

\* The sketch does not call setNetworkReady.
NobodySets == [n \in Node |-> {}]

Payloads == Message \cup {LocalThings[n] : n \in Node}

=============================================================================
