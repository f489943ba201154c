------------------------------ MODULE MCRouting ------------------------------
(* Instances of Routing for TLC: a leader and one joiner with a thing each,  *)
(* or with two joiners and things that they share.                           *)
EXTENDS Routing, TLC

CONSTANTS leader, j, k, tl, tj

OneJoiner == (leader :> {tl}) @@ (j :> {tj})
\* The leader and j both host tl, the joiners both host tj.
Shared == (leader :> {tl}) @@ (j :> {tl, tj}) @@ (k :> {tj})

\* No sketch calls setNetworkReady, or that of k marks its network ready.
NobodySets == [n \in Node |-> {}]
OneSets == [n \in Node |-> IF n = k THEN {TRUE} ELSE {}]

Payloads == Message \cup {LocalThings[n] : n \in Node}

=============================================================================
