-------------------------- MODULE DeliveryContract --------------------------
(***************************************************************************)
(* What an application may rely on when it calls send(reliable = true, ..) *)
(* and installs onAckSuccess and onAckFail, with no packet, sequence       *)
(* number, timer or dedupe window in sight:                                *)
(*                                                                         *)
(*  - a message is handed to the receiving application at most once, until *)
(*    the receiver forgets it;                                             *)
(*  - success is reported only after the message was handed over, and a    *)
(*    message gets one verdict at most;                                    *)
(*  - failure promises nothing: the message may have been handed over      *)
(*    before the verdict, and may still be handed over after it;           *)
(*  - a sender that restarts never hears of what it had in flight.         *)
(***************************************************************************)
EXTENDS Naturals

CONSTANT Body

VARIABLES
    known,    \* known[u]: what the sending application knows of message u
    handed,   \* handed[u]: times u was handed to the receiver, capped at 2
    forgiven  \* messages a receiver may be handed again

contractVars == <<known, handed, forgiven>>

ContractInit ==
    /\ known = [u \in Body |-> "unsent"]
    /\ handed = [u \in Body |-> 0]
    /\ forgiven = {}

Learn(messages, from, verdict) ==
    /\ \A u \in messages : known[u] = from
    /\ known' = [u \in Body |-> IF u \in messages THEN verdict ELSE known[u]]

Submit(u) ==
    /\ \E answer \in {"pending", "refused"} : Learn({u}, "unsent", answer)
    /\ UNCHANGED <<handed, forgiven>>

\* A late or repeated copy may bring the message long after its verdict.
HandOver(u) ==
    /\ known[u] \notin {"unsent", "refused"}
    /\ handed[u] = 0 \/ u \in forgiven
    /\ handed' = [handed EXCEPT ![u] = IF @ < 2 THEN @ + 1 ELSE @]
    /\ \E evicted \in SUBSET Body : forgiven' = forgiven \cup evicted
    /\ UNCHANGED known

Confirm(u) ==
    /\ handed[u] > 0
    /\ Learn({u}, "pending", "acked")
    /\ UNCHANGED <<handed, forgiven>>

GiveUp(messages) ==
    /\ Learn(messages, "pending", "failed")
    /\ UNCHANGED <<handed, forgiven>>

Restart(wiped, lost) ==
    /\ Learn(wiped, "pending", "wiped")
    /\ forgiven' = forgiven \cup lost
    /\ UNCHANGED handed

ContractNext ==
    \/ \E u \in Body : Submit(u) \/ HandOver(u) \/ Confirm(u)
    \/ \E messages \in SUBSET Body :
         \/ GiveUp(messages)
         \/ \E lost \in SUBSET Body : Restart(messages, lost)

ContractSpec == ContractInit /\ [][ContractNext]_contractVars

=============================================================================
