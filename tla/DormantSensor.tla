---------------------------- MODULE DormantSensor ----------------------------
(***************************************************************************)
(* The dormant-sensor sketch on top of Routing: a joiner that wakes, joins, *)
(* sends one reliable report to the leader's address and goes dormant when *)
(* onAckSuccess is called (examples/beeton-joiner-dormant-sensor).  The    *)
(* report's action is 00, which the leader acknowledges and ignores.       *)
(*                                                                         *)
(* The callback runs inside handleAckPacket, for whatever entry the ACK    *)
(* completes; goDormant refuses unless Beeton is ready, and LightThread    *)
(* may refuse too.  Between an accepted goDormant and deep sleep nothing   *)
(* else happens; sleep lasts at least one tick and ends in setup().        *)
(***************************************************************************)
EXTENDS Routing

CONSTANTS
    Sensor,      \* the joiner that runs the sketch
    MaxRefusals  \* bound on the refusals of LightThread::goDormant

ASSUME SensorAssumption == Sensor \in Joiner /\ MaxRefusals \in Nat

VARIABLES
    packetSent,   \* the sketch's flag of that name
    power,        \* what the device is doing
    reportAcked,  \* the report of this wake has been acknowledged
    heard,        \* the leader has handled a packet the sensor still waits for
    refusals      \* refusals so far

sketchVars == <<packetSent, power, reportAcked, heard, refusals>>
sensorVars == <<vars, sketchVars>>

Power == {"awake", "goingDormant", "asleep", "rested"}

(* Every variable has its type.                                            *)
SensorTypeOK ==
    /\ TypeOK
    /\ packetSent \in BOOLEAN /\ reportAcked \in BOOLEAN /\ heard \in BOOLEAN
    /\ power \in Power
    /\ refusals \in 0 .. MaxRefusals

SensorInit ==
    /\ Init
    /\ packetSent = FALSE
    /\ power = "awake"
    /\ reportAcked = FALSE /\ heard = FALSE
    /\ refusals = 0

-----------------------------------------------------------------------------
(* The sketch.                                                              *)

\* loop(): send until send() accepts the report; a refusal spends a number.
Report(accepted) ==
    /\ power = "awake" /\ ~packetSent
    /\ IsReady(Sensor)
    /\ \E s \in AllocSeq(Sensor), m \in Message :
         SendReliable(Sensor, Leader, IgnoredAddr, m, s, accepted)
    /\ packetSent' = accepted
    /\ accepted \/ faults < MaxFaults
    /\ faults' = IF accepted THEN faults ELSE faults + 1
    /\ UNCHANGED <<routingVars, ltReady, wasReady, appVars, power, reportAcked,
                   heard, refusals>>

Completes(p) == AckMatches(p) # {}

\* goDormant inside the callback, after routingHandleAck has done its part.
SuccessReceive ==
    IF ltReady[Sensor] /\ networkReady'[Sensor]
    THEN \/ power' = "goingDormant" /\ UNCHANGED refusals
         \/ /\ refusals < MaxRefusals
            /\ refusals' = refusals + 1
            /\ UNCHANGED power
    ELSE UNCHANGED <<power, refusals>>

SensorReceiveAck(p) ==
    /\ power = "awake"
    /\ ReceiveAck(p)
    /\ IF Completes(p) THEN SuccessReceive ELSE UNCHANGED <<power, refusals>>
    /\ reportAcked' = (reportAcked \/ \E e \in AckMatches(p) : e.addr = IgnoredAddr)
    /\ UNCHANGED <<packetSent, heard>>

\* The rest of update(); onAckFail is not registered, so failures go unheard.
SensorUpdate ==
    /\ power = "awake"
    /\ RoutingUpdate(Sensor) \/ Pump(Sensor) \/ TransportUp(Sensor)
    /\ UNCHANGED sketchVars

\* Deep sleep takes the RAM of sketch and library.
FallAsleep ==
    /\ power = "goingDormant"
    /\ WakeFromSleep(Sensor)
    /\ Begin(Sensor)
    /\ power' = "asleep"
    /\ packetSent' = FALSE /\ reportAcked' = FALSE /\ heard' = FALSE
    /\ UNCHANGED <<faults, appVars, refusals>>

WakeUp ==
    /\ power = "rested"
    /\ power' = "awake"
    /\ UNCHANGED <<vars, packetSent, reportAcked, heard, refusals>>

-----------------------------------------------------------------------------

LeaderUpdate ==
    /\ power # "goingDormant"
    /\ RoutingUpdate(Leader) \/ Pump(Leader) \/ TransportUp(Leader)
    /\ UNCHANGED sketchVars

LeaderReceive(p) ==
    /\ power # "goingDormant"
    /\ p.dst = Leader /\ Receive(p)
    /\ heard' = (heard \/ \E e \in pending[Sensor] : e.seq = p.seq /\ e.addr = p.addr)
    /\ UNCHANGED <<packetSent, power, reportAcked, refusals>>

TimePasses ==
    /\ power # "goingDormant"
    /\ Tick
    /\ power' = IF power = "asleep" THEN "rested" ELSE power
    /\ UNCHANGED <<packetSent, reportAcked, heard, refusals>>

SensorNext ==
    \/ \E accepted \in BOOLEAN : Report(accepted)
    \/ \E p \in net : p.dst = Sensor /\ SensorReceiveAck(p)
    \/ \E p \in net : LeaderReceive(p)
    \/ SensorUpdate
    \/ LeaderUpdate
    \/ FallAsleep
    \/ WakeUp
    \/ TimePasses

SensorSpec == SensorInit /\ [][SensorNext]_sensorVars

(* Both loops run, time passes, the timer wakes the device, and the mesh,   *)
(* as in FairSpec, is not for ever unlucky with announcements.              *)
SensorFairSpec ==
    /\ SensorSpec
    /\ WF_sensorVars(TimePasses) /\ WF_sensorVars(FallAsleep) /\ WF_sensorVars(WakeUp)
    /\ WF_sensorVars(Report(TRUE))
    /\ \A n \in Node :
         /\ WF_sensorVars(RoutingUpdate(n) /\ (SensorUpdate \/ LeaderUpdate))
         /\ WF_sensorVars(Pump(n) /\ (SensorUpdate \/ LeaderUpdate))
         /\ WF_sensorVars(TransportUp(n) /\ (SensorUpdate \/ LeaderUpdate))
    /\ SF_sensorVars(AnnouncementSent(Sensor) /\ SensorUpdate)
    /\ SF_sensorVars(\E p \in net : Awaited(Sensor, p) /\ LeaderReceive(p))
    /\ SF_sensorVars(\E p \in net : p.dst = Sensor /\ Awaited(Sensor, p)
                                      /\ SensorReceiveAck(p))

-----------------------------------------------------------------------------
(* Properties.                                                              *)

(* The sensor goes dormant only on the word of a leader that has handled a  *)
(* packet of this wake: no ACK of an earlier wake, still in the mesh, sends *)
(* it back to sleep, though sleep has wiped its memory of what it sent.     *)
DormantOnFreshWord == power = "goingDormant" => heard

(* The battery is spared: the sensor goes to sleep again and again, however *)
(* often its announcements and their ACKs are lost and whatever sendUdp     *)
(* refuses, unless LightThread refuses the one goDormant of a success.      *)
KeepsSleeping == [](refusals = 0) => []<>(power = "asleep")

(* The sensor does not sleep before its report is acknowledged: the sketch  *)
(* sends "if(!packetSent)" and calls goDormant from the callback that tells *)
(* of success (beeton-joiner-dormant-sensor.ino:8-10,28-32).                *)
SleepsAfterReport == power = "goingDormant" => reportAcked

=============================================================================
