SPECIFICATION SensorFairSpec
CONSTANTS
    leader = leader
    sensor = sensor
    ts = ts
    Leader = leader
    Joiner = {sensor}
    Node = {leader, sensor}
    Sensor = sensor
    Addr = {ts, routing, control, ignored}
    RoutingAddr = routing
    ControlAddr = control
    IgnoredAddr = ignored
    LocalThings <- SensorThings
    Message = {report}
    Body <- Payloads
    NoBody = NoBody
    NoIp = NoIp
    Senders = {}
    SeqMod = 8
    ColdStarts = {1}
    MaxRetries = 1
    RetryInterval = 1
    SeenTtl = 2
    SeenMax = 2
    MaxDelay = 1
    MaxLag = 0
    Flappers = {}
    Sleepers = {}
    ColdBooters = {}
    MaxFaults = 1
    AppReadyArgs <- NobodySets
    MaxRefusals = 1
INVARIANTS
    SensorTypeOK
    DormantOnFreshWord
PROPERTIES
    KeepsSleeping
