SPECIFICATION Spec
CONSTANTS
    leader = leader
    j = j
    k = k
    tl = tl
    tj = tj
    Leader = leader
    Joiner = {j, k}
    Node = {leader, j, k}
    Addr = {tl, tj, routing, control, ignored}
    RoutingAddr = routing
    ControlAddr = control
    IgnoredAddr = ignored
    LocalThings <- Shared
    Message = {m}
    Body <- Payloads
    NoBody = NoBody
    NoIp = NoIp
    Senders = {j}
    SeqMod = 6
    ColdStarts = {4}
    MaxRetries = 1
    RetryInterval = 1
    SeenTtl = 1
    SeenMax = 1
    MaxDelay = 0
    MaxLag = 0
    Flappers = {}
    Sleepers = {}
    ColdBooters = {}
    MaxFaults = 1
    AppReadyArgs <- OneSets
INVARIANTS
    ServedByOwner
    ConfirmedMeansServed
