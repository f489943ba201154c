SPECIFICATION FairSpec
CONSTANTS
    leader = leader
    j = j
    k = k
    tl = tl
    tj = tj
    Leader = leader
    Joiner = {j}
    Node = {leader, j}
    Addr = {tl, tj, routing, control, ignored}
    RoutingAddr = routing
    ControlAddr = control
    IgnoredAddr = ignored
    LocalThings <- OneJoiner
    Message = {}
    Body <- Payloads
    NoBody = NoBody
    NoIp = NoIp
    Senders = {}
    SeqMod = 4
    ColdStarts = {2}
    MaxRetries = 1
    RetryInterval = 1
    SeenTtl = 2
    SeenMax = 2
    MaxDelay = 1
    MaxLag = 0
    Flappers = {leader}
    Sleepers = {}
    ColdBooters = {}
    MaxFaults = 1
    AppReadyArgs <- NobodySets
PROPERTIES
    TableRecovers
