SPECIFICATION FairSpec
CONSTANTS
    a = a
    b = b
    x = x
    y = y
    Node = {a, b}
    Addr = {x}
    Home <- OneWay
    Body = {u1, u2}
    NoBody = NoBody
    SeqMod = 5
    ColdStarts = {0, 3}
    MaxRetries = 1
    RetryInterval = 1
    SeenTtl = 2
    SeenMax = 1
    MaxDelay = 1
    MaxLag = 0
    Restarters = {a, b}
    MaxCycles = 1
INVARIANTS
    AtMostOnce
    AckedMeansAccepted
    FreshSeq
PROPERTIES
    Resolved
