SPECIFICATION Spec
CONSTANTS
    a = a
    b = b
    x = x
    y = y
    Node = {a, b}
    Addr = {x}
    Home <- OneWay
    Body = {u1, u2, u3}
    NoBody = NoBody
    SeqMod = 5
    ColdStarts = {2}
    MaxRetries = 1
    RetryInterval = 1
    SeenTtl = 3
    SeenMax = 2
    MaxDelay = 1
    MaxLag = 1
    Restarters = {b}
    MaxCycles = 0
SYMMETRY BodySymmetry
INVARIANTS
    TypeOK
    AtMostOnce
    OneVerdict
PROPERTIES
    ImplementsContract
