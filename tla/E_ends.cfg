SPECIFICATION EndpointsSpec
CONSTANTS
    a = a
    b = b
    rawA = rawA
    rawUpperA = rawUpperA
    rawB = rawB
    blank = blank
    EmptyName = EmptyName
    NotANumber = NotANumber
    None = None
    RawName = {rawA, rawUpperA, rawB, blank}
    Name = {a, b, EmptyName}
    Lower <- LowerOf
    Number = {0, 1, 4, 16}
    Base = 4
    OriginSize = 2
    Origin <- SenderBytes
    Destinations <- Owned
    Texts <- Typing
    Calls <- Sends
    Tables <- Announcements
    Foreign <- Datagrams
INVARIANTS
    MappingsTypeOK
    ThingsTwoWay
    ActionsTwoWay
    Grounded
    HostedOnce
    LinesWhole
    SendsExact
    MessageAsSent
    TableAsSent
    OneReading
    TypedReachesDevice
    HostedReachesLeader
PROPERTIES
    FirstRowWins
CHECK_DEADLOCK FALSE
