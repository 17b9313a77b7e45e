CONSTANTS
    k1 = k1
    Key = {k1}
    v1 = v1
    Value = {v1}
    Absent = Absent
    Peer = {"p1", "p2"}
    Cell <- Cells
    MaxCapacity = 1
    MsPerSecond = 1
    Int64Half = 16
    Requests <- SomeRequests
    Handshake <- Hello
    MaxFd = 2
    EvictionInterval = 2
    Now = 0
    MaxRequests = 2
SPECIFICATION FairSpec
INVARIANTS TypeOK DescriptorsOwned
PROPERTIES ImplementsService QuietLeaversHarmless EveryRequestAnswered StopEnds ElapsedIsErased
