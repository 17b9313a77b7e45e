CONSTANTS
    k1 = k1
    k2 = k2
    Key = {k1, k2}
    Absent = Absent
    SetValue = SetValue
    LeftValue = LeftValue
    RightValue = RightValue
    Empty = Empty
    Value = {SetValue, LeftValue, RightValue, Empty}
    r1 = r1
    Replica = {r1}
    Cell <- Cells
    MaxCapacity = 4
    MsPerSecond = 1
    Int64Half = 64
    Requests <- RefusedRequests
    MaxWrites = 3
    MaxFaults = 0
    MaxTime = 0
SPECIFICATION Spec
INVARIANTS ReplicaConverges
