CONSTANTS
    k1 = k1
    k2 = k2
    Key = {k1, k2}
    Absent = Absent
    SetValue = SetValue
    LeftValue = LeftValue
    RightValue = RightValue
    Empty = Empty
    Value = {SetValue, LeftValue, RightValue, Empty}
    Cell <- Cells
    MaxCapacity = 1
    MsPerSecond = 1
    Int64Half = 64
    Requests <- SomeRequests
    RdbPath = "redis.rdb"
    Mishaps <- CloseFails
    MaxWrites = 3
    MaxSaves = 2
    MaxStarts = 1
    MaxTime = 1
SPECIFICATION Spec
SYMMETRY Symmetry
PROPERTIES AlwaysOldOrNew
