CONSTANTS
    k1 = k1
    k2 = k2
    Key = {k1, k2}
    v1 = v1
    Value = {v1}
    Absent = Absent
    NotANumber = NotANumber
    Cell <- ThreeCells
    MaxCapacity = 1
    MsPerSecond = 2
    Int64Half = 16
    Seconds <- FewSeconds
    EvictionInterval = 2
    MaxTime = 2
    MaxList = 2
SPECIFICATION Spec
INVARIANTS SetFindsRoom
