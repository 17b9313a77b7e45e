CONSTANTS
    k1 = k1
    k2 = k2
    k3 = k3
    k4 = k4
    Key = {k1, k2, k3, k4}
    v1 = v1
    v2 = v2
    Value = {v1, v2}
    Absent = Absent
    Cell <- Cells
    MaxCapacity = 3
    MsPerSecond = 1
    Int64Half = 16
    Seconds <- Deadlines
    EvictionInterval = 2
    MaxTime = 2
    MaxList = 2
SPECIFICATION SpecStale
SYMMETRY Symmetry
VIEW View
PROPERTIES EvictsLeastRecentlyUsed
