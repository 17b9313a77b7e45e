CONSTANTS
    k1 = k1
    k2 = k2
    k3 = k3
    Key = {k1, k2, k3}
    v1 = v1
    Value = {v1}
    Absent = Absent
    NotANumber = NotANumber
    Cell <- ThreeCells
    MaxCapacity = 2
    MsPerSecond = 2
    Int64Half = 16
    Seconds <- FewSeconds
    EvictionInterval = 1
    MaxTime = 0
    MaxList = 2
SPECIFICATION Spec
SYMMETRY Symmetry
VIEW View
INVARIANTS DisjointStores IteratorsValid StringsTracked StringsFit
PROPERTIES NoSilentLoss EvictsNoMoreThanNeeded
