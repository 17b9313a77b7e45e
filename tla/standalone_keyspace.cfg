CONSTANTS
    k1 = k1
    k2 = k2
    Key = {k1, k2}
    v1 = v1
    v2 = v2
    Value = {v1, v2}
    Absent = Absent
    NotANumber = NotANumber
    Cell <- TwoCells
    MaxCapacity = 1
    MsPerSecond = 2
    Int64Half = 16
    Seconds <- SomeSeconds
    EvictionInterval = 1
    MaxTime = 2
    MaxList = 2
SPECIFICATION Spec
SYMMETRY Symmetry
VIEW AnswerView
INVARIANTS TypeOK NoEmptyList NoOrphanDeadline
PROPERTIES FreshStart ImplementsKeyspace
