SPECIFICATION Spec
CONSTANTS
    s1 = s1
    v1 = v1
    None = None
    Server = {s1}
    Value = {v1}
    SparesTail = TRUE
    Batches <- SomeBatches
    HardStates <- SomeHardStates
    Snapshots <- SomeSnapshots
    MaxIndex = 3
    MaxRecords = 5
CHECK_DEADLOCK FALSE
INVARIANTS TypeOK ReplayIsIndex
PROPERTIES ImplementsStore
