SPECIFICATION SpecStaleSnapshot
CONSTANTS
    s1 = s1  s2 = s2  s3 = s3
    v1 = v1
    None = None
    Server <- Three
    InitialVoters <- Three
    Value <- OneValue
    Campaigners = {}
    Candidates = {}
    Targets = {}
    MaxBatch = 1
    SnapshotThreshold = 2
    Redeliver = TRUE
    MaxTerm = 2
    MaxIndex = 4
    MaxCrashes = 0
    MaxLosses = 0
PROPERTIES NotDraggedBackwards
CHECK_DEADLOCK FALSE
