SPECIFICATION SpecReconfigure
CONSTANTS
    s1 = s1  s2 = s2  s3 = s3  s4 = s4  s5 = s5
    v1 = v1
    None = None
    Server <- Five
    InitialVoters <- Four
    Value = {}
    Campaigners = {}
    Candidates <- JustS1
    Targets = {}
    MaxBatch = 1
    SnapshotThreshold = 0
    Redeliver = TRUE
    MaxTerm = 3
    MaxIndex = 1
    MaxCrashes = 0
    MaxLosses = 0
INVARIANTS LeaderCompleteness
CHECK_DEADLOCK FALSE
