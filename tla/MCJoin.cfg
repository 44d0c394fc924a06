SPECIFICATION SpecJoin
CONSTANTS
    s1 = s1  s2 = s2  s3 = s3
    v1 = v1
    None = None
    Server <- Pair
    InitialVoters <- JustS1
    Value <- OneValue
    Campaigners = {}
    Candidates <- JustS2
    Targets <- JustS2
    MaxBatch = 3
    SnapshotThreshold = 2
    Redeliver = FALSE
    MaxTerm = 2
    MaxIndex = 3
    MaxCrashes = 0
    MaxLosses = 1
PROPERTIES FollowersCatchUp EveryoneApplies TransferEnds 
