SPECIFICATION SpecFree
CONSTANTS
    s1 = s1  s2 = s2  s3 = s3
    key1 = key1  one = one
    None = None
    Absent = Absent
    Server <- Three
    InitialVoters <- Two
    Order <- InOrder
    Founders <- Two
    Key = {key1}
    Datum = {one}
    Value <- Commands
    Configured <- Configs
    Sides <- JustS1
    Targets <- JustS2
    MaxBatch = 1
    SnapshotThreshold = 1
    Redeliver = TRUE
    Campaigners <- Three
    Candidates <- JustS3
    MaxTerm = 3
    MaxIndex = 1
    MaxCrashes = 0
    MaxLosses = 0
    MaxCalls = 1
    MaxMail = 1
CHECK_DEADLOCK FALSE
INVARIANTS RoundsTypeOK 
PROPERTIES ImplementsCluster FollowersAreLoyal
