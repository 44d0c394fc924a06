SPECIFICATION SpecLate
CONSTANTS
    s1 = s1  s2 = s2  s3 = s3
    key1 = key1  one = one
    None = None
    Absent = Absent
    Server <- Three
    InitialVoters <- Three
    Order <- InOrder
    Founders <- Three
    Key = {key1}
    Datum = {one}
    Value <- Commands
    Configured <- LateConfigs
    Sides <- JustS3
    Targets = {}
    MaxBatch = 2
    SnapshotThreshold = 2
    Redeliver = TRUE
    Campaigners <- Three
    Candidates = {}
    MaxTerm = 6
    MaxIndex = 3
    MaxCrashes = 0
    MaxLosses = 0
    MaxCalls = 3
    MaxMail = 9
PROPERTY LeaderKept
