SPECIFICATION SpecMembership
CONSTANTS
    s1 = s1  s2 = s2  s3 = s3
    v1 = v1
    None = None
    Server <- Three
    InitialVoters <- TwoVoters
    Value = {}
    Campaigners = {s2}
    Candidates <- MayChange
    Targets <- JustS1
    MaxBatch = 1
    SnapshotThreshold = 0
    Redeliver = TRUE
    MaxTerm = 3
    MaxIndex = 2
    MaxCrashes = 0
    MaxLosses = 0
CHECK_DEADLOCK FALSE
INVARIANTS MatchIndexIsHeld ConfigFollowsLog OneChangeAtATime
PROPERTIES CommitsOnMajority
