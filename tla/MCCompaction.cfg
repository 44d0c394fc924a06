SPECIFICATION SpecCompaction
CONSTANTS
    s1 = s1  s2 = s2  s3 = s3
    v1 = v1
    None = None
    Server <- Three
    InitialVoters <- Three
    Value <- OneValue
    Campaigners = {}
    Candidates = {}
    Targets = {}
    MaxBatch = 2
    SnapshotThreshold = 2
    Redeliver = TRUE
    MaxTerm = 2
    MaxIndex = 3
    MaxCrashes = 1
    MaxLosses = 0
CHECK_DEADLOCK FALSE
INVARIANTS TypeOK TermsNeverDecrease StateMachineSafety SnapshotsAreCommitted MatchIndexIsHeld ProgressInRange
PROPERTIES CommittedNeverTruncated LeaderAppendOnly
