SPECIFICATION SpecSafety
CONSTANTS
    s1 = s1  s2 = s2  s3 = s3
    v1 = v1
    None = None
    Server <- Three
    InitialVoters <- Three
    Value <- OneValue
    Campaigners = {}
    Candidates = {}
    Targets = {}
    MaxBatch = 2
    SnapshotThreshold = 0
    Redeliver = TRUE
    MaxTerm = 4
    MaxIndex = 2
    MaxCrashes = 1
    MaxLosses = 0
CHECK_DEADLOCK FALSE
INVARIANTS TypeOK OneVotePerTerm VotesAreDurable ElectionSafety LogMatching LeaderCompleteness StateMachineSafety MatchIndexIsHeld ProgressInRange
PROPERTIES CommittedNeverTruncated
