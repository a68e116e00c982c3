SPECIFICATION SeriesSpec
CONSTANTS
    SeriesCommit <- McCommit
    Submission <- McSubmission
    Null = Null
    DistributionCommits = 4
    MembersTailLimit = 5
    MaxEdits = 1
INVARIANTS
    
    VerdictsAgree
    SummaryMatchesTheAggregates
CHECK_DEADLOCK FALSE
