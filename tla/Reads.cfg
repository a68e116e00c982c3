SPECIFICATION ListSpec
CONSTANTS
    Row <- McRow
    ListCommit <- McCommit
    CaseOf <- McCaseOf
    ListInitial = {1, 2, 3, 4}
    ListQueries <- McQueries
    PageSize = 1
    CompleteCaseLimit = 1
    QRecentLimit = 2
    BrowseLimit = 2
    ScopedLimit = 2
    TailLimit = 2
    CandidateLimit = 3
    AttentionLimit = 1
    MaxWrites = 3
INVARIANTS
    NothingListedTwice
    NothingMissed
    PageAndMembersAgree
CHECK_DEADLOCK FALSE
