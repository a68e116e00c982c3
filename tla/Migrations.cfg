SPECIFICATION Spec
CONSTANTS
    m1 = m1
    m2 = m2
    Migrator = {m1, m2}
    Origin <- McOrigin
    latest = 2
    MaxCrashes = 2
    MaxRuns = 3
INVARIANTS
    OutcomeIsTrue
    NoGapInUniqueness
PROPERTY HandoffCompletes
CHECK_DEADLOCK FALSE
