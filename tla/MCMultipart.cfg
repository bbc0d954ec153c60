SPECIFICATION FairSpec
CONSTANTS
    j1 = j1
    j2 = j2
    Jobs <- TwoJobs
    Contents = 2
    Parts = 2
    Budgets <- Mixed
CHECK_DEADLOCK FALSE
INVARIANTS RetiredIsAccounted MarkerLast
PROPERTIES OpenJobNotAborted OrphansSettle
