SPECIFICATION FairSpec
CONSTANTS
    j1 = j1
    j2 = j2
    j3 = j3
    Jobs <- ThreeJobs
    Migration = migration
    Nobody = nobody
    Budgets <- OneFault
CHECK_DEADLOCK FALSE
INVARIANT FailedMigrationKeepsLegacy
