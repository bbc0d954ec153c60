SPECIFICATION FairSpec
CONSTANTS
    r1 = r1
    r2 = r2
    c1 = c1
    c2 = c2
    Revisions <- TwoRevisions
    Configs <- TwoConfigs
    MaxJobs = 2
    Budgets <- Cancelled
CHECK_DEADLOCK FALSE
PROPERTY UploadingEnds
