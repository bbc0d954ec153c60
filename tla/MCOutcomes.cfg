SPECIFICATION FairSpec
CONSTANTS
    r1 = r1
    r2 = r2
    u1 = u1
    u2 = u2
    Poller = poller
    NoRev = none
    Revisions <- TwoRevisions
    Users <- OneUser
    MaxJobs = 2
    Budgets <- Deliveries
INVARIANT AckedSuccessInLibrary
PROPERTIES UploadSurvivesProjection OutcomesDelivered
