SPECIFICATION Spec
CONSTANTS
    r1 = r1
    r2 = r2
    u1 = u1
    u2 = u2
    Poller = poller
    NoRev = none
    Revisions <- OneRevision
    Users <- TwoUsers
    MaxJobs = 4
    Budgets <- Lineages
SYMMETRY UserSymmetry
INVARIANTS OneLiveChild DismissedStaysAway LiveHasRuntime
PROPERTIES StagingOfLiveAttemptKept KeepsPromise
