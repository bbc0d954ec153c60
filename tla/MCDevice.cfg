CHECK_DEADLOCK FALSE
CONSTANTS
    Connectors = {"c1"}
    MaxAttempts = 2
    Profiles = {"v4", "legacy"}
    Budgets <- MCBudgets
SPECIFICATION FairSpec
INVARIANTS SessionMatchesConnection
PROPERTIES RepliesKeepToTheirConnection PairingEnds
