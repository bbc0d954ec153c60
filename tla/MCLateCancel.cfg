CHECK_DEADLOCK FALSE
CONSTANTS
    Connectors = {"c1"}
    MaxAttempts = 2
    Profiles = {"v4", "legacy"}
    Budgets <- MCLateCancelBudgets
SPECIFICATION FairSpec
PROPERTIES PairingEnds
