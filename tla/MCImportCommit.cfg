SPECIFICATION FairSpec
CONSTANTS
    l1 = l1
    l2 = l2
    Locators <- TwoCards
    SpecLocator = l1
    None = none
    NFiles = 2
    Size = 2
    Budgets <- OneCrash
CHECK_DEADLOCK FALSE
PROPERTY CommitEnds
