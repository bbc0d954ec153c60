SPECIFICATION Spec
CONSTANTS
    e1 = e1
    e2 = e2
    d1 = d1
    d2 = d2
    Entries <- TwoEntries
    Deleters <- TwoDeleters
    MaxDeletes = 2
    MaxBundles = 4
    Budgets <- Deletions
CHECK_DEADLOCK FALSE
INVARIANTS NoFilesLost
PROPERTIES OnlyAScanRestores UploadKeepsFiles
