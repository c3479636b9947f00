SPECIFICATION Spec
CONSTANTS
    Revisions <- TwoRevisions
    PageLimit = 1
    MaxWithdrawals = 0
    Misbehaves = FALSE
    Baked <- None
    Invalid <- None
    Fatal <- None
    Remote = TRUE
    MaxFaults = 1
    BootFaults = TRUE
    MaxCrashes = 0
PROPERTIES
    CommitsBecomeVisible
