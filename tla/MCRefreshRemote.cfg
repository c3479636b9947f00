SPECIFICATION Spec
CONSTANTS
    Revisions <- TwoRevisions
    PageLimit = 1
    MaxWithdrawals = 0
    Misbehaves = FALSE
    Baked <- None
    Invalid <- None
    Fatal <- None
    Remote = TRUE
    MaxFaults = 2
    BootFaults = FALSE
    MaxCrashes = 1
INVARIANTS
    TypeOK
    OnlyWholeMerges
    RecordedMeansServed
PROPERTIES
    ServesVersions
    CommitsBecomeVisible
