SPECIFICATION Spec
CONSTANTS
    Revisions <- ThreeRevisions
    PageLimit = 1
    MaxWithdrawals = 0
    Misbehaves = FALSE
    Baked <- First
    Invalid <- Second
    Fatal <- Third
    Remote = FALSE
    MaxFaults = 2
    BootFaults = TRUE
    MaxCrashes = 1
INVARIANTS
    OnlyWholeMerges
PROPERTIES
    ServesVersions
CHECK_DEADLOCK FALSE
