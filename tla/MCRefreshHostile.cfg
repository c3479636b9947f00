SPECIFICATION Spec
CONSTANTS
    Revisions <- ThreeRevisions
    PageLimit = 1
    MaxWithdrawals = 1
    Misbehaves = TRUE
    Baked <- First
    Invalid <- Third
    Fatal <- None
    Remote = TRUE
    MaxFaults = 1
    BootFaults = TRUE
    MaxCrashes = 1
INVARIANTS
    OnlyWholeMerges
PROPERTIES
    ServesVersions
    BootCompletes
