SPECIFICATION WSpec
CONSTANTS
    Revisions <- MCRevisions
    PageLimit = 2
    MaxWithdrawals = 1
    Misbehaves = TRUE
INVARIANTS
    TypeOK
    NothingMissed
    NothingStale
    ReplacedIsWindow
    SourceWhole
PROPERTIES
    WalkReturns
