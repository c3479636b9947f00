SPECIFICATION Spec
CONSTANTS
    Offers <- MCOffers
    Images <- MCImages
    Lower <- MCLower
    Generated <- MCGenerated
    Compiled <- MCCompiled
    Spellings <- MCSpellings
    Decimal <- MCDecimal
    Wide <- MCWide
    MaxNesting = 4
    MaxRows = 2
INVARIANTS
    TypeOK
    MergedWhole
    ResolvesExactly
    IdLeadsBack
    ParsesOneTree
PROPERTIES
    RevisionsImmutable
    FailsForCause
