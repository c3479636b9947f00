SPECIFICATION Spec
CONSTANTS
    Offers <- MCOffers
    Images <- MCImages
    Lower <- MCLower
    Generated <- MCGenerated
    Compiled <- WithForeign
    Spellings <- MCSpellings
    Decimal <- MCDecimal
    Wide <- MCWide
    MaxNesting = 4
    MaxRows = 1
PROPERTIES
    FailsForCause
