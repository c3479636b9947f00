SPECIFICATION Spec
CONSTANTS
    Base <- MCBase
    Packs <- MCPacks
    Calls <- MCCalls
    Order <- MCOrder
    Lower <- MCLower
    Width <- MCWidth
INVARIANTS
    SupersededNeverLeaks
    Complete
    CompatibleLiteral
    RefusedForCause
    FacesAskAlike
