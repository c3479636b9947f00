SPECIFICATION Spec
CONSTANTS
    device = device
    amp = amp
    a = a
    b = b
    d = d
    e = e
    Null = Null
    Symbols <- MCSymbols
    Names <- MCNames
    MaxDepth = 3
    MaxPins = 1
SYMMETRY Symmetry
INVARIANTS
    TypeOK
    ResolvesToOrigin
    CountsInherited
    CountsAgree
    PassesWithinDepth
CHECK_DEADLOCK FALSE
