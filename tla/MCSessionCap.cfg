SPECIFICATION Spec
CONSTANTS
    a = a
    b = b
    c = c
    s1 = s1
    s2 = s2
    s3 = s3
    s4 = s4
    Callers <- MCCallers
    Ids <- MCIds
    MaxSessions = 1
INVARIANTS
    TypeOK
    BoundedOvershoot
PROPERTIES
    LockoutIsByUse
