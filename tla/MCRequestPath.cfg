SPECIFICATION Spec
CONSTANTS
    a = a
    b = b
    Nobody = Nobody
    Clients <- MCClients
    Kinds <- Catalog
    Permits = 1
    MaxJobs = 2
    MaxGen = 1
    MaxPoisoned = 1
INVARIANTS
    TypeOK
    MonotoneReads
PROPERTIES
    PanicsStayLocal
    EveryRequestEnds
