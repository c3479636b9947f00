SPECIFICATION Spec
CONSTANTS
    a = a
    b = b
    Nobody = Nobody
    Clients <- MCClients
    Kinds <- WithOffers
    Permits = 1
    MaxJobs = 2
    MaxGen = 1
    MaxPoisoned = 0
INVARIANTS
    FacesAgree
