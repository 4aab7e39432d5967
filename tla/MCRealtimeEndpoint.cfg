SPECIFICATION EndpointFairSpec
CONSTANTS
    Clients = {c1}
    MaxBatch = 2
    Requests = {r1, r2}
    Capacity = 2
INVARIANTS
    NoConnectionLeaks
    AudienceWithinPool
PROPERTIES
    RequestsEnd
    ConnectionComesBack
