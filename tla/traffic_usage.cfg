SPECIFICATION Spec
CONSTANTS
    Proxy = {p1}
    MaxRequest = 1
    HopsOf <- OneHop
    MaxRows = 0
    MaxAge = 0
    PruneEvery = 2
    Sizes = {1}
    MaxStops = 0
INVARIANTS StoredUsageIsTheResponses
CHECK_DEADLOCK FALSE
