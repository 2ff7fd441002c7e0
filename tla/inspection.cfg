SPECIFICATION MCSpec
CONSTANTS
    pa = pa  pb = pb  None = None
    acct = acct  other = other  ma = ma  mb = mb  route = route  refused = refused
    k1 = k1  k2 = k2  k3 = k3  ra = ra  rb = rb  w1 = w1  w2 = w2  a1 = a1  a2 = a2  a3 = a3
    Proxy = {pa, pb}
    MaxRequest = 3
    HopsOf <- HopsMade
    MaxRows = 1
    MaxAge = 1
    PruneEvery = 2
    Sizes = {0, 1}
    MaxStops = 1
SYMMETRY MCSymmetry
INVARIANTS TypesOK HopsFollowExchange  
 
CHECK_DEADLOCK FALSE
