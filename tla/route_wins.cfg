SPECIFICATION Spec
CONSTANTS
    n1 = n1  v1 = v1  k1 = k1  k2 = k2  ma = ma  mb = mb  None = None
    Name = {n1}
    Profiles <- OneProfile
    Vault = {v1}
    Key = {k1, k2}
    Model = {ma, mb}
    MaxEdits = 1
INVARIANTS RouteWinsOutright
CHECK_DEADLOCK FALSE
