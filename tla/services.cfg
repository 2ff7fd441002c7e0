SPECIFICATION MCSpec
CONSTANTS
    f1 = f1  f2 = f2  p1 = p1  c1 = c1  q1 = q1  q2 = q2  a1 = a1  v1 = v1  v2 = v2  w1 = w1  w2 = w2
    s1 = s1  s2 = s2  la = la  lb = lb  r1 = r1  r2 = r2  call1 = call1  Foreign = Foreign
    u1 = u1  u2 = u2  id1 = id1  id2 = id2  m1 = m1  m2 = m2  m3 = m3
    n1 = n1  k1 = k1  k2 = k2  ma = ma  mb = mb
    None = None  Blank = Blank
    Flight = {f1, f2}
    Process = {p1}
    ProcOf <- OneProcess
    Custom = {c1}
    Profile = {q1, q2}
    Account = {a1}
    ProviderOf <- Providers
    Key = {v1}
    Jobs <- AllJobs
    Bundle <- OpenBundle
    NameTells = FALSE
SYMMETRY MCSymmetry
INVARIANTS TypesOK StrippedMeansStripped SwitchTookEffect SteadyRunIsHeard  
PROPERTIES WritesStayNarrow NothingIsHalfWritten
CHECK_DEADLOCK FALSE
