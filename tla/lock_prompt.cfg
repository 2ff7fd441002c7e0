SPECIFICATION Spec
CONSTANTS
    Proc = {p1, p2, p3}
    None = None
    Stale = 2
    MaxWait = 2
    Poll = 1
    Hold = 2
    Grace = 1
    CrashPoints <- OutsideGuard
    MaxCrashes = 2
    FsErrors = TRUE
SYMMETRY ProcSymmetry
INVARIANTS TypeOK MutualExclusion
PROPERTIES RemovesOnlyDeadLocks ReleasesOnlyOwnLock  ImplementsMutex
