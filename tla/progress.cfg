SPECIFICATION MCSpec
CONSTANTS
    a1 = a1  a2 = a2  l1 = l1  f1 = f1  f2 = f2  f3 = f3  p1 = p1  p2 = p2  p3 = p3
    r1 = r1  ada = ada  None = None
    Account = {a1}
    Lineage = {l1}
    Flight = {f1, f2, f3}
    Process = {p1, p2, p3}
    AcctOf <- OneAccount
    ProcOf <- OwnProcess
    Role <- AllAsk
    InitEmail <- NoEmails
    OwnerOf <- AdaOwns
    InitVault <- Shared
    InitLive = l1
    MaxToken = 4
    LockHolds = TRUE
    CrashPoints = {"lock", "reread", "live", "load", "refresh", "mirror", "mirrorWrite", "rsLoad",
                   "rsLive", "rsOwned", "email", "save", "write", "hand", "handWrite"}
    StoreFails = {"read", "write"}
    NetFails = TRUE
    AnswerLost = TRUE
    KeepsToken = TRUE
    ClaudeRuns = TRUE
    LoginAllowed = FALSE
INVARIANTS TypesOK OneSpenderPerAnyToken
PROPERTIES NeverMovesBack UsesTheLock  EveryOperationEnds  
CHECK_DEADLOCK FALSE
