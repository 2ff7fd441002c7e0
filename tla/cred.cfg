SPECIFICATION MCSpec
CONSTANTS
    a1 = a1  a2 = a2  l1 = l1  l2 = l2  l3 = l3
    f1 = f1  f2 = f2  p1 = p1  p2 = p2  ada = ada  bob = bob  None = None
    Account = {a1, a2}
    Lineage = {l1, l2, l3}
    Flight = {f1, f2}
    Process = {p1, p2}
    AcctOf <- FirstSecond
    ProcOf <- OwnProcess
    Role <- SwitchRecover
    InitEmail <- SecondKnown
    OwnerOf <- AdaAndBob
    InitVault <- OneEach
    InitLive = l1
    MaxToken = 2
    LockHolds = FALSE
    CrashPoints = {}
    StoreFails = {"read", "write"}
    NetFails = FALSE
    AnswerLost = FALSE
    KeepsToken = FALSE
    ClaudeRuns = TRUE
    LoginAllowed = TRUE
INVARIANTS HoldsOwnLogin RetriesWithAnotherToken RecoveryLosesNoRotation RecoveryKeepsClaudeLoggedIn
PROPERTIES SwitchInstallsOwn
