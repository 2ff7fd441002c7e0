SPECIFICATION Spec
CONSTANTS
    a1 = a1  l1 = l1  f1 = f1  f2 = f2  p1 = p1  p2 = p2  ada = ada  None = None
    Account = {a1}
    Lineage = {l1}
    Flight = {f1, f2}
    Process = {p1, p2}
    AcctOf <- OneAccount
    ProcOf <- OwnProcess
    Role <- AskRecover
    InitEmail <- NoEmails
    OwnerOf <- AdaOwns
    InitVault <- Shared
    InitLive = l1
    MaxToken = 3
    LockHolds = TRUE
    CrashPoints = {}
    StoreFails = {}
    NetFails = FALSE
    AnswerLost = FALSE
    KeepsToken = FALSE
    ClaudeRuns = FALSE
    LoginAllowed = FALSE
INVARIANTS OneSpenderPerAnyToken
