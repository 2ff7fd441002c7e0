SPECIFICATION MCSpec
CONSTANTS
    a1 = a1  a2 = a2  a3 = a3  None = None
    Account = {a1, a2, a3}
    Order <- InOrder
    Request = {r1, r2}
    Bindings <- AnyBinding
    RetryAfter = {1}
    Answers <- AnyAnswer
    SavesFail = TRUE
    ListFails = TRUE
    VaultMoves = TRUE
SYMMETRY MCSymmetry
INVARIANTS OnlyThrowsGoUnrecorded RecordTellsTheTruth GivesUpOnlyAtTheEnd RecoversOnce
PROPERTIES ParkedAccountsRest
