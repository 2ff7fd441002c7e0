SPECIFICATION Spec
CONSTANTS
    a1 = a1
    a2 = a2
    Account = {a1, a2}
    Order <- TwoInOrder
    Request = {r1}
    None = None
    Bindings = {"any"}
    RetryAfter = {1}
    Answers <- AnyAnswer
    SavesFail = TRUE
    ListFails = FALSE
    VaultMoves = FALSE
INVARIANTS OneRecordPerRequest
