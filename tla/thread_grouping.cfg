SPECIFICATION Spec
CONSTANTS
    None = None
    Run = {r1}
    KeyCap = 1
    RingSize = 2
    MaxTurns = 2
    MaxLoads = 1
INVARIANTS GroupingSurvives
CHECK_DEADLOCK FALSE
