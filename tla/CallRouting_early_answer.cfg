\* A buyer's events overtake the handler that dialled; nothing fails.
CONSTANTS
    b1 = b1  b2 = b2
    Buyers = {b1}
    InitialRoster <- MCOneLink
    Priorities = {1}
    Workers = {w1, w2}
    Faults = {}
    TxAborts = "never"
    Delivery = "interleaved"
    MaxRepeats = 0
    MaxCrashes = 0
SPECIFICATION Spec
INVARIANTS CompletedHasWinner
CHECK_DEADLOCK FALSE
