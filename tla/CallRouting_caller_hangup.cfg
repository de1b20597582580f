\* The caller hangs up while a buyer's phone rings; nothing fails.
CONSTANTS
    b1 = b1  b2 = b2
    Buyers = {b1}
    InitialRoster <- MCOneLink
    Priorities = {1}
    Workers = {w1}
    Faults = {}
    TxAborts = "never"
    Delivery = "serial"
    MaxRepeats = 0
    MaxCrashes = 0
SPECIFICATION Spec
INVARIANTS CallerHangupEndsBuyers
CHECK_DEADLOCK FALSE
