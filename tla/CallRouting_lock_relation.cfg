\* The migrated schema: the lock statement names a relation that does not exist.
CONSTANTS
    b1 = b1  b2 = b2
    Buyers = {b1}
    InitialRoster <- MCOneLink
    Priorities = {1}
    Workers = {w1}
    Faults = {}
    TxAborts = "always"
    Delivery = "serial"
    MaxRepeats = 0
    MaxCrashes = 0
SPECIFICATION Spec
PROPERTIES AnsweredCallRoutes
CHECK_DEADLOCK FALSE
