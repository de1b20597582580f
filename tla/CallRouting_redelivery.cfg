\* The provider delivers one event again.  acquireLock admits it once bridgeCalls
\* threw, or markProcessed after it: both leave a FAILED event behind a commit.
CONSTANTS
    b1 = b1  b2 = b2
    Buyers = {b1}
    InitialRoster <- MCOneLink
    Priorities = {1}
    Workers = {w1}
    Faults = {"bridge"}
    TxAborts = "never"
    Delivery = "serial"
    MaxRepeats = 1
    MaxCrashes = 0
SPECIFICATION Spec
INVARIANTS WinnerNeverHungUp
CHECK_DEADLOCK FALSE
