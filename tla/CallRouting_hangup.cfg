\* Interleaved handlers: the hangup of the caller always ends the call.
CONSTANTS
    b1 = b1  b2 = b2
    Buyers = {b1, b2}
    InitialRoster <- MCTwoLinks
    Priorities = {1, 2}
    Workers = {w1, w2}
    Faults = {"answer", "dial", "bridge", "hangup"}
    TxAborts = "never"
    Delivery = "interleaved"
    MaxRepeats = 0
    MaxCrashes = 0
SPECIFICATION FairSpec
PROPERTIES CallerHangupEndsCall
CHECK_DEADLOCK FALSE
