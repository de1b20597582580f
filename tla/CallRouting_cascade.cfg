\* Handlers one at a time: the cascade through the buyers ends, and so does the call.
CONSTANTS
    b1 = b1  b2 = b2
    Buyers = {b1, b2}
    InitialRoster <- MCTwoLinks
    Priorities = {1, 2}
    Workers = {w1}
    Faults = {"answer", "dial", "bridge"}
    TxAborts = "never"
    Delivery = "serial"
    MaxRepeats = 0
    MaxCrashes = 0
SPECIFICATION FairSpec
PROPERTIES RoutingEnds BuyerHangupEndsCall
CHECK_DEADLOCK FALSE
