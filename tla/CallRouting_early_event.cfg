\* A buyer's events arrive before commitBuyerDial stored the leg; nothing fails.
CONSTANTS
    b1 = b1  b2 = b2
    Buyers = {b1}
    InitialRoster <- MCOneLink
    Priorities = {1}
    Workers = {w1, w2}
    Faults = {}
    TxAborts = "never"
    Delivery = "interleaved"
    MaxRepeats = 0
    MaxCrashes = 0
SPECIFICATION FairSpec
PROPERTIES RoutingEnds
CHECK_DEADLOCK FALSE
