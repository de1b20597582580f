\* A restart at any point, a failed dial, an event handled again, and links added
\* during the call: of a further buyer and of the one who is linked already.
CONSTANTS
    b1 = b1  b2 = b2
    Buyers = {b1, b2}
    InitialRoster <- MCOneLink
    Priorities = {0, 1, 2}
    Workers = {w1, w2}
    Faults = {"dial"}
    TxAborts = "never"
    Delivery = "interleaved"
    MaxRepeats = 1
    MaxCrashes = 1
SYMMETRY HandlerSymmetry
SPECIFICATION Spec
INVARIANTS NoBuyerTwice PriorityOrder OneLegLive
PROPERTIES ImplementsSequentialRouting
CHECK_DEADLOCK FALSE
