\* Every interleaving of two handlers, with events out of order and repeated,
\* rolled back transactions and faulty provider commands.
CONSTANTS
    b1 = b1  b2 = b2
    Buyers = {b1, b2}
    InitialRoster <- MCTwoLinks
    Priorities = {1, 2}
    Workers = {w1, w2}
    Faults = {"answer", "dial", "dialLost", "bridge", "hangup"}
    TxAborts = "sometimes"
    Delivery = "interleaved"
    MaxRepeats = 1
    MaxCrashes = 0
SYMMETRY HandlerSymmetry
SPECIFICATION Spec
INVARIANTS
    OneActiveAttempt OneWinner SettledAttempts WinnerKept
PROPERTIES EndIsFinal
CHECK_DEADLOCK FALSE
