SPECIFICATION Spec
INVARIANTS DialledOnce OneWinner SameRoom
PROPERTY RoutingStops
CHECK_DEADLOCK FALSE
