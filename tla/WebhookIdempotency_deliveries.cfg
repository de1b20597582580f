\* Concurrent deliveries of one event; handlers and statements fail, and the
\* process restarts.
CONSTANTS
    Deliveries = {d1, d2, d3}
    Faults = {"handler", "lock", "mark"}
    MaxCrashes = 1
SPECIFICATION FairSpec
INVARIANTS OneHandler EffectRecorded
PROPERTIES ImplementsEventProcessing PendingIsSettled
CHECK_DEADLOCK FALSE
