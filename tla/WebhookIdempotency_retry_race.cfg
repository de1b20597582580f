\* Two deliveries that read the same FAILED row both get to process it.
CONSTANTS
    Deliveries = {d1, d2, d3}
    Faults = {"handler"}
    MaxCrashes = 0
SPECIFICATION Spec
PROPERTIES BusyEventIsRefused
CHECK_DEADLOCK FALSE
