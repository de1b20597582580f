\* A slow run and the run that took its row over: the sixth attempt.
CONSTANTS
    d1 = d1  d2 = d2  e1 = e1  e2 = e2
    Deliveries = {d1}
    Endpoints = {e1, e2}
    EndpointOf <- MCEndpointOf
    Runs = {r1, r2}
    MaxAttempts = 5
    BatchLimit = 1
    Faults = {"endpoint"}
    Posts = "slow"
    MaxCrashes = 0
SPECIFICATION Spec
INVARIANTS AttemptLimit
CHECK_DEADLOCK FALSE
