\* Two overlapping runs of the timer; endpoints refuse or are deleted, statements
\* fail and the process restarts.
CONSTANTS
    d1 = d1  d2 = d2  e1 = e1  e2 = e2
    Deliveries = {d1, d2}
    Endpoints = {e1, e2}
    EndpointOf <- MCEndpointOf
    Runs = {r1, r2}
    MaxAttempts = 4
    BatchLimit = 2
    Faults = {"endpoint", "update"}
    Posts = "prompt"
    MaxCrashes = 1
SPECIFICATION FairSpec
INVARIANTS OneRunPerDelivery PostsBounded
PROPERTIES SettledStays EveryDeliverySettles
CHECK_DEADLOCK FALSE
