\* Two workspaces, two subscriptions, two checkouts and two webhook handlers.
CONSTANTS
    w1 = w1  k1 = k1  s1 = s1  p1 = p1
    Workspaces = {w1, w2}
    Plans = {p1, p2}
    Checkouts = {c1, c2}
    Customers = {k1, k2}
    Subscriptions = {s1, s2}
    Handlers = {h1, h2}
    MaxEvents = 3
    MaxFaults = 1
SYMMETRY MCSymmetry
SPECIFICATION MCSpec
INVARIANTS PortalShowsCheckouts RowsBelongToPayer AnsweredIsSettled CaughtUp
CHECK_DEADLOCK FALSE
