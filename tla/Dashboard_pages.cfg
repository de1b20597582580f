SPECIFICATION MCSpec
CONSTANTS
    w1 = w1  w2 = w2  u1 = u1  u2 = u2  k1 = k1
    c1 = c1  c2 = c2  b1 = b1  b2 = b2
    Users = {u1, u2}
    Workspaces = {w1, w2}
    Keys = {k1}
    Campaigns = {c1, c2}
    Buyers = {b1, b2}
    Priorities = {1}
    Owner <- MCOwner
    Requests = {1, 2}
    MaxSaves = 2
    Visitor = u1
    MaxTasks = 2
    MaxFailures = 1
INVARIANTS DashboardTypeOK RequestIsEntitled LinksStayInWorkspace PageIsCurrent
PROPERTIES ChangesAreEntitled LoadingEnds RedirectsEnd
CHECK_DEADLOCK FALSE
