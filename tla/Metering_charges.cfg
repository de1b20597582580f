\* Two requests for one number, one call on it, three handlers and two
\* connections; every statement may fail and the process may restart.
CONSTANTS
    w1 = w1  w2 = w2  k1 = k1
    Workspaces = {w1, w2}
    Numbers = {n1}
    Campaigns = {k1}
    CampaignOwner <- MCCampaignOwner
    Requests = {r1, r2}
    MaxPolls = 1
    Calls = {c1}
    Handlers = {h1, h2, h3}
    Pool = 2
    Minute = 2
    MaxAge = 3
SYMMETRY MCSymmetry
SPECIFICATION MCSpec
INVARIANTS StoredIsOurs UsageIsTraceable DurationIsCharged EventsAreTrue
PROPERTIES OwnerKept
CHECK_DEADLOCK FALSE
