CONSTANTS
    c1 = c1
    c2 = c2
    Nobody = Nobody
    Clients <- TwoDashboards
    Opened <- Second
    Capacity = 2
    Buffer = 2
    MaxChanges = 1
    MaxLeaves = 2
SPECIFICATION Spec
INVARIANTS
    DashboardIsCurrent
CHECK_DEADLOCK FALSE
