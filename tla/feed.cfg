CONSTANTS
    c1 = c1
    c2 = c2
    Nobody = Nobody
    Clients <- TwoDashboards
    Opened <- Second
    Capacity = 1
    Buffer = 2
    MaxChanges = 3
    MaxLeaves = 2
SPECIFICATION FocusSpec
INVARIANTS
    OnlyInitialOverlaps
    BroadcastsInOrder
    NewsIsOnItsWay
PROPERTIES
    NewsArrives
    EventsHandled
    ClosedIsForgotten
CHECK_DEADLOCK FALSE
