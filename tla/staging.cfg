CONSTANTS
    p1 = p1
    p2 = p2
    u1 = u1
    movie = movie
    Clip = Clip
    Absent = Absent
    Posts <- TwoPosts
    Uploads <- OneUpload
    Movies <- OneMovie
    Placed <- TwoPlaced
    Stamps <- TwoStamps
    Keep = 1
    OldLogs <- TwoLogs
    MaxCrashes = 1
SPECIFICATION BudgetSpec
INVARIANTS
    RunsOnItsFile
    HostedFilesStay
    NoLeftovers
    OwnRequirements
PROPERTIES
    LogsKept
    UsersFilesStay
    TaskEnds
CHECK_DEADLOCK FALSE
