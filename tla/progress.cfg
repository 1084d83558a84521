CONSTANTS
    w1 = w1
    w2 = w2
    j1 = j1
    j2 = j2
    id1 = id1
    id2 = id2
    NoWorker = NoWorker
    NoJob = NoJob
    NoTags = NoTags
    Workers <- TwoWorkers
    Jobs <- TwoJobs
    Ids <- TwoIds
    IdOf <- OwnIds
    Publishers <- WithLoop
    Mem <- Mixed
    Limit <- Uneven
    FaultKinds <- AnyFault
    MaxFaults = 1
    Stoppable <- NoIds
SPECIFICATION BudgetSpec
PROPERTIES
    QueueDrains
    BusyTagGoes
