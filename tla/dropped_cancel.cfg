CONSTANTS
    w1 = w1
    w2 = w2
    j1 = j1
    j2 = j2
    id1 = id1
    id2 = id2
    NoWorker = NoWorker
    NoJob = NoJob
    NoTags = NoTags
    Workers <- OneWorker
    Jobs <- OneJob
    Ids <- OneId
    IdOf <- OnlyOne
    Publishers <- WithoutLoop
    Mem <- SmallOne
    Limit <- Single
    FaultKinds <- NoFaults
    MaxFaults = 0
    Stoppable <- OneId
SPECIFICATION Spec
PROPERTIES
    DeliveredCancelActs
