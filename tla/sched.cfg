CONSTANTS
    w1 = w1
    w2 = w2
    w3 = w3
    NaN = NaN
    NoTask = NoTask
    Workers <- ThreeWorkers
    Types <- TwoTypes
    Fits <- SecondTypeIsLarge
    Predicted <- Speeds
    Configured <- GreedyOrDefault
    MaxJobs = 2
    Window = 1
SPECIFICATION FairSpec
INVARIANTS
    GreedyIsBestSuited
    HybridPicksFirst
    InflightWithinAssigned
    NobodyAsksInVain
PROPERTIES
    JobTaken
