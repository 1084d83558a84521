CONSTANTS
    w1 = w1
    w2 = w2
    w3 = w3
    NaN = NaN
    NoTask = NoTask
    Workers <- TwoWorkers
    Types <- OneType
    Fits <- AllFit
    Predicted <- Even
    Configured <- Default
    MaxJobs = 2
    Window = 2
SPECIFICATION Spec
INVARIANTS
    BestSuited
