CONSTANTS
    camera = camera
    file = file
    simulated = simulated
    NoTask = NoTask
    Tasks <- EveryKind
    Kind <- KindByName
SPECIFICATION FairSpec
INVARIANTS
    NothingLeftBehind
    OutcomeIsTrue
PROPERTIES
    CancelEnds
    DurationEnds
    ImplementsTaskLife
CHECK_DEADLOCK FALSE
