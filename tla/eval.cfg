CONSTANTS
    j1 = j1
    j2 = j2
    j3 = j3
    w1 = w1
    w2 = w2
    None = None
    Jobs <- ThreeJobs
    Workers <- TwoWorkers
SPECIFICATION Spec
INVARIANTS
    LaterPassesCatchUp
    SnapshotWhole
    GiniIsMeanDifference
SYMMETRY Alike
CHECK_DEADLOCK FALSE
