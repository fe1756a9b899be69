CONSTANTS
    Configs <- Deployments
    MaxRanks = 4
    Layers = 2
    NoHash = "none"
    Tolerated = 1
SPECIFICATION Spec
CHECK_DEADLOCK FALSE
INVARIANTS
    TypeOK
    LeaseOnly
    StageAgrees
    LeaseKeepsBits
    HonestCleared
    CheatsCharged
    IdleClean
    NobodyStuck
PROPERTY RanksReturn
