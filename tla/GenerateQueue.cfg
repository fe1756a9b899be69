\* One /stop at a time, calls wait for it: three jobs of one or two nonces.
CONSTANTS
    Jobs = {j1, j2, j3}
    Loads = {1, 2}
    MaxNonces = 3
    Instances = {i1, i2, i3}
    Workers = {w1, w2, w3}
    Stops = {s1}
    MaxStops = 2
    MaxRounds = 1
    Overlaps = FALSE
    None = None
SPECIFICATION FairSpec
INVARIANTS
    TypeOK
    NonceAccounting
    Served
PROPERTIES
    JobsAnswered
    ImplementsJobService
CHECK_DEADLOCK FALSE
