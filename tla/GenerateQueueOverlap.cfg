\* Two /stops that may overlap with each other and with every other call.
CONSTANTS
    Jobs = {j1, j2, j3}
    Loads = {1}
    MaxNonces = 2
    Instances = {i1, i2}
    Workers = {w1, w2, w3}
    Stops = {s1, s2}
    MaxStops = 2
    MaxRounds = 1
    Overlaps = TRUE
    None = None
SPECIFICATION FairSpec
PROPERTIES
    StopReturns
CHECK_DEADLOCK FALSE
