\* Calls may arrive while a /stop is being served.
CONSTANTS
    Jobs = {j1, j2}
    Loads = {1}
    MaxNonces = 3
    Instances = {i1, i2}
    Workers = {w1, w2}
    Stops = {s1}
    MaxStops = 1
    MaxRounds = 1
    Overlaps = TRUE
    None = None
SPECIFICATION Spec
INVARIANT
    AcceptedFound
CHECK_DEADLOCK FALSE
