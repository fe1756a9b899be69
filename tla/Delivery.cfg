SPECIFICATION Spec
CONSTANTS
    Node = 1
    Nodes = 2
    Group = 0
    Groups = 2
    BatchSize = 2
    MaxArtifacts = 3
    MaxRetries = 2
    MaxTaken = 6
    Payloads = {p1, p2}
    Stops = {s1, s2}
    MaxStarts = 2
    MaxConcurrent = 1
    QueueSize = 1
    MaxAttempts = 2
INVARIANTS
    StreamTypeOK
    JobTypeOK
    NoNonceSkipped
    ArtifactsAccounted
    PostsOrdered
    CallbacksPlaced
    StopLeavesNothing
PROPERTIES
    StreamFlushed
    CallbacksEnd
    CallbackStopReturns
CHECK_DEADLOCK FALSE
