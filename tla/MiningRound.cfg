\* Two operators whose calls may overlap, four calls, two rounds, one chat; and one of the
\* operators with two chats.
CONSTANTS
    Handlers = {h1, h2}
    Rounds = {r1, r2}
    Chats = {c1, c2}
    MaxCalls = 4
    None = None
    Operator = h1
    Chat = c1
SPECIFICATION MCSpec
INVARIANTS
    TypeOK
    GateOwned
    SerialGateCoversMining
    NoOrphan
    StopLeavesNoRound
    NoPoisonedHandover
PROPERTIES
    StopReturns
    SlipsAtMostOnce
CHECK_DEADLOCK FALSE
