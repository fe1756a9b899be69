\* Two operators whose calls overlap.
CONSTANTS
    Handlers = {h1, h2}
    Rounds = {r1, r2}
    Chats = {c1}
    MaxCalls = 3
    None = None
SPECIFICATION Spec
INVARIANTS
    GateCoversMining
CHECK_DEADLOCK FALSE
