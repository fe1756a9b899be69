\* One operator, one round, and two chat requests.
CONSTANTS
    Handlers = {h1}
    Rounds = {r1}
    Chats = {c1, c2}
    MaxCalls = 1
    None = None
SPECIFICATION Spec
INVARIANTS
    ForwardsRunAlone
CHECK_DEADLOCK FALSE
