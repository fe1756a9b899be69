\* One operator who stops a round that has crashed.
CONSTANTS
    Handlers = {h1}
    Rounds = {r1}
    Chats = {c1}
    MaxCalls = 2
    None = None
SPECIFICATION Spec
INVARIANTS
    StopSucceeds
CHECK_DEADLOCK FALSE
