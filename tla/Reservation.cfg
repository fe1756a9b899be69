\* The queue worker and a wait=True request, leases that take the whole pool: a
\* running chat, a leaked lease or a slow return makes the borrow poll and abort.
CONSTANTS
    Validators = {w, u}
    Worker = w
    Chats = {c1}
    Blocks = {b1, b2}
    InPlace = {b1}
    Need = 2
    ReturnAttempts = 2
    MaxJobs = 2
    MaxChunks = 2
    MaxRounds = 1
    MaxCancels = 1
    Free = Free
SPECIFICATION FairSpec
INVARIANTS
    TypeOK
    LeaseHeld
    OneAtATime
    LeakExplained
    PoisonExplained
    HitOnce
PROPERTIES
    JobsEnd
CHECK_DEADLOCK FALSE
