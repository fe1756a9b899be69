\* The instance of Reservation.cfg; a job is cancelled while it borrows.
CONSTANTS
    Validators = {w, u}
    Worker = w
    Chats = {c1}
    Blocks = {b1, b2}
    InPlace = {b1}
    Need = 2
    ReturnAttempts = 2
    MaxJobs = 2
    MaxChunks = 2
    MaxRounds = 1
    MaxCancels = 1
    Free = Free
SPECIFICATION Spec
INVARIANT
    NoLeak
CHECK_DEADLOCK FALSE
