----------------------------- MODULE JobService -----------------------------
(***************************************************************************)
(* What /generate with wait=false promises to clients and to an operator   *)
(* who waits for each answer of /stop: accepted jobs are computed one at a *)
(* time in the order of their acceptance, a job's record never goes back,  *)
(* and it disappears only by a /stop, which takes all of them, or after    *)
(* its time to live, once the job has ended.                               *)
(***************************************************************************)
EXTENDS Naturals, Sequences

CONSTANTS
    Jobs,       \* requests to /generate with wait=false
    Loads,      \* numbers of nonces a job may have
    MaxNonces   \* POC_MAX_QUEUED_NONCES

VARIABLES
    status,     \* what GET /generate/{id} shows of each job
    load,       \* the nonces of each accepted job
    line        \* accepted jobs that have not ended, oldest first

service == <<status, load, line>>

Final == {"completed", "failed"}

\* "forgotten": 404.
Statuses == {"new", "refused", "queued", "running", "forgotten"} \union Final

Init ==
    /\ status = [j \in Jobs |-> "new"]
    /\ load = [j \in Jobs |-> 0]
    /\ line = <<>>

\* The sum of f over a sequence.
SumOver(f, seq) ==
    LET sum[n \in 0..Len(seq)] == IF n = 0 THEN 0 ELSE sum[n - 1] + f[seq[n]]
    IN  sum[Len(seq)]

\* The nonces of the jobs that have not ended.
Total == SumOver(load, line)

Fits(n) == Total + n <= MaxNonces

Accept(j, n) ==
    /\ status[j] = "new"
    /\ Fits(n)
    /\ status' = [status EXCEPT ![j] = "queued"]
    /\ load' = [load EXCEPT ![j] = n]
    /\ line' = Append(line, j)

Refuse(j, n) ==
    /\ status[j] = "new"
    /\ ~Fits(n)
    /\ status' = [status EXCEPT ![j] = "refused"]
    /\ UNCHANGED <<load, line>>

Start ==
    /\ line # <<>>
    /\ status[Head(line)] = "queued"
    /\ status' = [status EXCEPT ![Head(line)] = "running"]
    /\ UNCHANGED <<load, line>>

\* Records that ended before may expire as a job ends.
Finish(outcome, expired) ==
    /\ line # <<>>
    /\ status[Head(line)] = "running"
    /\ \A j \in expired : status[j] \in Final
    /\ status' = [j \in Jobs |->
                    IF j = Head(line) THEN outcome
                    ELSE IF j \in expired THEN "forgotten" ELSE status[j]]
    /\ line' = Tail(line)
    /\ UNCHANGED load

Forget ==
    /\ status' = [j \in Jobs |->
                    IF status[j] \in {"new", "refused"} THEN status[j]
                    ELSE "forgotten"]
    /\ line' = <<>>
    /\ UNCHANGED load

Next ==
    \/ \E j \in Jobs, n \in Loads : Accept(j, n) \/ Refuse(j, n)
    \/ Start
    \/ \E outcome \in Final, expired \in SUBSET Jobs : Finish(outcome, expired)
    \/ Forget

Spec == Init /\ [][Next]_service
=============================================================================
