---------------------------- MODULE GenerateQueue ----------------------------
(***************************************************************************)
(* Queued validation and generation: POST /generate with wait=false and    *)
(* GET /generate/{id} (poc/routes.py), the GenerateQueue with its worker   *)
(* task and its singleton (poc/generate_queue.py), and the part of /stop   *)
(* that clears the queue.                                                  *)
(*                                                                         *)
(* An action is the code between two awaits that can suspend.  The queue's *)
(* asyncio.Lock is never held across one, and put on an unbounded queue    *)
(* does not suspend, so a POST runs from get_queue to its answer in one    *)
(* step.  /stop suspends up to three times: until the mining task, the     *)
(* queue's worker and the callback queue have ended.                       *)
(*                                                                         *)
(* A job from its reservation to its last chunk is the state "processing"  *)
(* here; module Reservation has the details.                               *)
(***************************************************************************)
EXTENDS Naturals, Sequences

CONSTANTS
    Jobs,           \* requests to /generate with wait=false
    Loads,          \* numbers of nonces a job may have
    MaxNonces,      \* POC_MAX_QUEUED_NONCES
    Instances,      \* GenerateQueue objects
    Workers,        \* worker tasks
    Stops,          \* concurrent /stop requests
    MaxStops,       \* bound: /stop requests in a behaviour
    MaxRounds,      \* bound: mining rounds
    Overlaps,       \* whether calls arrive while a /stop is being served
    None

ASSUME NoneAssumption == None \notin Jobs \union Instances \union Workers
ASSUME BoundsAssumption ==
    /\ Loads \subseteq Nat
    /\ MaxNonces \in Nat /\ MaxStops \in Nat /\ MaxRounds \in Nat
    /\ Overlaps \in BOOLEAN

VARIABLES
    inst,       \* _queue_instance
    queue,      \* _queue of each instance
    nonces,     \* _queued_nonces
    result,     \* _results: the status of each record
    stopped,    \* _stop_event
    worker,     \* _worker_task
    cbq,        \* _callback_queue is not None
    made,       \* instances created so far
    wpc,        \* where each worker task is
    home,       \* the instance whose loop it runs
    job,        \* the job it has taken
    cancel,     \* cancel() was called and not yet delivered
    spc,        \* where each /stop is suspended
    target,     \* the instance it stops
    awaited,    \* the worker task it waits for
    mining,     \* the mining round: none, active or crashed
    stops, rounds,  \* counted against their bounds
    load,       \* the nonces of each job
    answer,     \* history: what POST answered
    dropped     \* history: jobs cleared by a /stop, and expired records

instVars  == <<queue, nonces, result, stopped, worker, cbq>>
taskVars  == <<wpc, home, job, cancel>>
stopVars  == <<spc, target, awaited, stops>>
roundVars == <<mining, rounds>>
jobVars   == <<load, answer, dropped>>
vars == <<inst, made, instVars, taskVars, stopVars, roundVars, jobVars>>

\* "dying": on its way out of the reservation with a CancelledError.
WorkerStates ==
    {"unborn", "new", "get", "waiting", "processing", "dying", "done"}

Final == {"completed", "failed"}

TypeOK ==
    /\ inst \in Instances \union {None}
    /\ made \subseteq Instances
    /\ queue \in [Instances -> Seq(Jobs)]
    /\ nonces \in [Instances -> 0..MaxNonces]
    /\ result \in [Instances -> [Jobs -> {"none", "queued", "running"} \union Final]]
    /\ stopped \in [Instances -> BOOLEAN]
    /\ worker \in [Instances -> Workers \union {None}]
    /\ cbq \in [Instances -> BOOLEAN]
    /\ wpc \in [Workers -> WorkerStates]
    /\ home \in [Workers -> Instances \union {None}]
    /\ job \in [Workers -> Jobs \union {None}]
    /\ cancel \in [Workers -> BOOLEAN]
    /\ spc \in [Stops -> {"idle", "ending", "joining", "callbacks"}]
    /\ target \in [Stops -> Instances \union {None}]
    /\ awaited \in [Stops -> Workers \union {None}]
    /\ mining \in {"none", "active", "crashed"}
    /\ stops \in 0..MaxStops /\ rounds \in 0..MaxRounds
    /\ load \in [Jobs -> Loads \union {0}]
    /\ answer \in [Jobs -> {"none", "queued", "refused"}]
    /\ dropped \subseteq Jobs

Init ==
    /\ inst = None
    /\ made = {}
    /\ queue = [i \in Instances |-> <<>>]
    /\ nonces = [i \in Instances |-> 0]
    /\ result = [i \in Instances |-> [j \in Jobs |-> "none"]]
    /\ stopped = [i \in Instances |-> FALSE]
    /\ worker = [i \in Instances |-> None]
    /\ cbq = [i \in Instances |-> FALSE]
    /\ wpc = [w \in Workers |-> "unborn"]
    /\ home = [w \in Workers |-> None]
    /\ job = [w \in Workers |-> None]
    /\ cancel = [w \in Workers |-> FALSE]
    /\ spc = [s \in Stops |-> "idle"]
    /\ target = [s \in Stops |-> None]
    /\ awaited = [s \in Stops |-> None]
    /\ mining = "none"
    /\ stops = 0 /\ rounds = 0
    /\ load = [j \in Jobs |-> 0]
    /\ answer = [j \in Jobs |-> "none"]
    /\ dropped = {}

----------------------------------------------------------------------------
(* Calls.                                                                  *)

AtWork(s) == spc[s] # "idle"

MayCall == Overlaps \/ \A s \in Stops : ~AtWork(s)

\* get_queue: the current instance, or a new one.
GetQueue(i) ==
    /\ made' = made \union {i}
    /\ inst' = i
    /\ IF inst = None
         THEN i \notin made /\ i = CHOOSE k \in Instances : k \notin made
         ELSE i = inst

Refuse(j, i, n) ==
    /\ nonces[i] + n > MaxNonces
    /\ answer' = [answer EXCEPT ![j] = "refused"]
    /\ UNCHANGED <<instVars, taskVars, load>>

\* ensure_worker_running.
EnsureWorker(i) ==
    IF worker[i] = None \/ wpc[worker[i]] = "done"
      THEN \E w \in Workers :
             /\ wpc[w] = "unborn"
             /\ w = CHOOSE x \in Workers : wpc[x] = "unborn"
             /\ stopped' = [stopped EXCEPT ![i] = FALSE]
             /\ worker' = [worker EXCEPT ![i] = w]
             /\ wpc' = [wpc EXCEPT ![w] = "new"]
             /\ home' = [home EXCEPT ![w] = i]
      ELSE UNCHANGED <<stopped, worker, wpc, home>>

Accept(j, i, n) ==
    /\ nonces[i] + n <= MaxNonces
    /\ answer' = [answer EXCEPT ![j] = "queued"]
    /\ load' = [load EXCEPT ![j] = n]
    /\ nonces' = [nonces EXCEPT ![i] = @ + n]
    /\ result' = [result EXCEPT ![i][j] = "queued"]
    /\ queue' = [queue EXCEPT ![i] = Append(@, j)]
    /\ EnsureWorker(i)
    /\ UNCHANGED <<cbq, job, cancel>>

Post(j) ==
    /\ MayCall
    /\ answer[j] = "none"
    /\ \E i \in Instances, n \in Loads :
          GetQueue(i) /\ (Accept(j, i, n) \/ Refuse(j, i, n))
    /\ UNCHANGED <<stopVars, roundVars, dropped>>

\* GET /generate/{id}: a look that may create an instance.
Look ==
    /\ MayCall
    /\ inst = None
    /\ \E i \in Instances : GetQueue(i)
    /\ UNCHANGED <<instVars, taskVars, stopVars, roundVars, jobVars>>

\* Within the bounds, one /stop is kept for the round.
MiningStarts ==
    /\ MayCall
    /\ mining = "none"
    /\ rounds < MaxRounds /\ stops < MaxStops
    /\ rounds' = rounds + 1
    /\ mining' = "active"
    /\ UNCHANGED <<inst, made, instVars, taskVars, stopVars, jobVars>>

MiningCrashes ==
    /\ mining = "active"
    /\ mining' = "crashed"
    /\ UNCHANGED <<inst, made, instVars, taskVars, stopVars, rounds, jobVars>>

\* /stop or /init/generate raises the crash again before it does anything else.
Reraises ==
    /\ MayCall
    /\ mining = "crashed"
    /\ mining' = "none"
    /\ UNCHANGED <<inst, made, instVars, taskVars, stopVars, rounds, jobVars>>

----------------------------------------------------------------------------
(* The worker task.                                                        *)

\* A /stop whose worker task has ended is run before any step that a worker
\* takes later.
Settled == \A s \in Stops : spc[s] = "joining" => wpc[awaited[s]] # "done"

Steps(w, from) ==
    /\ wpc[w] = from
    /\ ~cancel[w]
    /\ Settled
    /\ UNCHANGED <<inst, made, stopped, worker, home, cancel, stopVars, roundVars,
                   load, answer>>

\* The loop's test.
LoopTop(w) == IF stopped[home[w]] THEN "done" ELSE "get"

\* Mutant: the count is not kept from going below 0.
BugPays(i, j) == nonces' = [nonces EXCEPT ![i] = @ - load[j]]

\* The `finally' of a job: its nonces leave the count, which stops at 0.
Pays(i, j) ==
    nonces' = [nonces EXCEPT ![i] = IF @ > load[j] THEN @ - load[j] ELSE 0]

\* A record is updated if it still exists.
Recorded(i, j, status) ==
    IF result[i][j] = "none" THEN result[i] ELSE [result[i] EXCEPT ![j] = status]

Begins(w) ==
    /\ Steps(w, "new")
    /\ cbq' = [cbq EXCEPT ![home[w]] = TRUE]
    /\ wpc' = [wpc EXCEPT ![w] = LoopTop(w)]
    /\ UNCHANGED <<queue, nonces, result, job, dropped>>

\* Mutant: the newest job is taken.
BugTakes(w) ==
    LET i == home[w] last == Len(queue[i])
    IN  /\ Steps(w, "get")
        /\ queue[i] # <<>>
        /\ ~stopped[i]
        /\ queue' = [queue EXCEPT ![i] = SubSeq(@, 1, last - 1)]
        /\ result' = [result EXCEPT ![i] = Recorded(i, queue[i][last], "running")]
        /\ job' = [job EXCEPT ![w] = queue[i][last]]
        /\ wpc' = [wpc EXCEPT ![w] =
                     IF mining = "active" THEN "waiting" ELSE "processing"]
        /\ UNCHANGED <<nonces, cbq, dropped>>

\* queue.get returns the oldest job, which waits for the end of a round.
Takes(w) ==
    LET i == home[w] j == Head(queue[i])
    IN  /\ Steps(w, "get")
        /\ queue[i] # <<>>
        /\ queue' = [queue EXCEPT ![i] = Tail(@)]
        /\ result' = [result EXCEPT ![i] = Recorded(i, j, "running")]
        /\ IF stopped[i]
             THEN /\ Pays(i, j)
                  /\ wpc' = [wpc EXCEPT ![w] = "done"]
                  /\ UNCHANGED job
             ELSE /\ job' = [job EXCEPT ![w] = j]
                  /\ wpc' = [wpc EXCEPT ![w] =
                               IF mining = "active" THEN "waiting" ELSE "processing"]
                  /\ UNCHANGED nonces
        /\ UNCHANGED <<cbq, dropped>>

\* queue.get timed out: the loop tests the stop event.
TimesOut(w) ==
    /\ Steps(w, "get")
    /\ queue[home[w]] = <<>>
    /\ stopped[home[w]]
    /\ wpc' = [wpc EXCEPT ![w] = "done"]
    /\ UNCHANGED <<queue, nonces, result, cbq, job, dropped>>

WaitEnds(w) ==
    /\ Steps(w, "waiting")
    /\ mining # "active" \/ stopped[home[w]]
    /\ IF stopped[home[w]]
         THEN /\ Pays(home[w], job[w])
              /\ wpc' = [wpc EXCEPT ![w] = "done"]
              /\ job' = [job EXCEPT ![w] = None]
         ELSE /\ wpc' = [wpc EXCEPT ![w] = "processing"]
              /\ UNCHANGED <<nonces, job>>
    /\ UNCHANGED <<queue, result, cbq, dropped>>

\* Mutant: the nonces are given back only if the job succeeds.
BugEnds(w, outcome) ==
    LET i == home[w]
    IN  /\ Steps(w, "processing")
        /\ result' = [result EXCEPT ![i] = Recorded(i, job[w], outcome)]
        /\ IF outcome = "completed" THEN Pays(i, job[w]) ELSE UNCHANGED nonces
        /\ job' = [job EXCEPT ![w] = None]
        /\ wpc' = [wpc EXCEPT ![w] = LoopTop(w)]
        /\ UNCHANGED <<queue, cbq, dropped>>

\* Mutant: a failed job ends the worker's loop.
BugEndsLoop(w, outcome) ==
    LET i == home[w]
    IN  /\ Steps(w, "processing")
        /\ result' = [result EXCEPT ![i] = Recorded(i, job[w], outcome)]
        /\ Pays(i, job[w])
        /\ job' = [job EXCEPT ![w] = None]
        /\ wpc' = [wpc EXCEPT ![w] =
                     IF outcome = "failed" THEN "done" ELSE LoopTop(w)]
        /\ UNCHANGED <<queue, cbq, dropped>>

\* The job ends, its record is written, and cleanup_old_results removes records
\* of jobs that ended long before.
Ends(w, outcome) ==
    LET i == home[w]
        recorded == Recorded(i, job[w], outcome)
    IN  /\ Steps(w, "processing")
        /\ \E old \in SUBSET {j \in Jobs : result[i][j] \in Final} :
              /\ result' = [result EXCEPT ![i] =
                              [j \in Jobs |-> IF j \in old THEN "none" ELSE recorded[j]]]
              /\ dropped' = dropped \union old
        /\ Pays(i, job[w])
        /\ job' = [job EXCEPT ![w] = None]
        /\ wpc' = [wpc EXCEPT ![w] = LoopTop(w)]
        /\ UNCHANGED <<queue, cbq>>

\* CancelledError at the queue, in a round, or before the first step.
Cancelled(w) ==
    /\ cancel[w] /\ Settled
    /\ wpc[w] \in {"new", "get", "waiting", "dying"}
    /\ cancel' = [cancel EXCEPT ![w] = FALSE]
    /\ wpc' = [wpc EXCEPT ![w] = "done"]
    /\ IF job[w] = None THEN UNCHANGED nonces ELSE Pays(home[w], job[w])
    /\ job' = [job EXCEPT ![w] = None]
    /\ UNCHANGED <<inst, made, queue, result, stopped, worker, cbq, home, stopVars,
                   roundVars, jobVars>>

\* During a job: inside the engine RPC it becomes a RuntimeError, the failure of
\* the job; elsewhere it goes through.  The reservation is left either way.
CancelledJob(w) ==
    /\ cancel[w] /\ Settled
    /\ wpc[w] = "processing"
    /\ cancel' = [cancel EXCEPT ![w] = FALSE]
    /\ \/ wpc' = [wpc EXCEPT ![w] = "dying"]
       \/ UNCHANGED wpc
    /\ UNCHANGED <<inst, made, instVars, home, job, stopVars, roundVars, jobVars>>

Dies(w) ==
    /\ Steps(w, "dying")
    /\ Pays(home[w], job[w])
    /\ job' = [job EXCEPT ![w] = None]
    /\ wpc' = [wpc EXCEPT ![w] = "done"]
    /\ UNCHANGED <<queue, result, cbq, dropped>>

----------------------------------------------------------------------------
(* /stop.                                                                  *)

\* A round is cancelled and awaited first; it counts as ended from here on.
StopEndsRound(s) ==
    /\ MayCall
    /\ spc[s] = "idle" /\ stops < MaxStops
    /\ mining = "active"
    /\ mining' = "none"
    /\ stops' = stops + 1
    /\ spc' = [spc EXCEPT ![s] = "ending"]
    /\ UNCHANGED <<inst, made, instVars, taskVars, target, awaited, rounds, jobVars>>

\* Mutant: the stop event is not set.
BugClears(i) ==
    /\ queue' = [queue EXCEPT ![i] = <<>>]
    /\ nonces' = [nonces EXCEPT ![i] = 0]
    /\ result' = [result EXCEPT ![i] = [j \in Jobs |-> "none"]]
    /\ UNCHANGED stopped
    /\ dropped' = dropped \union {j \in Jobs : result[i][j] # "none"}

\* What clear_all forgets.
Clears(i) ==
    /\ queue' = [queue EXCEPT ![i] = <<>>]
    /\ nonces' = [nonces EXCEPT ![i] = 0]
    /\ result' = [result EXCEPT ![i] = [j \in Jobs |-> "none"]]
    /\ stopped' = [stopped EXCEPT ![i] = TRUE]
    /\ dropped' = dropped \union {j \in Jobs : result[i][j] # "none"}

\* stop_worker, from the point where no worker task is to be awaited.
Unhooks(s, i) ==
    IF cbq[i]
      THEN /\ spc' = [spc EXCEPT ![s] = "callbacks"]
           /\ target' = [target EXCEPT ![s] = i]
           /\ UNCHANGED inst
      ELSE /\ spc' = [spc EXCEPT ![s] = "idle"]
           /\ target' = [target EXCEPT ![s] = None]
           /\ inst' = None

StopClears(s) ==
    /\ \/ spc[s] = "ending" /\ UNCHANGED stops
       \/ /\ MayCall
          /\ spc[s] = "idle" /\ mining = "none"
          /\ stops < MaxStops /\ stops' = stops + 1
    /\ IF inst = None
         THEN /\ spc' = [spc EXCEPT ![s] = "idle"]
              /\ UNCHANGED <<inst, instVars, cancel, target, awaited, dropped>>
         ELSE /\ Clears(inst)
              /\ IF worker[inst] # None /\ wpc[worker[inst]] # "done"
                   THEN /\ cancel' = [cancel EXCEPT ![worker[inst]] = TRUE]
                        /\ spc' = [spc EXCEPT ![s] = "joining"]
                        /\ target' = [target EXCEPT ![s] = inst]
                        /\ awaited' = [awaited EXCEPT ![s] = worker[inst]]
                        /\ UNCHANGED inst
                   ELSE Unhooks(s, inst) /\ UNCHANGED <<cancel, awaited>>
              /\ UNCHANGED <<worker, cbq>>
    /\ UNCHANGED <<made, wpc, home, job, roundVars, load, answer>>

\* Mutant: /stop does not wait for the worker task.
BugStopJoined(s) ==
    /\ spc[s] = "joining"
    /\ worker' = [worker EXCEPT ![target[s]] = None]
    /\ awaited' = [awaited EXCEPT ![s] = None]
    /\ Unhooks(s, target[s])
    /\ UNCHANGED <<made, queue, nonces, result, stopped, cbq, taskVars, stops,
                   roundVars, jobVars>>

\* The worker task has ended.
StopJoined(s) ==
    /\ spc[s] = "joining"
    /\ wpc[awaited[s]] = "done"
    /\ worker' = [worker EXCEPT ![target[s]] = None]
    /\ awaited' = [awaited EXCEPT ![s] = None]
    /\ Unhooks(s, target[s])
    /\ UNCHANGED <<made, queue, nonces, result, stopped, cbq, taskVars, stops,
                   roundVars, jobVars>>

\* The callback queue is stopped; the singleton is dropped, whatever it is.
StopEnds(s) ==
    /\ spc[s] = "callbacks"
    /\ cbq' = [cbq EXCEPT ![target[s]] = FALSE]
    /\ inst' = None
    /\ spc' = [spc EXCEPT ![s] = "idle"]
    /\ target' = [target EXCEPT ![s] = None]
    /\ UNCHANGED <<made, queue, nonces, result, stopped, worker, taskVars, awaited,
                   stops, roundVars, jobVars>>

----------------------------------------------------------------------------
WorkerStep(w) ==
    \/ Begins(w) \/ Takes(w) \/ TimesOut(w) \/ WaitEnds(w)
    \/ Cancelled(w) \/ CancelledJob(w) \/ Dies(w)

JobEnds(w) == \E outcome \in Final : Ends(w, outcome)

StopStep(s) == StopClears(s) \/ StopJoined(s) \/ StopEnds(s)

Next ==
    \/ \E j \in Jobs : Post(j)
    \/ Look \/ MiningStarts \/ MiningCrashes \/ Reraises
    \/ \E w \in Workers : WorkerStep(w) \/ JobEnds(w)
    \/ \E s \in Stops : StopEndsRound(s) \/ StopStep(s)

Spec == Init /\ [][Next]_vars

\* The event loop goes on; a job ends if no round is active for good
\* (Reservation!JobsEnd), and somebody stops a round.
FairSpec ==
    /\ Spec
    /\ \A w \in Workers :
          /\ WF_vars(WorkerStep(w))
          /\ WF_vars(mining # "active" /\ JobEnds(w))
    /\ \A s \in Stops : WF_vars(AtWork(s) /\ StopStep(s))
    /\ WF_vars(\E s \in Stops : StopEndsRound(s))
----------------------------------------------------------------------------
(* Properties.                                                             *)

Running == {w \in Workers : wpc[w] \notin {"unborn", "done"}}

Stopping(i) == \E s \in Stops : target[s] = i

(* One worker task at a time is alive, the one that the current instance refers
   to, and a queue with a job in it has one that will look at it again
   (generate_queue.py:124, 328). *)
Served ==
    /\ \A w \in Running : inst # None /\ worker[inst] = w
    /\ \A i \in Instances : queue[i] # <<>> => i = inst /\ worker[i] \in Running

(* /stop always gets past the worker, wherever the cancel finds it. *)
StopReturns == \A s \in Stops : AtWork(s) ~> ~AtWork(s)

(* An accepted job ends with a record, unless a /stop clears it first. *)
JobsAnswered ==
    \A j \in Jobs :
        answer[j] = "queued" ~>
            \/ j \in dropped
            \/ \E i \in Instances : result[i][j] \in Final

(* README.md:180-181: "`wait=false` enqueues and returns {"status": "queued",
   "request_id": "..."}.  Pull the result later via GET
   /api/v1/pow/generate/{request_id}": a job that no /stop has cleared is found. *)
AcceptedFound ==
    \A j \in Jobs : answer[j] = "queued" /\ j \notin dropped =>
        inst # None /\ result[inst][j] # "none"
----------------------------------------------------------------------------
(* The refinement: what GET /generate/{id} shows.                          *)

Status == [j \in Jobs |->
    IF answer[j] = "none" THEN "new"
    ELSE IF answer[j] = "refused" THEN "refused"
    ELSE IF j \in dropped \/ inst = None THEN "forgotten"
    ELSE IF result[inst][j] = "none" THEN "forgotten" ELSE result[inst][j]]

Line ==
    IF inst = None THEN <<>>
    ELSE LET w == worker[inst]
         IN (IF w # None /\ job[w] # None /\ ~Stopping(inst) THEN <<job[w]>> ELSE <<>>)
            \o queue[inst]

Service == INSTANCE JobService WITH status <- Status, load <- load, line <- Line

(* The count that bounds the queue is the nonces of the jobs that have not ended,
   through failures, cancels and new instances: no job is counted or given back
   twice (generate_queue.py:78-91, 193-196). *)
NonceAccounting ==
    inst # None /\ ~Stopping(inst) => nonces[inst] = Service!Total

(* In an operator's order of calls, jobs are computed one at a time in the order
   of acceptance, records never go back, the cap holds, and a record disappears
   only by a /stop or by its time to live. *)
ImplementsJobService == Service!Spec
=============================================================================
