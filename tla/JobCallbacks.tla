---------------------------- MODULE JobCallbacks ----------------------------
(***************************************************************************)
(* How the callbacks of validation jobs are delivered: the CallbackQueue   *)
(* singleton (poc/callbacks.py) with its loop, its tasks and its session,  *)
(* the worker of a GenerateQueue that starts and feeds it, and the /stop   *)
(* that takes both down (poc/generate_queue.py).  GenerateQueue models the *)
(* jobs; here a worker is something that may finish jobs.                  *)
(*                                                                         *)
(* An action is the code between two awaits that suspend.  That of /stop   *)
(* is cut up: while its pc is one of Running, nobody else takes a step.    *)
(***************************************************************************)
EXTENDS Naturals, SequencesExt, FiniteSets

CONSTANTS
    Payloads,       \* one for each job
    Stops,          \* /stop requests
    MaxStarts,      \* bound: workers started
    MaxConcurrent,  \* POC_CALLBACK_MAX_CONCURRENT
    QueueSize,      \* POC_CALLBACK_QUEUE_SIZE
    MaxAttempts      \* POC_CALLBACK_MAX_RETRIES

ASSUME CallbackAssumption ==
    {MaxStarts, MaxConcurrent, QueueSize, MaxAttempts} \subseteq Nat \ {0}

VARIABLES
    inst,       \* _queue_instance, 0 if there is none
    queues,     \* the GenerateQueues created so far
    workers,    \* the worker tasks created so far
    single,     \* _callback_queue of the module, 0 if there is none
    objs,       \* the CallbackQueues created so far
    job,        \* the callback of each job
    stop,       \* the /stop requests
    leaked,     \* history: a session was replaced without having been closed
    overlapped  \* history: a POST or another /stop came in the middle of a /stop

jobVars == <<inst, queues, workers, single, objs, job, stop, leaked, overlapped>>

New == [state |-> "new", q |-> 0, tries |-> 0]
\* Delivered, given up, dropped, stopped: it is all one here.
Over == [New EXCEPT !.state = "over"]
NoStop == [pc |-> "idle", home |-> 0, worker |-> 0, q |-> 0, last |-> FALSE]

JobInit ==
    /\ inst = 0 /\ queues = <<>> /\ workers = <<>> /\ single = 0 /\ objs = <<>>
    /\ job = [p \in Payloads |-> New]
    /\ stop = [s \in Stops |-> NoStop]
    /\ leaked = FALSE /\ overlapped = FALSE

Running == {"feeding", "stopping", "cancelling", "closing", "single", "leaving"}
Suspended == {"join", "loop", "looped", "gather", "close"}
Free == \A s \in Stops : stop[s].pc \notin Running
Overlap == \E s \in Stops : stop[s].pc \in Suspended

----------------------------------------------------------------------------
(* The worker of a GenerateQueue.                                          *)

Staffed(i) == queues[i].task # 0 /\ workers[queues[i].task].pc # "ended"

\* A POST creates the queue if need be and ensures that its worker runs.
Post ==
    /\ Free /\ Len(workers) < MaxStarts
    /\ inst # 0 => ~Staffed(inst)
    /\ LET task == Len(workers) + 1 IN
       IF inst = 0
       THEN /\ queues' = Append(queues, [stopped |-> FALSE, task |-> task, cbq |-> 0])
            /\ inst' = Len(queues) + 1
       ELSE /\ queues' = [queues EXCEPT ![inst].stopped = FALSE, ![inst].task = task]
            /\ UNCHANGED inst
    /\ workers' = Append(workers, [home |-> inst', pc |-> "born", cancelled |-> FALSE])
    /\ overlapped' = (overlapped \/ Overlap)
    /\ UNCHANGED <<single, objs, job, stop, leaked>>

\* get_callback_queue keeps the stop event of whoever creates the singleton; start gives
\* it a session and a loop unless its loop is running.
WorkerBegins(w) ==
    /\ Free /\ workers[w].pc = "born" /\ ~workers[w].cancelled
    /\ LET i == workers[w].home
           q == IF single = 0 THEN Len(objs) + 1 ELSE single
           made == IF single = 0
                   THEN Append(objs, [event |-> i, line |-> <<>>, loop |-> "none",
                                      cancelled |-> FALSE, session |-> FALSE, active |-> {}])
                   ELSE objs
       IN  /\ single' = q
           /\ queues' = [queues EXCEPT ![i].cbq = q]
           /\ workers' = [workers EXCEPT ![w].pc = "run"]
           /\ IF made[q].loop = "run" THEN objs' = made /\ UNCHANGED leaked
              ELSE /\ objs' = [made EXCEPT ![q].loop = "run", ![q].cancelled = FALSE,
                                           ![q].session = TRUE]
                   /\ leaked' = (leaked \/ made[q].session)
    /\ UNCHANGED <<inst, job, stop, overlapped>>

\* A job is done: its payload is enqueued, which drops the oldest if the deque is full.
Finishes(w, p) ==
    /\ Free /\ workers[w].pc = "run" /\ ~workers[w].cancelled /\ job[p].state = "new"
    /\ LET q == queues[workers[w].home].cbq IN
       IF q = 0
       THEN job' = [job EXCEPT ![p] = Over] /\ UNCHANGED objs
       ELSE LET full == Len(objs[q].line) >= QueueSize
                rest == IF full THEN Tail(objs[q].line) ELSE objs[q].line
            IN  /\ objs' = [objs EXCEPT ![q].line = Append(rest, p)]
                /\ job' = [o \in Payloads |->
                              IF o = p THEN [state |-> "queued", q |-> q, tries |-> 0]
                              ELSE IF full /\ o = Head(objs[q].line)
                              THEN Over ELSE job[o]]
    /\ UNCHANGED <<inst, queues, workers, single, stop, leaked, overlapped>>

\* Cancelled, or at the loop's test of the stop event.
WorkerEnds(w) ==
    /\ Free
    /\ \/ workers[w].pc # "ended" /\ workers[w].cancelled
       \/ workers[w].pc = "run" /\ queues[workers[w].home].stopped
    /\ workers' = [workers EXCEPT ![w].pc = "ended"]
    /\ UNCHANGED <<inst, queues, single, objs, job, stop, leaked, overlapped>>

----------------------------------------------------------------------------
(* The loop and the tasks of a CallbackQueue.                              *)

StopSet(q) == queues[objs[q].event].stopped
Alive == {"waiting", "posting", "backoff"}

\* Mutant: the loop does not keep the tasks.
BugLoopPops(q) ==
    /\ Free /\ objs[q].loop = "run" /\ ~StopSet(q) /\ ~objs[q].cancelled
    /\ objs[q].line # <<>>
    /\ objs' = [objs EXCEPT ![q].line = Tail(@)]
    /\ job' = [job EXCEPT ![Head(objs[q].line)].state = "waiting"]
    /\ UNCHANGED <<inst, queues, workers, single, stop, leaked, overlapped>>

\* Each payload gets a task, at once.
LoopPops(q) ==
    /\ Free /\ objs[q].loop = "run" /\ ~StopSet(q) /\ ~objs[q].cancelled
    /\ objs[q].line # <<>>
    /\ LET p == Head(objs[q].line) IN
       /\ objs' = [objs EXCEPT ![q].line = Tail(@),
                               ![q].active = {o \in @ : job[o].state \in Alive} \union {p}]
       /\ job' = [job EXCEPT ![p].state = "waiting"]
    /\ UNCHANGED <<inst, queues, workers, single, stop, leaked, overlapped>>

\* Mutant: a cancel is caught inside the loop, which goes on.
BugLoopEnds(q) ==
    /\ Free /\ objs[q].loop = "run" /\ StopSet(q)
    /\ objs' = [objs EXCEPT ![q].loop = "done"]
    /\ stop' = [s \in Stops |-> IF stop[s].pc = "loop" /\ stop[s].q = q
                                THEN [stop[s] EXCEPT !.pc = "looped"] ELSE stop[s]]
    /\ UNCHANGED <<inst, queues, workers, single, job, leaked, overlapped>>

LoopEnds(q) ==
    /\ Free /\ objs[q].loop = "run" /\ (StopSet(q) \/ objs[q].cancelled)
    /\ objs' = [objs EXCEPT ![q].loop = "done"]
    /\ stop' = [s \in Stops |-> IF stop[s].pc = "loop" /\ stop[s].q = q
                                THEN [stop[s] EXCEPT !.pc = "looped"] ELSE stop[s]]
    /\ UNCHANGED <<inst, queues, workers, single, job, leaked, overlapped>>

\* The tasks inside the semaphore.
Holding(q) == {p \in Payloads : job[p].q = q /\ job[p].state \in {"posting", "backoff"}}

\* Mutant: every attempt takes the semaphore, and holds it.
BugTries(p) ==
    /\ Free /\ job[p].state \in {"waiting", "backoff"}
    /\ Cardinality(Holding(job[p].q)) < MaxConcurrent
    /\ job' = [job EXCEPT ![p] = IF StopSet(@.q) THEN Over
                                 ELSE [@ EXCEPT !.state = "posting", !.tries = job[p].tries + 1]]
    /\ UNCHANGED <<inst, queues, workers, single, objs, stop, leaked, overlapped>>

\* An attempt, the first one behind the semaphore; none once the stop event is set.
Tries(p) ==
    /\ Free
    /\ \/ job[p].state = "waiting" /\ Cardinality(Holding(job[p].q)) < MaxConcurrent
       \/ job[p].state = "backoff"
    /\ job' = [job EXCEPT ![p] = IF StopSet(@.q) THEN Over
                                 ELSE [@ EXCEPT !.state = "posting", !.tries = job[p].tries + 1]]
    /\ UNCHANGED <<inst, queues, workers, single, objs, stop, leaked, overlapped>>

\* Mutant: one attempt more.
BugPostEnds(p) ==
    /\ Free /\ job[p].state = "posting"
    /\ \E success \in {FALSE, objs[job[p].q].session} :
          job' = [job EXCEPT ![p] = IF success THEN Over
                                    ELSE IF @.tries <= MaxAttempts
                                    THEN [@ EXCEPT !.state = "backoff"] ELSE Over]
    /\ UNCHANGED <<inst, queues, workers, single, objs, stop, leaked, overlapped>>

\* The post is answered well, or it fails, which says nothing about whether it arrived;
\* without a session it raises, which is a failure too.
PostEnds(p) ==
    /\ Free /\ job[p].state = "posting"
    /\ \E success \in {FALSE, objs[job[p].q].session} :
          job' = [job EXCEPT ![p] = IF success THEN Over
                                    ELSE IF @.tries < MaxAttempts
                                    THEN [@ EXCEPT !.state = "backoff"] ELSE Over]
    /\ UNCHANGED <<inst, queues, workers, single, objs, stop, leaked, overlapped>>

----------------------------------------------------------------------------
(* /stop: clear_queue, stop_worker, CallbackQueue.stop, twice.             *)

Goes(s, pc) == stop' = [stop EXCEPT ![s].pc = pc]

\* The event is set and a worker that is alive is cancelled and waited for.
StopBegins(s) ==
    /\ Free /\ stop[s].pc = "idle" /\ inst # 0
    /\ queues' = [queues EXCEPT ![inst].stopped = TRUE]
    /\ workers' = IF Staffed(inst) THEN [workers EXCEPT ![queues[inst].task].cancelled = TRUE]
                  ELSE workers
    /\ stop' = [stop EXCEPT ![s] =
                   [NoStop EXCEPT !.pc = IF Staffed(inst) THEN "join" ELSE "feeding",
                                  !.home = inst, !.worker = queues[inst].task]]
    /\ overlapped' = (overlapped \/ Overlap)
    /\ UNCHANGED <<inst, single, objs, job, leaked>>

\* The worker has ended and is forgotten, or whichever there is by now.
StopJoined(s) ==
    /\ Free /\ stop[s].pc = "join" /\ workers[stop[s].worker].pc = "ended"
    /\ queues' = [queues EXCEPT ![stop[s].home].task = 0]
    /\ Goes(s, "feeding")
    /\ UNCHANGED <<inst, workers, single, objs, job, leaked, overlapped>>

\* stop() is called on the instance's callback queue, then on the singleton.
StopCalls(s) ==
    /\ stop[s].pc \in {"feeding", "single"}
    /\ LET last == stop[s].pc = "single"
           q == IF last THEN single ELSE queues[stop[s].home].cbq
       IN  stop' = [stop EXCEPT ![s].q = q, ![s].last = last,
                                ![s].pc = IF q # 0 THEN "stopping"
                                          ELSE IF last THEN "leaving" ELSE "single"]
    /\ UNCHANGED <<inst, queues, workers, single, objs, job, leaked, overlapped>>

\* A loop that runs is cancelled and waited for.
StopsLoop(s) ==
    /\ stop[s].pc = "stopping"
    /\ LET q == stop[s].q IN
       IF objs[q].loop = "run"
       THEN objs' = [objs EXCEPT ![q].cancelled = TRUE] /\ Goes(s, "loop")
       ELSE Goes(s, "cancelling") /\ UNCHANGED objs
    /\ UNCHANGED <<inst, queues, workers, single, job, leaked, overlapped>>

\* Mutant: the tasks are cancelled but not waited for.
BugStopsTasks(s) ==
    /\ stop[s].pc = "cancelling" \/ (Free /\ stop[s].pc = "looped")
    /\ Goes(s, "closing")
    /\ UNCHANGED <<inst, queues, workers, single, objs, job, leaked, overlapped>>

\* The tasks in the set are cancelled and waited for.
StopsTasks(s) ==
    /\ stop[s].pc = "cancelling" \/ (Free /\ stop[s].pc = "looped")
    /\ LET alive == {p \in objs[stop[s].q].active : job[p].state \in Alive} IN
       /\ job' = [p \in Payloads |-> IF p \in alive THEN Over ELSE job[p]]
       /\ Goes(s, IF alive = {} THEN "closing" ELSE "gather")
    /\ UNCHANGED <<inst, queues, workers, single, objs, leaked, overlapped>>

\* The set is emptied, the session closed, which suspends if there is one.
StopsSession(s) ==
    /\ stop[s].pc = "closing" \/ (Free /\ stop[s].pc = "gather")
    /\ objs' = [objs EXCEPT ![stop[s].q].active = {}]
    /\ Goes(s, IF objs[stop[s].q].session THEN "close" ELSE "leaving")
    /\ UNCHANGED <<inst, queues, workers, single, job, leaked, overlapped>>

\* The session is forgotten.
SessionClosed(s) ==
    /\ Free /\ stop[s].pc = "close"
    /\ objs' = [objs EXCEPT ![stop[s].q].session = FALSE]
    /\ Goes(s, "leaving")
    /\ UNCHANGED <<inst, queues, workers, single, job, leaked, overlapped>>

\* The deque is emptied.  After the first stop() the instance lets go of the callback
\* queue; after the second, singleton and instance are dropped.
StopLeaves(s) ==
    /\ stop[s].pc = "leaving"
    /\ LET q == stop[s].q IN
       IF q = 0 THEN UNCHANGED <<objs, job>>
       ELSE /\ objs' = [objs EXCEPT ![q].line = <<>>]
            /\ job' = [p \in Payloads |->
                                          IF p \in Range(objs[q].line)
                                          THEN Over ELSE job[p]]
    /\ IF stop[s].last
       THEN /\ single' = 0 /\ inst' = 0 /\ UNCHANGED queues
            /\ stop' = [stop EXCEPT ![s] = [NoStop EXCEPT !.pc = "done"]]
       ELSE /\ queues' = [queues EXCEPT ![stop[s].home].cbq = 0]
            /\ Goes(s, "single") /\ UNCHANGED <<single, inst>>
    /\ UNCHANGED <<workers, leaked, overlapped>>

----------------------------------------------------------------------------
WorkerStep == \E w \in DOMAIN workers : WorkerBegins(w) \/ WorkerEnds(w)
LoopStep == \E q \in DOMAIN objs : LoopPops(q) \/ LoopEnds(q)
TaskStep(p) == Tries(p) \/ PostEnds(p)
StopGoesOn(s) ==
    StopJoined(s) \/ StopCalls(s) \/ StopsLoop(s) \/ StopsTasks(s) \/ StopsSession(s)
    \/ SessionClosed(s) \/ StopLeaves(s)

JobNext ==
    \/ Post \/ WorkerStep \/ LoopStep
    \/ \E w \in DOMAIN workers, p \in Payloads : Finishes(w, p)
    \/ \E p \in Payloads : TaskStep(p)
    \/ \E s \in Stops : StopBegins(s) \/ StopGoesOn(s)

\* The event loop runs whatever can run; nobody need POST or /stop, jobs need not end.
JobFairness ==
    /\ WF_jobVars(WorkerStep) /\ WF_jobVars(LoopStep)
    /\ \A p \in Payloads : WF_jobVars(TaskStep(p))
    /\ \A s \in Stops : WF_jobVars(StopGoesOn(s))

JobSpec == JobInit /\ [][JobNext]_jobVars /\ JobFairness

----------------------------------------------------------------------------
(* Properties.                                                             *)

Pending(p) == job[p].state \in Alive \union {"queued"}

\* Type correctness, and the bounds on deque, tasks and attempts.
JobTypeOK ==
    /\ inst \in 0..Len(queues) /\ single \in 0..Len(objs)
    /\ \A i \in DOMAIN queues :
          queues[i].task \in 0..Len(workers) /\ queues[i].cbq \in 0..Len(objs)
    /\ \A q \in DOMAIN objs :
          /\ objs[q].event \in DOMAIN queues /\ objs[q].loop \in {"none", "run", "done"}
          /\ Len(objs[q].line) <= QueueSize /\ Cardinality(Holding(q)) <= MaxConcurrent
    /\ \A p \in Payloads : job[p].tries \in 0..MaxAttempts
    /\ \A s \in Stops : stop[s].pc \in {"idle", "done"} \union Running \union Suspended

\* A callback is in one place: in the deque of one callback queue while it is queued, and a
\* task that has not ended is known to the queue that must cancel it.
CallbacksPlaced ==
    \A p \in Payloads : \A q \in DOMAIN objs :
        /\ (p \in Range(objs[q].line)) <=> (job[p].state = "queued" /\ job[p].q = q)
        /\ (job[p].state \in Alive /\ job[p].q = q) =>
              (p \in objs[q].active \/ overlapped)

\* A task never posts through a session that stop() has closed, and start() never replaces
\* one that is open (callbacks.py 166, 185), unless calls overlap a /stop.
SessionKept ==
    /\ leaked => overlapped
    /\ \A p \in Payloads : job[p].state = "posting" => objs[job[p].q].session \/ overlapped

\* When /stop has returned, nothing is left of the callback queue: no loop that posts to
\* an orchestrator, no task, no session, no singleton with an old stop event (callbacks.py
\* 170-192, 254-267); until then, sessions are kept.  Calls that overlap a /stop can leave
\* some.
StopLeavesNothing ==
    /\ SessionKept
    /\ (inst = 0 /\ ~overlapped /\ \A s \in Stops : stop[s].pc \in {"idle", "done"}) =>
          /\ single = 0
          /\ \A q \in DOMAIN objs : objs[q].loop # "run" /\ ~objs[q].session
          /\ \A p \in Payloads : ~Pending(p)

\* An enqueued callback is delivered, given up, dropped or stopped; it is not left in a
\* deque that nobody empties, nor behind the semaphore.
CallbacksEnd == \A p \in Payloads : Pending(p) ~> (~Pending(p) \/ overlapped)

\* /stop returns, with whatever calls come in the middle of it.
CallbackStopReturns == \A s \in Stops : stop[s].pc # "idle" ~> stop[s].pc = "done"
=============================================================================
