------------------------ MODULE GenerateQueue_proofs ------------------------
(***************************************************************************)
(* Module GenerateQueue for any numbers of jobs, workers, instances and    *)
(* /stops: types always, and, as long as calls wait for a /stop that is at *)
(* work (Overlaps = FALSE), one worker that serves the queue, an exact     *)
(* count, and the refinement of JobService.                                *)
(***************************************************************************)
EXTENDS GenerateQueue, Numbers

----------------------------------------------------------------------------
(* Types.  A worker that runs has an instance, one in a job has the job,   *)
(* and a /stop that waits knows for whom.                                  *)

InJob == {"waiting", "processing", "dying"}

Employed ==
    /\ \A w \in Workers :
          /\ wpc[w] # "unborn" => home[w] \in Instances
          /\ wpc[w] \in InJob => job[w] \in Jobs
    /\ \A s \in Stops :
          /\ spc[s] = "joining" => target[s] \in Instances /\ awaited[s] \in Workers
          /\ spc[s] = "callbacks" => target[s] \in Instances

TypeInv == TypeOK /\ Employed

\* Nothing has been created at the beginning.
LEMMA InitTypeInv == Init => TypeInv
BY BoundsAssumption DEF Init, TypeInv, TypeOK, Employed, InJob, WorkerStates, Final

\* The count never leaves its range: admission tests the cap, giving back stops at 0.
LEMMA CountType ==
    ASSUME TypeOK, NEW i \in Instances, NEW j \in Jobs, Pays(i, j)
    PROVE  nonces' \in [Instances -> 0..MaxNonces]
<1>0. load[j] \in Loads \union {0}  BY DEF TypeOK
<1>1. load[j] \in Nat /\ nonces[i] \in 0..MaxNonces /\ MaxNonces \in Nat
    <2>1. nonces[i] \in 0..MaxNonces  BY DEF TypeOK
    <2>2. \A n \in Loads \union {0} : n \in Nat  BY BoundsAssumption
    <2>3. load[j] \in Nat  BY <1>0, <2>2
    <2> QED BY <2>1, <2>3, BoundsAssumption
<1>2. (IF nonces[i] > load[j] THEN nonces[i] - load[j] ELSE 0) \in 0..MaxNonces
    BY <1>1
<1> QED BY <1>2 DEF Pays, TypeOK

\* A record that is written keeps its type.
LEMMA RecordType ==
    ASSUME TypeOK, NEW i \in Instances, NEW j \in Jobs, NEW st \in {"running"} \union Final
    PROVE  Recorded(i, j, st) \in [Jobs -> {"none", "queued", "running"} \union Final]
BY DEF Recorded, TypeOK

\* Calls.
LEMMA CallTypeInv ==
    ASSUME TypeInv,
           (\E j \in Jobs : Post(j)) \/ Look \/ MiningStarts \/ MiningCrashes \/ Reraises
    PROVE  TypeInv'
<1> USE DEF TypeInv, TypeOK, Employed, InJob, instVars, taskVars, stopVars, roundVars, jobVars
<1>1. ASSUME NEW j \in Jobs, NEW i \in Instances, NEW n \in Loads,
             GetQueue(i), Accept(j, i, n),
             UNCHANGED <<stopVars, roundVars, dropped>>
      PROVE  TypeInv'
    <2>1. n \in Nat /\ nonces[i] + n \in 0..MaxNonces
        BY <1>1, BoundsAssumption DEF Accept
    <2>2. nonces' \in [Instances -> 0..MaxNonces]  BY <1>1, <2>1 DEF Accept
    <2>3. queue' \in [Instances -> Seq(Jobs)]  BY <1>1 DEF Accept
    <2>4. result' \in [Instances -> [Jobs -> {"none", "queued", "running"} \union Final]]
        BY <1>1 DEF Accept
    <2>5. /\ stopped' \in [Instances -> BOOLEAN]
          /\ worker' \in [Instances -> Workers \union {None}]
          /\ wpc' \in [Workers -> WorkerStates]
          /\ home' \in [Workers -> Instances \union {None}]
        <3>1. CASE worker[i] = None \/ wpc[worker[i]] = "done"
            <4>1. PICK w \in Workers :
                      /\ stopped' = [stopped EXCEPT ![i] = FALSE]
                      /\ worker' = [worker EXCEPT ![i] = w]
                      /\ wpc' = [wpc EXCEPT ![w] = "new"]
                      /\ home' = [home EXCEPT ![w] = i]
                BY <1>1, <3>1 DEF Accept, EnsureWorker
            <4> QED BY <4>1 DEF WorkerStates
        <3>2. CASE ~(worker[i] = None \/ wpc[worker[i]] = "done")
            BY <1>1, <3>2 DEF Accept, EnsureWorker
        <3> QED BY <3>1, <3>2
    <2>6. inst' \in Instances /\ made' \subseteq Instances  BY <1>1 DEF GetQueue
    <2>7. /\ load' \in [Jobs -> Loads \union {0}]
          /\ answer' \in [Jobs -> {"none", "queued", "refused"}]
        BY <1>1 DEF Accept
    <2>8. Employed'
        <3>0. UNCHANGED <<job, spc, target, awaited>>  BY <1>1 DEF Accept
        <3>1. CASE worker[i] = None \/ wpc[worker[i]] = "done"
            <4>1. PICK w \in Workers :
                      wpc' = [wpc EXCEPT ![w] = "new"] /\ home' = [home EXCEPT ![w] = i]
                BY <1>1, <3>1 DEF Accept, EnsureWorker
            <4> QED BY <3>0, <4>1
        <3>2. CASE ~(worker[i] = None \/ wpc[worker[i]] = "done")
            BY <1>1, <3>0, <3>2 DEF Accept, EnsureWorker
        <3> QED BY <3>1, <3>2
    <2> QED BY <1>1, <2>2, <2>3, <2>4, <2>5, <2>6, <2>7, <2>8 DEF Accept
<1>2. ASSUME NEW j \in Jobs, NEW i \in Instances, NEW n \in Loads,
             GetQueue(i), Refuse(j, i, n),
             UNCHANGED <<stopVars, roundVars, dropped>>
      PROVE  TypeInv'
    BY <1>2 DEF GetQueue, Refuse
<1>3. CASE \E j \in Jobs : Post(j)
    BY <1>1, <1>2, <1>3 DEF Post
<1>4. CASE Look
    BY <1>4 DEF Look, GetQueue
<1>5. CASE MiningStarts
    BY <1>5, BoundsAssumption DEF MiningStarts
<1>6. CASE MiningCrashes \/ Reraises
    BY <1>6 DEF MiningCrashes, Reraises
<1> QED BY <1>3, <1>4, <1>5, <1>6

\* The worker.
LEMMA WorkerTypeInv ==
    ASSUME TypeInv, NEW w \in Workers, WorkerStep(w) \/ JobEnds(w)
    PROVE  TypeInv'
<1> DEFINE i == home[w]
<1> USE DEF TypeInv, TypeOK, Employed, InJob, WorkerStates,
            instVars, taskVars, stopVars, roundVars, jobVars
<1>1. CASE Begins(w)
    BY <1>1 DEF Begins, Steps, LoopTop
<1>2. CASE Takes(w)
    <2> DEFINE j == Head(queue[i])
    <2>1. i \in Instances  BY <1>2 DEF Takes, Steps
    <2>2. queue[i] \in Seq(Jobs) /\ queue[i] # <<>>  BY <1>2, <2>1 DEF Takes
    <2>3. j \in Jobs /\ Tail(queue[i]) \in Seq(Jobs)  BY <2>2
    <2>4. queue' \in [Instances -> Seq(Jobs)]  BY <1>2, <2>3 DEF Takes
    <2>5. Recorded(i, j, "running") \in [Jobs -> {"none", "queued", "running"} \union Final]
        BY <2>1, <2>3, RecordType
    <2>6. result' = [result EXCEPT ![i] = Recorded(i, j, "running")]  BY <1>2 DEF Takes
    <2> HIDE DEF j
    <2>7. result' \in [Instances -> [Jobs -> {"none", "queued", "running"} \union Final]]
        BY <2>5, <2>6
    <2>8. nonces' \in [Instances -> 0..MaxNonces]
        BY <1>2, <2>1, <2>3, CountType DEF Takes, j
    <2>9. /\ wpc' \in [Workers -> WorkerStates] /\ job' \in [Workers -> Jobs \union {None}]
          /\ wpc'[w] \in InJob => job'[w] \in Jobs
          /\ \A x \in Workers \ {w} : wpc'[x] = wpc[x] /\ job'[x] = job[x]
        <3>1. wpc[w] = "get"  BY <1>2 DEF Takes, Steps
        <3>2. CASE stopped[i]
            <4>1. wpc' = [wpc EXCEPT ![w] = "done"] /\ job' = job
                BY <1>2, <3>2 DEF Takes
            <4> QED BY <4>1
        <3>3. CASE ~stopped[i]
            <4>1. /\ job' = [job EXCEPT ![w] = j]
                  /\ wpc' = [wpc EXCEPT ![w] =
                               IF mining = "active" THEN "waiting" ELSE "processing"]
                BY <1>2, <3>3 DEF Takes, j
            <4> QED BY <2>3, <4>1 DEF j
        <3> QED BY <3>2, <3>3
    <2>10. wpc[w] = "get" /\ UNCHANGED <<inst, made, stopped, worker, home, cancel, stopVars,
                                         roundVars, load, answer, cbq, dropped>>
        BY <1>2 DEF Takes, Steps
    <2> QED BY <2>4, <2>7, <2>8, <2>9, <2>10
<1>3. CASE TimesOut(w)
    BY <1>3 DEF TimesOut, Steps
<1>4. CASE WaitEnds(w)
    <2>1. i \in Instances /\ job[w] \in Jobs  BY <1>4 DEF WaitEnds, Steps
    <2>2. nonces' \in [Instances -> 0..MaxNonces]  BY <1>4, <2>1, CountType DEF WaitEnds
    <2>3. /\ wpc' \in [Workers -> WorkerStates] /\ job' \in [Workers -> Jobs \union {None}]
          /\ wpc'[w] \in InJob => job'[w] \in Jobs
          /\ \A x \in Workers \ {w} : wpc'[x] = wpc[x] /\ job'[x] = job[x]
        <3>1. CASE stopped[home[w]]
            <4>1. wpc' = [wpc EXCEPT ![w] = "done"] /\ job' = [job EXCEPT ![w] = None]
                BY <1>4, <3>1 DEF WaitEnds
            <4> QED BY <4>1
        <3>2. CASE ~stopped[home[w]]
            BY <1>4, <2>1, <3>2 DEF WaitEnds
        <3> QED BY <3>1, <3>2
    <2>4. wpc[w] = "waiting" /\
          UNCHANGED <<inst, made, stopped, worker, home, cancel, stopVars, roundVars, load,
                      answer, queue, result, cbq, dropped>>
        BY <1>4 DEF WaitEnds, Steps
    <2> QED BY <2>2, <2>3, <2>4
<1>5. CASE Cancelled(w)
    <2>1. i \in Instances  BY <1>5 DEF Cancelled
    <2>2. nonces' \in [Instances -> 0..MaxNonces]
        BY <1>5, <2>1, CountType DEF Cancelled
    <2> QED BY <1>5, <2>2 DEF Cancelled
<1>6. CASE CancelledJob(w)
    BY <1>6 DEF CancelledJob
<1>7. CASE Dies(w)
    <2>1. i \in Instances /\ job[w] \in Jobs  BY <1>7 DEF Dies, Steps
    <2>2. nonces' \in [Instances -> 0..MaxNonces]  BY <1>7, <2>1, CountType DEF Dies
    <2> QED BY <1>7, <2>2 DEF Dies, Steps
<1>8. ASSUME NEW outcome \in Final, Ends(w, outcome) PROVE TypeInv'
    <2>1. i \in Instances /\ job[w] \in Jobs  BY <1>8 DEF Ends, Steps
    <2>2. nonces' \in [Instances -> 0..MaxNonces]  BY <1>8, <2>1, CountType DEF Ends
    <2> DEFINE recorded == Recorded(i, job[w], outcome)
    <2>3. recorded \in [Jobs -> {"none", "queued", "running"} \union Final]
        BY <1>8, <2>1, RecordType
    <2>4. PICK old \in SUBSET {j \in Jobs : result[i][j] \in Final} :
              /\ result' = [result EXCEPT ![i] =
                               [j \in Jobs |-> IF j \in old THEN "none" ELSE recorded[j]]]
              /\ dropped' = dropped \union old
        BY <1>8 DEF Ends
    <2> HIDE DEF recorded
    <2>5. result' \in [Instances -> [Jobs -> {"none", "queued", "running"} \union Final]]
        BY <2>3, <2>4
    <2>6. dropped' \subseteq Jobs  BY <2>4
    <2>7. /\ wpc' \in [Workers -> WorkerStates] /\ job' \in [Workers -> Jobs \union {None}]
          /\ wpc'[w] \in {"get", "done"}
          /\ \A x \in Workers \ {w} : wpc'[x] = wpc[x] /\ job'[x] = job[x]
        BY <1>8 DEF Ends, LoopTop
    <2>8. wpc[w] = "processing" /\
          UNCHANGED <<inst, made, stopped, worker, home, cancel, stopVars, roundVars, load,
                      answer, queue, cbq>>
        BY <1>8 DEF Ends, Steps
    <2> QED BY <2>2, <2>5, <2>6, <2>7, <2>8
<1>9. ASSUME JobEnds(w) PROVE TypeInv'
    BY <1>8, <1>9 DEF JobEnds
<1> QED BY <1>1, <1>2, <1>3, <1>4, <1>5, <1>6, <1>7, <1>9 DEF WorkerStep

\* What a /stop remembers of the instance and the worker it waits for.
StopKnown ==
    /\ spc \in [Stops -> {"idle", "ending", "joining", "callbacks"}]
    /\ target \in [Stops -> Instances \union {None}]
    /\ awaited \in [Stops -> Workers \union {None}]
    /\ \A t \in Stops :
          /\ spc[t] = "joining" => target[t] \in Instances /\ awaited[t] \in Workers
          /\ spc[t] = "callbacks" => target[t] \in Instances

\* The end of a /stop, or its wait for the callback queue.
LEMMA UnhooksKnown ==
    ASSUME StopKnown, NEW s \in Stops, NEW i \in Instances, Unhooks(s, i),
           awaited' = awaited \/ awaited' = [awaited EXCEPT ![s] = None],
           awaited' = awaited \/ spc[s] = "joining"
    PROVE  StopKnown' /\ inst' \in {inst, None}
<1>1. inst' \in {inst, None}  BY DEF Unhooks
<1>2. \/ /\ spc' = [spc EXCEPT ![s] = "callbacks"]
         /\ target' = [target EXCEPT ![s] = i]
      \/ /\ spc' = [spc EXCEPT ![s] = "idle"]
         /\ target' = [target EXCEPT ![s] = None]
    BY DEF Unhooks
<1>3. awaited' \in [Stops -> Workers \union {None}]
      /\ \A t \in Stops \ {s} : awaited'[t] = awaited[t]
    BY DEF StopKnown
<1>4. /\ spc' \in [Stops -> {"idle", "ending", "joining", "callbacks"}]
      /\ target' \in [Stops -> Instances \union {None}]
      /\ \A t \in Stops \ {s} : spc'[t] = spc[t] /\ target'[t] = target[t]
      /\ \/ spc'[s] = "callbacks" /\ target'[s] = i
         \/ spc'[s] = "idle"
    BY <1>2 DEF StopKnown
<1>5. \A t \in Stops :
          /\ spc'[t] = "joining" => target'[t] \in Instances /\ awaited'[t] \in Workers
          /\ spc'[t] = "callbacks" => target'[t] \in Instances
    BY <1>3, <1>4 DEF StopKnown
<1> QED BY <1>1, <1>3, <1>4, <1>5 DEF StopKnown

\* /stop.
LEMMA StopTypeInv ==
    ASSUME TypeInv, NEW s \in Stops, StopEndsRound(s) \/ StopStep(s)
    PROVE  TypeInv'
<1> USE DEF TypeInv, TypeOK, Employed, InJob, instVars, taskVars, stopVars, roundVars, jobVars
<1>1. CASE StopEndsRound(s)
    BY <1>1, BoundsAssumption DEF StopEndsRound
<1>2. CASE StopClears(s)
    <2>1. stops' \in 0..MaxStops  BY <1>2, BoundsAssumption DEF StopClears
    <2>2. CASE inst = None
        BY <1>2, <2>1, <2>2 DEF StopClears
    <2>3. CASE inst # None
        <3>1. inst \in Instances  BY <2>3
        <3>2. /\ queue' \in [Instances -> Seq(Jobs)]
              /\ nonces' \in [Instances -> 0..MaxNonces]
              /\ result' \in [Instances -> [Jobs -> {"none", "queued", "running"} \union Final]]
              /\ stopped' \in [Instances -> BOOLEAN] /\ dropped' \subseteq Jobs
              /\ worker' = worker /\ cbq' = cbq
            <4>1. /\ queue' = [queue EXCEPT ![inst] = <<>>]
                  /\ nonces' = [nonces EXCEPT ![inst] = 0]
                  /\ result' = [result EXCEPT ![inst] = [j \in Jobs |-> "none"]]
                  /\ stopped' = [stopped EXCEPT ![inst] = TRUE]
                  /\ dropped' = dropped \union {j \in Jobs : result[inst][j] # "none"}
                  /\ worker' = worker /\ cbq' = cbq
                BY <1>2, <2>3 DEF StopClears, Clears
            <4>2. 0 \in 0..MaxNonces  BY BoundsAssumption
            <4>3. << >> \in Seq(Jobs)  OBVIOUS
            <4>4. [j \in Jobs |-> "none"] \in [Jobs -> {"none", "queued", "running"} \union Final]
                OBVIOUS
            <4>5. queue' \in [Instances -> Seq(Jobs)]  BY <4>1, <4>3
            <4>6. nonces' \in [Instances -> 0..MaxNonces]  BY <4>1, <4>2
            <4>7. result' \in [Instances -> [Jobs -> {"none", "queued", "running"} \union Final]]
                BY <4>1, <4>4
            <4> QED BY <4>1, <4>5, <4>6, <4>7
        <3>3. /\ inst' \in Instances \union {None}
              /\ cancel' \in [Workers -> BOOLEAN]
              /\ StopKnown'
            <4>0. StopKnown  BY DEF StopKnown
            <4>1. CASE worker[inst] # None /\ wpc[worker[inst]] # "done"
                <5>1. /\ cancel' = [cancel EXCEPT ![worker[inst]] = TRUE]
                      /\ spc' = [spc EXCEPT ![s] = "joining"]
                      /\ target' = [target EXCEPT ![s] = inst]
                      /\ awaited' = [awaited EXCEPT ![s] = worker[inst]]
                      /\ inst' = inst
                    BY <1>2, <2>3, <4>1 DEF StopClears
                <5>2. worker[inst] \in Workers  BY <3>1, <4>1
                <5>3. StopKnown'  BY <3>1, <4>0, <5>1, <5>2 DEF StopKnown
                <5> QED BY <3>1, <5>1, <5>3
            <4>2. CASE ~(worker[inst] # None /\ wpc[worker[inst]] # "done")
                <5>1. Unhooks(s, inst) /\ UNCHANGED <<cancel, awaited>>
                    BY <1>2, <2>3, <4>2 DEF StopClears
                <5>2. StopKnown' /\ inst' \in {inst, None}
                    BY <3>1, <4>0, <5>1, UnhooksKnown
                <5> QED BY <3>1, <5>1, <5>2
            <4> QED BY <4>1, <4>2
        <3>4. UNCHANGED <<made, wpc, home, job, roundVars, load, answer>>
            BY <1>2 DEF StopClears
        <3> QED BY <2>1, <3>2, <3>3, <3>4 DEF StopKnown
    <2> QED BY <2>2, <2>3
<1>3. CASE StopJoined(s)
    <2>1. target[s] \in Instances /\ awaited[s] \in Workers  BY <1>3 DEF StopJoined
    <2>2. /\ spc[s] = "joining" /\ Unhooks(s, target[s])
          /\ worker' = [worker EXCEPT ![target[s]] = None]
          /\ awaited' = [awaited EXCEPT ![s] = None]
        BY <1>3 DEF StopJoined
    <2>3. StopKnown  BY DEF StopKnown
    <2>4. StopKnown' /\ inst' \in {inst, None}
        BY <2>1, <2>2, <2>3, UnhooksKnown
    <2>5. UNCHANGED <<made, queue, nonces, result, stopped, cbq, taskVars, stops,
                      roundVars, jobVars>>
        BY <1>3 DEF StopJoined
    <2>6. worker' \in [Instances -> Workers \union {None}]  BY <2>2
    <2> QED BY <2>4, <2>5, <2>6 DEF StopKnown
<1>4. CASE StopEnds(s)
    BY <1>4 DEF StopEnds
<1> QED BY <1>1, <1>2, <1>3, <1>4 DEF StopStep

\* Every step.
LEMMA NextTypeInv == TypeInv /\ [Next]_vars => TypeInv'
<1> SUFFICES ASSUME TypeInv, [Next]_vars PROVE TypeInv'  OBVIOUS
<1>1. CASE UNCHANGED vars
    BY <1>1 DEF vars, instVars, taskVars, stopVars, roundVars, jobVars, TypeInv, TypeOK, Employed
<1> QED BY <1>1, CallTypeInv, WorkerTypeInv, StopTypeInv DEF Next

\* Type correctness, and with it the cap on queued nonces, however calls and /stops overlap
\* (generate_queue.py 82, 196).
THEOREM TypeCorrect == Spec => []TypeOK
<1>1. TypeInv => TypeOK  BY DEF TypeInv
<1> QED BY <1>1, InitTypeInv, NextTypeInv, PTL DEF Spec

----------------------------------------------------------------------------
(* One worker for the queue.                                               *)

Alive(w) == wpc[w] \notin {"unborn", "done"}

\* Only the worker of the current instance is alive.
Staffed ==
    \A w \in Workers : Alive(w) => inst # None /\ worker[inst] = w /\ home[w] = inst

\* A job in a queue has a worker that is not being stopped.
Attended ==
    \A i \in Instances :
        queue[i] # <<>> =>
            i = inst /\ worker[i] # None /\ Alive(worker[i]) /\ ~stopped[i]

\* An instance is new until get_queue makes it, a worker until it is started.
Created ==
    /\ inst # None => inst \in made
    /\ \A i \in Instances :
          /\ i \notin made => worker[i] = None /\ ~stopped[i]
          /\ worker[i] # None => wpc[worker[i]] # "unborn"

OneStop == \A s, t \in Stops : AtWork(s) /\ AtWork(t) => s = t

\* What a /stop has cleared stays clear while it waits.
Cleared ==
    \A s \in Stops :
        /\ spc[s] = "joining" =>
              /\ inst # None /\ target[s] = inst /\ queue[inst] = <<>>
              /\ awaited[s] = worker[inst]
        /\ spc[s] = "callbacks" =>
              /\ inst # None /\ target[s] = inst /\ queue[inst] = <<>>
              /\ \A w \in Workers : ~Alive(w)

\* The stop event of the current instance is set by a /stop that still waits.
StopWaits ==
    inst # None /\ stopped[inst] => \E s \in Stops : spc[s] \in {"joining", "callbacks"}

\* A worker that is cancelled, or on its way out, is one that a /stop waits for.
Cancels ==
    \A w \in Workers :
        cancel[w] \/ wpc[w] = "dying" =>
            Alive(w) /\ \E s \in Stops : spc[s] = "joining" /\ awaited[s] = w

ServeInv ==
    /\ Staffed /\ Attended /\ Created
    /\ OneStop /\ Cleared /\ StopWaits /\ Cancels

\* The state this invariant is about.
serveVars == <<inst, made, queue, stopped, worker, wpc, home, cancel, spc, target, awaited>>

\* Nothing has been created at the beginning.
LEMMA InitServeInv == Init => ServeInv
BY DEF Init, ServeInv, Staffed, Attended, Created, OneStop, Cleared, StopWaits, Cancels,
       Alive, AtWork

\* Steps that touch nothing of it.
LEMMA SameServes == ServeInv /\ UNCHANGED serveVars => ServeInv'
BY DEF serveVars, ServeInv, Staffed, Attended, Created, OneStop, Cleared, StopWaits, Cancels,
       Alive, AtWork

\* While no /stop is at work, nobody is cancelled and the stop event is clear.
LEMMA QuietCalls ==
    ASSUME ServeInv, \A s \in Stops : ~AtWork(s)
    PROVE  /\ inst # None => ~stopped[inst]
           /\ \A w \in Workers : ~cancel[w] /\ wpc[w] # "dying"
BY DEF ServeInv, StopWaits, Cancels, AtWork

\* get_queue hands out the current instance, or one nobody has used.
LEMMA GetQueueServes ==
    ASSUME TypeInv, ServeInv, \A s \in Stops : ~AtWork(s), NEW i \in Instances, GetQueue(i),
           UNCHANGED <<queue, stopped, worker, wpc, home, cancel, spc, target, awaited>>
    PROVE  ServeInv'
<1>1. inst' = i /\ made' = made \union {i} /\ (IF inst = None THEN i \notin made ELSE i = inst)
    BY DEF GetQueue
<1>2. i # None  BY NoneAssumption
<1>3. Staffed'  BY <1>1, <1>2 DEF ServeInv, Staffed, Alive
<1>4. Attended'  BY <1>1, NoneAssumption DEF ServeInv, Attended, Alive
<1>5. Created'  BY <1>1 DEF ServeInv, Created
<1>6. OneStop' /\ Cleared'  BY DEF OneStop, Cleared, AtWork
<1>7. StopWaits'  BY <1>1, QuietCalls DEF StopWaits, ServeInv, Created
<1>8. Cancels'  BY QuietCalls DEF Cancels
<1> QED BY <1>3, <1>4, <1>5, <1>6, <1>7, <1>8 DEF ServeInv

\* An accepted job finds the worker, or starts one.
LEMMA AcceptServes ==
    ASSUME TypeInv, ServeInv, \A s \in Stops : ~AtWork(s),
           NEW j \in Jobs, NEW i \in Instances, NEW n \in Loads,
           GetQueue(i), Accept(j, i, n), UNCHANGED <<spc, target, awaited>>
    PROVE  ServeInv'
<1>1. inst' = i /\ made' = made \union {i} /\ (IF inst = None THEN i \notin made ELSE i = inst)
    BY DEF GetQueue
<1>2. i # None  BY NoneAssumption
<1>3. cancel' = cancel /\ \A k \in Instances \ {i} : queue'[k] = queue[k]
    BY DEF Accept, TypeInv, TypeOK
<1>4. OneStop' /\ Cleared'  BY DEF OneStop, Cleared, AtWork
<1>5. \A k \in Instances \ {i} : queue[k] = << >>
    BY <1>1, NoneAssumption DEF ServeInv, Attended
<1>6. CASE worker[i] = None \/ wpc[worker[i]] = "done"
    <2>1. PICK w \in Workers :
              /\ wpc[w] = "unborn"
              /\ stopped' = [stopped EXCEPT ![i] = FALSE]
              /\ worker' = [worker EXCEPT ![i] = w]
              /\ wpc' = [wpc EXCEPT ![w] = "new"]
              /\ home' = [home EXCEPT ![w] = i]
        BY <1>6 DEF Accept, EnsureWorker
    <2>2. /\ ~stopped'[i] /\ worker'[i] = w /\ wpc'[w] = "new" /\ home'[w] = i
          /\ \A x \in Workers \ {w} : wpc'[x] = wpc[x] /\ home'[x] = home[x]
          /\ \A k \in Instances \ {i} : worker'[k] = worker[k] /\ stopped'[k] = stopped[k]
        BY <2>1 DEF TypeInv, TypeOK
    <2>3. \A x \in Workers : ~Alive(x)
        BY <1>1, <1>6, NoneAssumption DEF ServeInv, Staffed, Alive
    <2>4. Staffed'  BY <1>1, <1>2, <2>2, <2>3 DEF Staffed, Alive
    <2>5. Attended'  BY <1>1, <1>3, <1>5, <2>2, NoneAssumption DEF Attended, Alive
    <2>6. Created'
        <3>1. \A k \in Instances : worker'[k] # None => worker'[k] \in Workers
            <4> SUFFICES ASSUME NEW k \in Instances, worker'[k] # None
                         PROVE  worker'[k] \in Workers
                OBVIOUS
            <4>1. CASE k = i  BY <2>2, <4>1
            <4>2. CASE k # i  BY <2>2, <4>2 DEF TypeInv, TypeOK
            <4> QED BY <4>1, <4>2
        <3> QED BY <1>1, <2>2, <3>1 DEF ServeInv, Created
    <2>7. StopWaits'  BY <1>1, <2>2 DEF StopWaits
    <2>8. Cancels'  BY <1>3, <2>2, QuietCalls DEF Cancels
    <2> QED BY <1>4, <2>4, <2>5, <2>6, <2>7, <2>8 DEF ServeInv
<1>7. CASE ~(worker[i] = None \/ wpc[worker[i]] = "done")
    <2>1. UNCHANGED <<stopped, worker, wpc, home>>  BY <1>7 DEF Accept, EnsureWorker
    <2>2. worker[i] \in Workers /\ Alive(worker[i]) /\ i \in made
        BY <1>7 DEF TypeInv, TypeOK, ServeInv, Created, Alive
    <2>3. i = inst /\ ~stopped[i]  BY <1>1, <1>2, <2>2, QuietCalls
    <2>4. Staffed'  BY <1>1, <2>1, <2>3 DEF ServeInv, Staffed, Alive
    <2>5. Attended'
        BY <1>1, <1>3, <1>5, <1>7, <2>1, <2>2, <2>3 DEF Attended, Alive
    <2>6. Created'  BY <1>1, <2>1 DEF ServeInv, Created
    <2>7. StopWaits'  BY <1>1, <2>1, <2>3 DEF StopWaits
    <2>8. Cancels'  BY <1>3, <2>1, QuietCalls DEF Cancels
    <2> QED BY <1>4, <2>4, <2>5, <2>6, <2>7, <2>8 DEF ServeInv
<1> QED BY <1>6, <1>7

\* Calls, when they wait for a /stop at work.
LEMMA CallServes ==
    ASSUME Overlaps = FALSE, TypeInv, ServeInv,
           (\E j \in Jobs : Post(j)) \/ Look \/ MiningStarts \/ MiningCrashes \/ Reraises
    PROVE  ServeInv'
<1> USE DEF instVars, taskVars, stopVars, MayCall
<1>1. ASSUME NEW j \in Jobs, Post(j) PROVE ServeInv'
    <2>1. PICK i \in Instances, n \in Loads : GetQueue(i) /\ (Accept(j, i, n) \/ Refuse(j, i, n))
        BY <1>1 DEF Post
    <2>2. (\A s \in Stops : ~AtWork(s)) /\ UNCHANGED <<spc, target, awaited>>
        BY <1>1 DEF Post
    <2>3. CASE Accept(j, i, n)  BY <2>1, <2>2, <2>3, AcceptServes
    <2>4. CASE Refuse(j, i, n)  BY <2>1, <2>2, <2>4, GetQueueServes DEF Refuse
    <2> QED BY <2>1, <2>3, <2>4
<1>2. CASE Look  BY <1>2, GetQueueServes DEF Look
<1>3. CASE MiningStarts \/ MiningCrashes \/ Reraises
    BY <1>3, SameServes DEF MiningStarts, MiningCrashes, Reraises, serveVars
<1> QED BY <1>1, <1>2, <1>3

\* What a step of a worker does to it: a worker ends only with an empty queue.
Effect(w) ==
    /\ UNCHANGED <<inst, made, stopped, worker, home, spc, target, awaited>>
    /\ Alive(w) /\ wpc'[w] # "unborn"
    /\ \A x \in Workers \ {w} : wpc'[x] = wpc[x] /\ cancel'[x] = cancel[x]
    /\ \A i \in Instances : queue[i] = << >> => queue'[i] = << >>
    /\ wpc'[w] = "done" => queue'[inst] = << >> /\ ~cancel'[w]
    /\ cancel'[w] \/ wpc'[w] = "dying" => cancel[w] \/ wpc[w] = "dying"

\* That effect keeps the invariant.
LEMMA EffectServes ==
    ASSUME TypeInv, ServeInv, NEW w \in Workers, Effect(w)
    PROVE  ServeInv'
<1>1. /\ UNCHANGED <<inst, made, stopped, worker, home, spc, target, awaited>>
      /\ Alive(w) /\ wpc'[w] # "unborn"
      /\ \A x \in Workers \ {w} : wpc'[x] = wpc[x] /\ cancel'[x] = cancel[x]
      /\ \A i \in Instances : queue[i] = << >> => queue'[i] = << >>
      /\ wpc'[w] = "done" => queue'[inst] = << >> /\ ~cancel'[w]
      /\ cancel'[w] \/ wpc'[w] = "dying" => cancel[w] \/ wpc[w] = "dying"
    BY DEF Effect
<1>2. inst \in Instances /\ worker[inst] = w
    BY <1>1 DEF ServeInv, Staffed, TypeInv, TypeOK
<1>3. Staffed'  BY <1>1 DEF ServeInv, Staffed, Alive
<1>4. Attended'
    <2> SUFFICES ASSUME NEW i \in Instances, queue'[i] # << >>
                 PROVE  i = inst' /\ worker'[i] # None /\ Alive(worker[i])' /\ ~stopped'[i]
        BY DEF Attended
    <2>1. i = inst /\ worker[i] # None /\ ~stopped[i]  BY <1>1 DEF ServeInv, Attended
    <2> QED BY <1>1, <1>2, <2>1 DEF Alive
<1>5. Created'
    <2>1. \A i \in Instances : worker[i] # None => worker[i] \in Workers
        BY DEF TypeInv, TypeOK
    <2> QED BY <1>1, <2>1 DEF ServeInv, Created
<1>6. OneStop'  BY <1>1 DEF ServeInv, OneStop, AtWork
<1>7. Cleared'  BY <1>1, <1>2 DEF ServeInv, Cleared
<1>8. StopWaits'  BY <1>1 DEF ServeInv, StopWaits
<1>9. Cancels'  BY <1>1 DEF ServeInv, Cancels, Alive
<1> QED BY <1>3, <1>4, <1>5, <1>6, <1>7, <1>8, <1>9 DEF ServeInv

\* Every step of a worker has it.
LEMMA WorkerEffect ==
    ASSUME TypeInv, ServeInv, NEW w \in Workers, WorkerStep(w) \/ JobEnds(w)
    PROVE  Effect(w)
<1> USE DEF taskVars, stopVars, instVars
<1>1. Alive(w) => home[w] = inst /\ inst \in Instances
    BY DEF ServeInv, Staffed, TypeInv, TypeOK
<1>2. Alive(w) /\ stopped[home[w]] => queue[inst] = << >>
    BY <1>1 DEF ServeInv, Attended
<1>3. cancel[w] \/ wpc[w] = "dying" => Alive(w) /\ queue[inst] = << >>
    BY DEF ServeInv, Cancels, Cleared
<1>4. ASSUME NEW v, wpc' = [wpc EXCEPT ![w] = v] PROVE
        wpc'[w] = v /\ \A x \in Workers \ {w} : wpc'[x] = wpc[x]
    BY <1>4 DEF TypeInv, TypeOK
<1>5. CASE Begins(w)
    BY <1>1, <1>2, <1>5 DEF Begins, Steps, LoopTop, Effect, Alive, TypeInv, TypeOK
<1>6. CASE Takes(w)
    <2>1. wpc[w] = "get" /\ queue[inst] # << >> /\ ~stopped[home[w]] /\ ~cancel[w]
        BY <1>1, <1>2, <1>6 DEF Takes, Steps, Alive
    <2>2. wpc' = [wpc EXCEPT ![w] = IF mining = "active" THEN "waiting" ELSE "processing"]
        BY <1>6, <2>1 DEF Takes
    <2>3. queue' = [queue EXCEPT ![home[w]] = Tail(@)]  BY <1>6 DEF Takes
    <2>4. \A i \in Instances : queue[i] = << >> => queue'[i] = << >>
        BY <1>1, <2>1, <2>3 DEF TypeInv, TypeOK, Alive
    <2>5. UNCHANGED <<inst, made, stopped, worker, home, cancel, spc, target, awaited>>
        BY <1>6 DEF Takes, Steps
    <2> QED BY <2>1, <2>2, <2>4, <2>5 DEF Effect, Alive, TypeInv, TypeOK
<1>7. CASE TimesOut(w)
    BY <1>1, <1>7 DEF TimesOut, Steps, Effect, Alive, TypeInv, TypeOK
<1>8. CASE WaitEnds(w)
    <2>1. wpc[w] = "waiting" /\ ~cancel[w]  BY <1>8 DEF WaitEnds, Steps
    <2>2. UNCHANGED <<inst, made, stopped, worker, home, cancel, spc, target, awaited, queue>>
        BY <1>8 DEF WaitEnds, Steps
    <2>3. wpc' = [wpc EXCEPT ![w] = IF stopped[home[w]] THEN "done" ELSE "processing"]
        BY <1>8 DEF WaitEnds
    <2> QED BY <1>1, <1>2, <2>1, <2>2, <2>3 DEF Effect, Alive, TypeInv, TypeOK
<1>9. CASE Cancelled(w)
    <2>1. /\ cancel[w] /\ cancel' = [cancel EXCEPT ![w] = FALSE]
          /\ wpc' = [wpc EXCEPT ![w] = "done"]
          /\ UNCHANGED <<inst, made, stopped, worker, home, spc, target, awaited, queue>>
        BY <1>9 DEF Cancelled
    <2> QED BY <1>3, <2>1 DEF Effect, Alive, TypeInv, TypeOK
<1>10. CASE CancelledJob(w)
    BY <1>3, <1>10 DEF CancelledJob, Effect, Alive, TypeInv, TypeOK
<1>11. CASE Dies(w)
    <2>1. /\ wpc[w] = "dying" /\ ~cancel[w] /\ wpc' = [wpc EXCEPT ![w] = "done"]
          /\ UNCHANGED <<inst, made, stopped, worker, home, cancel, spc, target, awaited, queue>>
        BY <1>11 DEF Dies, Steps
    <2> QED BY <1>3, <2>1 DEF Effect, Alive, TypeInv, TypeOK
<1>12. ASSUME NEW outcome \in Final, Ends(w, outcome) PROVE Effect(w)
    <2>1. wpc[w] = "processing" /\ ~cancel[w]  BY <1>12 DEF Ends, Steps
    <2>2. UNCHANGED <<inst, made, stopped, worker, home, cancel, spc, target, awaited, queue>>
        BY <1>12 DEF Ends, Steps
    <2>3. wpc' = [wpc EXCEPT ![w] = IF stopped[home[w]] THEN "done" ELSE "get"]
        BY <1>12 DEF Ends, LoopTop
    <2> QED BY <1>1, <1>2, <2>1, <2>2, <2>3 DEF Effect, Alive, TypeInv, TypeOK
<1>13. CASE JobEnds(w)  BY <1>12, <1>13 DEF JobEnds
<1> QED BY <1>5, <1>6, <1>7, <1>8, <1>9, <1>10, <1>11, <1>13 DEF WorkerStep

\* What the end of a /stop, or its wait for the callback queue, does: no worker is alive
\* and nothing is queued, so the instance can go.
LEMMA UnhooksServes ==
    ASSUME TypeInv, ServeInv, NEW s \in Stops, NEW i \in Instances, i = inst,
           \A t \in Stops \ {s} : ~AtWork(t), Unhooks(s, i),
           \A w \in Workers : ~Alive(w), \A k \in Instances : queue'[k] = << >>,
           \A k \in Instances \ {i} : worker'[k] = worker[k] /\ stopped'[k] = stopped[k],
           worker'[i] \in {worker[i], None},
           UNCHANGED <<made, wpc, home, cancel>>
    PROVE  ServeInv'
<1>1. /\ \A t \in Stops \ {s} : spc'[t] = "idle"
      /\ \/ spc'[s] = "callbacks" /\ target'[s] = i /\ inst' = inst
         \/ spc'[s] = "idle" /\ inst' = None
    BY DEF Unhooks, AtWork, TypeInv, TypeOK
<1>2. i # None /\ i \in made  BY NoneAssumption DEF ServeInv, Created
<1>3. Staffed'  BY DEF Staffed, Alive
<1>4. Attended'  BY DEF Attended
<1>5. Created'  BY <1>1, <1>2 DEF ServeInv, Created
<1>6. OneStop'  BY <1>1 DEF OneStop, AtWork
<1>7. Cleared'
    <2> SUFFICES ASSUME NEW t \in Stops
                 PROVE  /\ spc'[t] # "joining"
                        /\ spc'[t] = "callbacks" =>
                              /\ inst' # None /\ target'[t] = inst' /\ queue'[inst'] = << >>
                              /\ \A w \in Workers : ~Alive(w)'
        BY DEF Cleared
    <2> QED BY <1>1, <1>2 DEF Alive
<1>8. StopWaits'  BY <1>1 DEF StopWaits
<1>9. Cancels'  BY DEF ServeInv, Cancels, Alive
<1> QED BY <1>3, <1>4, <1>5, <1>6, <1>7, <1>8, <1>9 DEF ServeInv

\* /stop.
LEMMA StopServes ==
    ASSUME Overlaps = FALSE, TypeInv, ServeInv, NEW s \in Stops, StopEndsRound(s) \/ StopStep(s)
    PROVE  ServeInv'
<1> USE DEF instVars, taskVars
<1>1. \A t \in Stops \ {s} : ~AtWork(t)
    <2>1. AtWork(s) \/ MayCall
        BY DEF StopEndsRound, StopStep, StopClears, StopJoined, StopEnds, AtWork
    <2> QED BY <2>1 DEF MayCall, ServeInv, OneStop
<1>2. ASSUME inst # None,
             \/ queue' = [queue EXCEPT ![inst] = << >>]
             \/ queue' = queue /\ queue[inst] = << >>
      PROVE  \A k \in Instances : queue'[k] = << >>
    BY <1>2 DEF ServeInv, Attended, TypeInv, TypeOK
<1>3. CASE StopEndsRound(s)
    <2>1. /\ spc[s] = "idle" /\ spc' = [spc EXCEPT ![s] = "ending"]
          /\ UNCHANGED <<inst, made, queue, stopped, worker, wpc, home, cancel, target, awaited>>
        BY <1>3 DEF StopEndsRound
    <2>2. spc'[s] = "ending" /\ \A t \in Stops \ {s} : spc[t] = "idle" /\ spc'[t] = "idle"
        BY <1>1, <2>1 DEF AtWork, TypeInv, TypeOK
    <2>3. Staffed' /\ Attended' /\ Created'
        BY <2>1 DEF ServeInv, Staffed, Attended, Created, Alive
    <2>4. OneStop' /\ Cleared'  BY <2>2 DEF OneStop, Cleared, AtWork
    <2>5. StopWaits' /\ Cancels'
        BY <2>1, <2>2 DEF ServeInv, StopWaits, Cancels, Alive
    <2> QED BY <2>3, <2>4, <2>5 DEF ServeInv
<1>4. CASE StopClears(s)
    <2>1. spc[s] \in {"idle", "ending"} /\ UNCHANGED <<made, wpc, home>>
        BY <1>4 DEF StopClears
    <2>2. (\A w \in Workers : ~cancel[w] /\ wpc[w] # "dying") /\ (inst # None => ~stopped[inst])
        BY <1>1, <2>1 DEF ServeInv, Cancels, StopWaits, AtWork
    <2>3. CASE inst = None
        <3>1. /\ spc' = [spc EXCEPT ![s] = "idle"]
              /\ UNCHANGED <<inst, queue, stopped, worker, cancel, target, awaited>>
            BY <1>4, <2>3 DEF StopClears
        <3>2. \A t \in Stops : spc'[t] = "idle"
            BY <1>1, <3>1 DEF AtWork, TypeInv, TypeOK
        <3>3. Staffed' /\ Attended' /\ Created'
            BY <2>1, <3>1 DEF ServeInv, Staffed, Attended, Created, Alive
        <3>4. OneStop' /\ Cleared'  BY <3>2 DEF OneStop, Cleared, AtWork
        <3>5. StopWaits' /\ Cancels'  BY <2>1, <2>2, <2>3, <3>1 DEF StopWaits, Cancels
        <3> QED BY <3>3, <3>4, <3>5 DEF ServeInv
    <2>4. CASE inst # None
        <3>1. inst \in Instances /\ inst \in made
            BY <2>4 DEF TypeInv, TypeOK, ServeInv, Created
        <3>2. /\ queue' = [queue EXCEPT ![inst] = << >>]
              /\ stopped' = [stopped EXCEPT ![inst] = TRUE] /\ worker' = worker
            BY <1>4, <2>4 DEF StopClears, Clears
        <3>3. \A k \in Instances : queue'[k] = << >>
            <4>1. \A k \in Instances \ {inst} : queue[k] = << >>
                BY DEF ServeInv, Attended
            <4> QED BY <3>1, <3>2, <4>1 DEF TypeInv, TypeOK
        <3>4. \A k \in Instances \ {inst} : stopped'[k] = stopped[k]
            BY <3>2 DEF TypeInv, TypeOK
        <3>5. CASE worker[inst] # None /\ wpc[worker[inst]] # "done"
            <4>1. /\ cancel' = [cancel EXCEPT ![worker[inst]] = TRUE]
                  /\ spc' = [spc EXCEPT ![s] = "joining"]
                  /\ target' = [target EXCEPT ![s] = inst]
                  /\ awaited' = [awaited EXCEPT ![s] = worker[inst]]
                  /\ UNCHANGED inst
                BY <1>4, <2>4, <3>5 DEF StopClears
            <4>2. worker[inst] \in Workers /\ Alive(worker[inst])
                BY <3>1, <3>5 DEF TypeInv, TypeOK, ServeInv, Created, Alive
            <4>3. /\ spc'[s] = "joining" /\ target'[s] = inst /\ awaited'[s] = worker[inst]
                  /\ \A t \in Stops \ {s} : spc'[t] = "idle"
                  /\ \A w \in Workers \ {worker[inst]} : cancel'[w] = cancel[w]
                BY <1>1, <4>1, <4>2 DEF AtWork, TypeInv, TypeOK
            <4>4. Staffed'  BY <2>1, <3>2, <4>1 DEF ServeInv, Staffed, Alive
            <4>5. Attended'  BY <3>3 DEF Attended
            <4>6. Created'  BY <2>1, <3>1, <3>2, <3>4, <4>1 DEF ServeInv, Created
            <4>7. OneStop'  BY <4>3 DEF OneStop, AtWork
            <4>8. Cleared'
                <5> SUFFICES ASSUME NEW t \in Stops
                             PROVE  /\ spc'[t] # "callbacks"
                                    /\ spc'[t] = "joining" =>
                                          /\ inst' # None /\ target'[t] = inst'
                                          /\ queue'[inst'] = << >>
                                          /\ awaited'[t] = worker'[inst']
                    BY DEF Cleared
                <5> QED BY <2>4, <3>1, <3>2, <3>3, <4>1, <4>3
            <4>9. StopWaits'  BY <4>3 DEF StopWaits
            <4>10. Cancels'  BY <2>1, <2>2, <4>2, <4>3 DEF Cancels, Alive
            <4> QED BY <4>4, <4>5, <4>6, <4>7, <4>8, <4>9, <4>10 DEF ServeInv
        <3>6. CASE ~(worker[inst] # None /\ wpc[worker[inst]] # "done")
            <4>1. Unhooks(s, inst) /\ UNCHANGED <<cancel, awaited>>
                BY <1>4, <2>4, <3>6 DEF StopClears
            <4>2. \A w \in Workers : ~Alive(w)
                BY <3>6, NoneAssumption DEF ServeInv, Staffed, Alive
            <4> QED BY <1>1, <2>1, <3>1, <3>2, <3>3, <3>4, <4>1, <4>2, UnhooksServes
        <3> QED BY <3>5, <3>6
    <2> QED BY <2>3, <2>4
<1>5. CASE StopJoined(s)
    <2>1. /\ inst # None /\ target[s] = inst /\ queue[inst] = << >> /\ wpc[worker[inst]] = "done"
          /\ worker' = [worker EXCEPT ![inst] = None] /\ Unhooks(s, inst)
          /\ UNCHANGED <<made, queue, stopped, wpc, home, cancel>>
        BY <1>5 DEF StopJoined, ServeInv, Cleared
    <2>2. \A w \in Workers : ~Alive(w)  BY <2>1 DEF ServeInv, Staffed, Alive
    <2>3. inst \in Instances  BY <2>1 DEF TypeInv, TypeOK
    <2>4. \A k \in Instances : queue'[k] = << >>  BY <1>2, <2>1
    <2>5. worker'[inst] = None /\ \A k \in Instances \ {inst} : worker'[k] = worker[k]
        BY <2>1, <2>3 DEF TypeInv, TypeOK
    <2> QED BY <1>1, <2>1, <2>2, <2>3, <2>4, <2>5, UnhooksServes
<1>6. CASE StopEnds(s)
    <2>1. /\ inst # None /\ target[s] = inst /\ queue[inst] = << >>
          /\ \A w \in Workers : ~Alive(w)
          /\ inst' = None /\ spc' = [spc EXCEPT ![s] = "idle"]
          /\ UNCHANGED <<made, queue, stopped, worker, wpc, home, cancel, awaited>>
        BY <1>6 DEF StopEnds, ServeInv, Cleared
    <2>2. \A t \in Stops : spc'[t] = "idle"  BY <1>1, <2>1 DEF AtWork, TypeInv, TypeOK
    <2>3. \A k \in Instances : queue'[k] = << >>  BY <1>2, <2>1
    <2>4. Staffed' /\ Attended'  BY <2>1, <2>3 DEF Staffed, Attended, Alive
    <2>5. Created'  BY <2>1 DEF ServeInv, Created
    <2>6. OneStop' /\ Cleared'  BY <2>2 DEF OneStop, Cleared, AtWork
    <2>7. StopWaits'  BY <2>1 DEF StopWaits
    <2>8. Cancels'  BY <2>1 DEF ServeInv, Cancels, Alive
    <2> QED BY <2>4, <2>5, <2>6, <2>7, <2>8 DEF ServeInv
<1> QED BY <1>3, <1>4, <1>5, <1>6 DEF StopStep

\* Every step.
LEMMA NextServes ==
    Overlaps = FALSE => (TypeInv /\ ServeInv /\ [Next]_vars => ServeInv')
<1> SUFFICES ASSUME Overlaps = FALSE, TypeInv, ServeInv, [Next]_vars PROVE ServeInv'  OBVIOUS
<1>1. CASE UNCHANGED vars
    BY <1>1, SameServes DEF vars, instVars, taskVars, stopVars, serveVars
<1>2. ASSUME NEW w \in Workers, WorkerStep(w) \/ JobEnds(w) PROVE ServeInv'
    BY <1>2, WorkerEffect, EffectServes
<1> QED BY <1>1, <1>2, CallServes, StopServes DEF Next

\* The property, from the two parts that say it.
LEMMA ServeInvServes == TypeInv /\ ServeInv => Served
BY DEF TypeInv, TypeOK, ServeInv, Staffed, Attended, Served, Running, Alive

\* One worker alive, and a queued job always has one that will look at it again, as long as
\* calls wait for a /stop at work (generate_queue.py 124, 328).
THEOREM QueueServed ==
    ASSUME Overlaps = FALSE
    PROVE  Spec => []Served
<1>1. TypeInv /\ ServeInv /\ [Next]_vars => ServeInv'  BY NextServes
<1> QED BY <1>1, InitTypeInv, NextTypeInv, InitServeInv, ServeInvServes, PTL DEF Spec

----------------------------------------------------------------------------
(* Records: what GET shows, and where its job is.                          *)

\* Only a worker in a job has one.
Busy == \A w \in Workers : job[w] # None => wpc[w] \in InJob

Targeted == \A s \in Stops : target[s] # None => spc[s] \in {"joining", "callbacks"}

\* There is nothing in an instance that is not the current one, or that is being stopped.
Emptied ==
    \A i \in Instances :
        i # inst \/ Stopping(i) => queue[i] = <<>> /\ \A j \in Jobs : result[i][j] = "none"

\* Records are those of accepted jobs that nothing has cleared.
Known ==
    /\ \A j \in dropped : answer[j] = "queued"
    /\ \A i \in Instances, j \in Jobs :
          result[i][j] # "none" => answer[j] = "queued" /\ j \notin dropped

\* A queue holds a job once, as queued.
Marked ==
    \A i \in Instances :
        /\ \A n \in 1..Len(queue[i]) : result[i][queue[i][n]] = "queued"
        /\ \A m, n \in 1..Len(queue[i]) : queue[i][m] = queue[i][n] => m = n

\* The job of a worker is running, unless a /stop has cleared it.
Works ==
    \A w \in Workers :
        job[w] # None /\ ~Stopping(home[w]) => result[home[w]][job[w]] = "running"

RecordInv == Busy /\ Targeted /\ Emptied /\ Known /\ Marked /\ Works

recordVars == <<inst, queue, result, wpc, home, job, spc, target, answer, dropped>>

\* Nothing has been accepted at the beginning.
LEMMA InitRecordInv == Init => RecordInv
BY NoneAssumption
   DEF Init, RecordInv, Busy, Targeted, Emptied, Known, Marked, Works, InJob, Stopping

\* Steps that touch nothing of it.
LEMMA SameRecords == RecordInv /\ UNCHANGED recordVars => RecordInv'
BY DEF recordVars, RecordInv, Busy, Targeted, Emptied, Known, Marked, Works, Stopping

\* While no /stop is at work none has a target.
LEMMA QuietTargets ==
    ASSUME RecordInv, \A s \in Stops : ~AtWork(s)
    PROVE  \A i \in Instances : ~Stopping(i)
BY NoneAssumption DEF RecordInv, Targeted, AtWork, Stopping

\* The job of a worker is that of the current instance's worker.
LEMMA OneBusy ==
    ASSUME TypeInv, ServeInv, RecordInv, NEW w \in Workers, job[w] # None
    PROVE  inst \in Instances /\ worker[inst] = w /\ home[w] = inst /\ Alive(w)
BY DEF RecordInv, Busy, InJob, Alive, ServeInv, Staffed, TypeInv, TypeOK

\* A job that has not been accepted has left no trace.
LEMMA Unseen ==
    ASSUME TypeInv, ServeInv, RecordInv, NEW j \in Jobs, answer[j] # "queued"
    PROVE  /\ j \notin dropped
           /\ \A i \in Instances :
                 result[i][j] = "none" /\ \A n \in 1..Len(queue[i]) : queue[i][n] # j
BY DEF RecordInv, Known, Marked

\* get_queue alone.
LEMMA GetQueueRecords ==
    ASSUME TypeInv, ServeInv, RecordInv, \A s \in Stops : ~AtWork(s),
           NEW i \in Instances, GetQueue(i),
           UNCHANGED <<queue, result, wpc, home, job, spc, target, dropped>>,
           \A j \in Jobs : answer[j] = "queued" => answer'[j] = "queued"
    PROVE  RecordInv'
<1>1. inst' = i /\ (inst = None \/ i = inst)  BY DEF GetQueue
<1>2. Busy' /\ Targeted' /\ Works'
    BY DEF RecordInv, Busy, Targeted, Works, Stopping
<1>3. Emptied'  BY <1>1, QuietTargets, NoneAssumption DEF RecordInv, Emptied, Stopping
<1>4. Known'
    <2>1. dropped \subseteq Jobs  BY DEF TypeInv, TypeOK
    <2> QED BY <2>1 DEF RecordInv, Known
<1>5. Marked'  BY DEF RecordInv, Marked
<1> QED BY <1>2, <1>3, <1>4, <1>5 DEF RecordInv

\* An accepted job is the last of its queue, as queued.
LEMMA AcceptRecords ==
    ASSUME TypeInv, ServeInv, RecordInv, \A s \in Stops : ~AtWork(s),
           NEW j \in Jobs, NEW i \in Instances, NEW n \in Loads, answer[j] = "none",
           GetQueue(i), Accept(j, i, n), UNCHANGED <<spc, target, dropped>>
    PROVE  RecordInv'
<1>1. inst' = i /\ (inst = None \/ i = inst)  BY DEF GetQueue
<1>2. /\ answer'[j] = "queued" /\ \A k \in Jobs \ {j} : answer'[k] = answer[k]
      /\ result'[i][j] = "queued" /\ \A k \in Jobs \ {j} : result'[i][k] = result[i][k]
      /\ queue'[i] = Append(queue[i], j)
      /\ \A k \in Instances \ {i} : result'[k] = result[k] /\ queue'[k] = queue[k]
      /\ job' = job
    BY DEF Accept, TypeInv, TypeOK
<1>3. /\ queue[i] \in Seq(Jobs) /\ dropped \subseteq Jobs
      /\ \A w \in Workers : job[w] # None => job[w] \in Jobs
    BY DEF TypeInv, TypeOK
<1>4. \A w \in Workers : job[w] # None => wpc'[w] = wpc[w] /\ home'[w] = home[w]
    <2>1. CASE worker[i] = None \/ wpc[worker[i]] = "done"
        <3>1. PICK w \in Workers :
                  /\ wpc[w] = "unborn"
                  /\ wpc' = [wpc EXCEPT ![w] = "new"]
                  /\ home' = [home EXCEPT ![w] = i]
            BY <2>1 DEF Accept, EnsureWorker
        <3>2. job[w] = None  BY <3>1 DEF RecordInv, Busy, InJob
        <3> QED BY <3>1, <3>2 DEF TypeInv, TypeOK
    <2>2. CASE ~(worker[i] = None \/ wpc[worker[i]] = "done")
        BY <2>2 DEF Accept, EnsureWorker
    <2> QED BY <2>1, <2>2
<1>5. Busy'  BY <1>2, <1>4 DEF RecordInv, Busy
<1>6. Targeted'  BY DEF RecordInv, Targeted
<1>7. Emptied'
    BY <1>1, <1>2, QuietTargets, NoneAssumption DEF RecordInv, Emptied, Stopping
<1>8. Known'  BY <1>2, <1>3, Unseen DEF RecordInv, Known
<1>9. Marked'
    <2>1. \A k \in Instances \ {i} :
              /\ \A m \in 1..Len(queue'[k]) : result'[k][queue'[k][m]] = "queued"
              /\ \A l, m \in 1..Len(queue'[k]) : queue'[k][l] = queue'[k][m] => l = m
        BY <1>2 DEF RecordInv, Marked
    <2>2. \A m \in 1..Len(queue[i]) : queue[i][m] \in Jobs \ {j}
        BY <1>3, Unseen
    <2>3. /\ Len(queue'[i]) = Len(queue[i]) + 1 /\ queue'[i][Len(queue[i]) + 1] = j
          /\ \A m \in 1..Len(queue[i]) : queue'[i][m] = queue[i][m]
        BY <1>2, <1>3
    <2>4. \A m \in 1..Len(queue'[i]) : result'[i][queue'[i][m]] = "queued"
        BY <1>2, <1>3, <2>2, <2>3 DEF RecordInv, Marked
    <2>5. \A l, m \in 1..Len(queue'[i]) : queue'[i][l] = queue'[i][m] => l = m
        <3>1. \A l, m \in 1..Len(queue[i]) : queue[i][l] = queue[i][m] => l = m
            BY DEF RecordInv, Marked
        <3>2. \A m \in 1..Len(queue'[i]) :
                  m \in 1..Len(queue[i]) \/ m = Len(queue[i]) + 1
            BY <1>3, <2>3
        <3> QED BY <2>2, <2>3, <3>1, <3>2
    <2> QED BY <2>1, <2>4, <2>5 DEF Marked
<1>10. Works'
    <2> SUFFICES ASSUME NEW w \in Workers, job[w] # None
                 PROVE  result'[home'[w]][job'[w]] = "running"
        BY <1>2 DEF Works
    <2>1. result[inst][job[w]] = "running" /\ home[w] = inst /\ inst \in Instances
        BY OneBusy, QuietTargets DEF RecordInv, Works
    <2>2. job[w] # j /\ job[w] \in Jobs  BY <1>3, <2>1, Unseen
    <2> QED BY <1>1, <1>2, <1>4, <2>1, <2>2, NoneAssumption
<1> QED BY <1>5, <1>6, <1>7, <1>8, <1>9, <1>10 DEF RecordInv

\* Calls, when they wait for a /stop at work.
LEMMA CallRecords ==
    ASSUME Overlaps = FALSE, TypeInv, ServeInv, RecordInv,
           (\E j \in Jobs : Post(j)) \/ Look \/ MiningStarts \/ MiningCrashes \/ Reraises
    PROVE  RecordInv'
<1> USE DEF instVars, taskVars, stopVars, jobVars, MayCall
<1>1. ASSUME NEW j \in Jobs, Post(j) PROVE RecordInv'
    <2>1. PICK i \in Instances, n \in Loads : GetQueue(i) /\ (Accept(j, i, n) \/ Refuse(j, i, n))
        BY <1>1 DEF Post
    <2>2. (\A s \in Stops : ~AtWork(s)) /\ answer[j] = "none"
          /\ UNCHANGED <<spc, target, dropped>>
        BY <1>1 DEF Post
    <2>3. CASE Accept(j, i, n)  BY <2>1, <2>2, <2>3, AcceptRecords
    <2>4. CASE Refuse(j, i, n)
        <3>1. \A k \in Jobs : answer[k] = "queued" => answer'[k] = "queued"
            BY <2>2, <2>4 DEF Refuse, TypeInv, TypeOK
        <3> QED BY <2>1, <2>2, <2>4, <3>1, GetQueueRecords DEF Refuse
    <2> QED BY <2>1, <2>3, <2>4
<1>2. CASE Look  BY <1>2, GetQueueRecords DEF Look
<1>3. CASE MiningStarts \/ MiningCrashes \/ Reraises
    BY <1>3, SameRecords DEF MiningStarts, MiningCrashes, Reraises, recordVars
<1> QED BY <1>1, <1>2, <1>3

\* What a worker has in its hands is in the current instance, and nobody else has a job.
LEMMA WorkerRecords ==
    ASSUME TypeInv, ServeInv, RecordInv, NEW w \in Workers, WorkerStep(w) \/ JobEnds(w)
    PROVE  RecordInv'
<1> USE DEF stopVars
<1>0. /\ Effect(w) /\ Alive(w) /\ inst \in Instances /\ home[w] = inst /\ worker[inst] = w
      /\ \A x \in Workers \ {w} : job[x] = None
    <2>1. Effect(w)  BY WorkerEffect
    <2>2. Alive(w) /\ inst \in Instances /\ home[w] = inst /\ worker[inst] = w
        BY <2>1 DEF Effect, ServeInv, Staffed, TypeInv, TypeOK
    <2> QED BY <2>1, <2>2, OneBusy
<1>1. UNCHANGED <<inst, worker, home, spc, target>>  BY <1>0 DEF Effect
<1>2. Targeted'  BY <1>1 DEF RecordInv, Targeted
<1>3. \A i \in Instances : Stopping(i)' <=> Stopping(i)  BY <1>1 DEF Stopping
<1>4. ASSUME UNCHANGED <<queue, result, answer, dropped>>,
             \A x \in Workers : job'[x] # None => wpc'[x] \in InJob /\ job'[x] = job[x]
      PROVE  RecordInv'
    <2>1. Busy'  BY <1>4 DEF Busy
    <2>2. Emptied' /\ Known' /\ Marked'
        BY <1>1, <1>3, <1>4 DEF RecordInv, Emptied, Known, Marked
    <2>3. Works'
        <3> SUFFICES ASSUME NEW x \in Workers, job'[x] # None,
                            ~ \E s \in Stops : target'[s] = home'[x]
                     PROVE  result'[home'[x]][job'[x]] = "running"
            BY DEF Works, Stopping
        <3>1. job[x] # None /\ job'[x] = job[x] /\ home'[x] = home[x]  BY <1>1, <1>4
        <3>2. home[x] = inst  BY <3>1, OneBusy
        <3>3. ~Stopping(home[x])  BY <1>1, <3>1 DEF Stopping
        <3> QED BY <1>4, <3>1, <3>3 DEF RecordInv, Works
    <2> QED BY <1>2, <2>1, <2>2, <2>3 DEF RecordInv
<1>5. \A x \in Workers : job[x] # None => wpc[x] \in InJob  BY DEF RecordInv, Busy
<1>6. CASE Begins(w)
    <2>1. /\ wpc[w] = "new" /\ UNCHANGED <<queue, result, answer, dropped, job>>
          /\ \A x \in Workers \ {w} : wpc'[x] = wpc[x]
        BY <1>0, <1>6 DEF Begins, Steps, Effect
    <2> QED BY <1>4, <1>5, <2>1 DEF InJob
<1>7. CASE TimesOut(w)
    <2>1. /\ wpc[w] = "get" /\ UNCHANGED <<queue, result, answer, dropped, job>>
          /\ \A x \in Workers \ {w} : wpc'[x] = wpc[x]
        BY <1>0, <1>7 DEF TimesOut, Steps, Effect
    <2> QED BY <1>4, <1>5, <2>1 DEF InJob
<1>8. CASE WaitEnds(w)
    <2>1. UNCHANGED <<queue, result, answer, dropped>>  BY <1>8 DEF WaitEnds, Steps
    <2>2. \/ job' = [job EXCEPT ![w] = None]
          \/ job' = job /\ wpc' = [wpc EXCEPT ![w] = "processing"]
        BY <1>8 DEF WaitEnds
    <2>3. \A x \in Workers : job'[x] # None => wpc'[x] \in InJob /\ job'[x] = job[x]
        BY <1>0, <1>5, <2>2 DEF InJob, TypeInv, TypeOK
    <2> QED BY <1>4, <2>1, <2>3
<1>9. CASE Cancelled(w) \/ Dies(w)
    <2>1. UNCHANGED <<queue, result, answer, dropped>> /\ job' = [job EXCEPT ![w] = None]
        BY <1>9 DEF Cancelled, Dies, Steps, jobVars
    <2>2. \A x \in Workers : job'[x] # None => wpc'[x] \in InJob /\ job'[x] = job[x]
        BY <1>0, <2>1 DEF TypeInv, TypeOK
    <2> QED BY <1>4, <2>1, <2>2
<1>10. CASE CancelledJob(w)
    <2>1. UNCHANGED <<queue, result, answer, dropped, job>>
          /\ (wpc' = wpc \/ wpc' = [wpc EXCEPT ![w] = "dying"])
        BY <1>10 DEF CancelledJob, instVars, jobVars
    <2>2. \A x \in Workers : job'[x] # None => wpc'[x] \in InJob /\ job'[x] = job[x]
        BY <1>5, <2>1 DEF InJob, TypeInv, TypeOK
    <2> QED BY <1>4, <2>1, <2>2
<1>11. CASE Takes(w)
    <2> DEFINE j == Head(queue[inst])
    <2>1. /\ wpc[w] = "get" /\ queue[inst] # << >> /\ UNCHANGED <<answer, dropped>>
          /\ queue' = [queue EXCEPT ![inst] = Tail(@)]
          /\ result' = [result EXCEPT ![inst] = Recorded(inst, j, "running")]
        BY <1>0, <1>11 DEF Takes, Steps
    <2>2. ~stopped[inst] /\ ~Stopping(inst)
        BY <1>0, <2>1 DEF ServeInv, Attended, RecordInv, Emptied
    <2>3. /\ job' = [job EXCEPT ![w] = j]
          /\ wpc' = [wpc EXCEPT ![w] = IF mining = "active" THEN "waiting" ELSE "processing"]
        BY <1>0, <1>11, <2>2 DEF Takes
    <2>4. queue[inst] \in Seq(Jobs)  BY <1>0 DEF TypeInv, TypeOK
    <2>5. /\ j \in Jobs /\ j = queue[inst][1] /\ Len(queue'[inst]) = Len(queue[inst]) - 1
          /\ \A n \in 1..Len(queue'[inst]) : queue'[inst][n] = queue[inst][n + 1]
          /\ \A k \in Instances \ {inst} : queue'[k] = queue[k] /\ result'[k] = result[k]
        BY <1>0, <2>1, <2>4 DEF TypeInv, TypeOK
    <2>6. result[inst][j] = "queued" /\ 1 \in 1..Len(queue[inst])
        BY <1>0, <2>1, <2>4, <2>5 DEF RecordInv, Marked
    <2> HIDE DEF j
    <2>7. result'[inst][j] = "running" /\ \A k \in Jobs \ {j} : result'[inst][k] = result[inst][k]
        BY <1>0, <2>1, <2>5, <2>6 DEF Recorded, TypeInv, TypeOK
    <2>8. \A n \in 1..Len(queue'[inst]) : n + 1 \in 1..Len(queue[inst]) /\ n + 1 # 1
        BY <2>4, <2>5
    <2>9. job'[w] = j /\ wpc'[w] \in InJob /\ \A x \in Workers \ {w} : job'[x] = None
        BY <1>0, <2>3 DEF InJob, TypeInv, TypeOK
    <2>10. Busy'  BY <2>9 DEF Busy
    <2>11. Emptied'
        BY <1>0, <1>1, <1>3, <2>2, <2>5 DEF RecordInv, Emptied
    <2>12. Known'
        <3>1. answer[j] = "queued" /\ j \notin dropped
            BY <1>0, <2>5, <2>6 DEF RecordInv, Known
        <3> QED BY <1>0, <2>1, <2>5, <2>7, <3>1 DEF RecordInv, Known
    <2>13. Marked'
        <3>1. \A k \in Instances \ {inst} :
                  /\ \A m \in 1..Len(queue'[k]) : result'[k][queue'[k][m]] = "queued"
                  /\ \A l, m \in 1..Len(queue'[k]) : queue'[k][l] = queue'[k][m] => l = m
            BY <2>5 DEF RecordInv, Marked
        <3>2. \A n \in 1..Len(queue[inst]) : queue[inst][n] \in Jobs  BY <2>4
        <3>3. /\ \A n \in 1..Len(queue[inst]) : result[inst][queue[inst][n]] = "queued"
              /\ \A m, n \in 1..Len(queue[inst]) : queue[inst][m] = queue[inst][n] => m = n
            BY <1>0 DEF RecordInv, Marked
        <3>4. \A n \in 1..Len(queue'[inst]) : result'[inst][queue'[inst][n]] = "queued"
            BY <2>5, <2>6, <2>7, <2>8, <3>2, <3>3
        <3>5. \A m, n \in 1..Len(queue'[inst]) : queue'[inst][m] = queue'[inst][n] => m = n
            BY <2>5, <2>8, <3>3
        <3> QED BY <3>1, <3>4, <3>5 DEF Marked
    <2>14. Works'  BY <1>0, <1>1, <2>7, <2>9 DEF Works
    <2> QED BY <1>2, <2>10, <2>11, <2>12, <2>13, <2>14 DEF RecordInv
<1>12. ASSUME NEW outcome \in Final, Ends(w, outcome) PROVE RecordInv'
    <2> DEFINE j == job[w]
    <2> DEFINE recorded == Recorded(inst, j, outcome)
    <2>1. wpc[w] = "processing" /\ UNCHANGED <<queue, answer>> /\ job' = [job EXCEPT ![w] = None]
        BY <1>12 DEF Ends, Steps
    <2>2. PICK old \in SUBSET {k \in Jobs : result[inst][k] \in Final} :
              /\ result' = [result EXCEPT ![inst] =
                               [k \in Jobs |-> IF k \in old THEN "none" ELSE recorded[k]]]
              /\ dropped' = dropped \union old
        BY <1>0, <1>12 DEF Ends
    <2>3. j \in Jobs  BY <2>1 DEF TypeInv, Employed, InJob
    <2>4. \A k \in Jobs : recorded[k] = IF k = j /\ result[inst][j] # "none" THEN outcome
                                        ELSE result[inst][k]
        BY <1>0, <2>3 DEF Recorded, TypeInv, TypeOK
    <2> HIDE DEF recorded
    <2>5. /\ \A k \in Jobs : result'[inst][k] = IF k \in old THEN "none" ELSE recorded[k]
          /\ \A i \in Instances \ {inst} : result'[i] = result[i]
        BY <1>0, <2>2 DEF TypeInv, TypeOK
    <2>6. \A x \in Workers : job'[x] = None
        BY <1>0, <2>1 DEF TypeInv, TypeOK
    <2>7. Busy' /\ Works'  BY <2>6 DEF Busy, Works
    <2>8. \A k \in Jobs : result[inst][k] = "none" => result'[inst][k] = "none"
        BY <2>3, <2>4, <2>5
    <2>9. Emptied'  BY <1>0, <1>1, <1>3, <2>1, <2>5, <2>8 DEF RecordInv, Emptied
    <2>10. Known'
        <3>1. \A k \in old : answer[k] = "queued"
            BY <1>0, <2>2 DEF RecordInv, Known, Final
        <3>2. \A k \in Jobs : result'[inst][k] # "none" => result[inst][k] # "none" /\ k \notin old
            BY <2>5, <2>8
        <3>3. \A i \in Instances \ {inst}, k \in Jobs : result'[i][k] = "none"
            BY <2>5 DEF RecordInv, Emptied
        <3> QED BY <1>0, <2>1, <2>2, <3>1, <3>2, <3>3 DEF RecordInv, Known
    <2>11. Marked'
        <3>1. \A i \in Instances \ {inst} :
                  /\ \A m \in 1..Len(queue'[i]) : result'[i][queue'[i][m]] = "queued"
                  /\ \A l, m \in 1..Len(queue'[i]) : queue'[i][l] = queue'[i][m] => l = m
            BY <2>1, <2>5 DEF RecordInv, Marked
        <3>2. \A k \in Jobs : result[inst][k] = "queued" /\ k # j => result'[inst][k] = "queued"
            BY <2>2, <2>4, <2>5 DEF Final
        <3>3. \A m \in 1..Len(queue[inst]) : queue[inst][m] \in Jobs
            BY <1>0 DEF TypeInv, TypeOK
        <3>4. \A m \in 1..Len(queue[inst]) : queue[inst][m] # j
            <4>1. CASE Stopping(inst)
                <5>1. queue[inst] = << >>  BY <1>0, <4>1 DEF RecordInv, Emptied
                <5> QED BY <5>1
            <4>2. CASE ~Stopping(inst)
                <5>1. result[inst][j] = "running"
                    BY <1>0, <2>3, <4>2, NoneAssumption DEF RecordInv, Works
                <5> QED BY <1>0, <5>1 DEF RecordInv, Marked
            <4> QED BY <4>1, <4>2
        <3>5. \A m \in 1..Len(queue'[inst]) : result'[inst][queue'[inst][m]] = "queued"
            BY <1>0, <2>1, <3>2, <3>3, <3>4 DEF RecordInv, Marked
        <3>6. \A l, m \in 1..Len(queue'[inst]) : queue'[inst][l] = queue'[inst][m] => l = m
            BY <1>0, <2>1 DEF RecordInv, Marked
        <3> QED BY <3>1, <3>5, <3>6 DEF Marked
    <2> QED BY <1>2, <2>7, <2>9, <2>10, <2>11 DEF RecordInv
<1>13. CASE JobEnds(w)  BY <1>12, <1>13 DEF JobEnds
<1> QED BY <1>6, <1>7, <1>8, <1>9, <1>10, <1>11, <1>13 DEF WorkerStep

\* Nothing is queued or recorded anywhere.
Bare ==
    \A i \in Instances : queue[i] = << >> /\ \A j \in Jobs : result[i][j] = "none"

\* The end of a /stop, or its wait for the callback queue.
LEMMA UnhooksRecords ==
    ASSUME TypeInv, ServeInv, RecordInv, NEW s \in Stops, NEW i \in Instances, Unhooks(s, i),
           \A t \in Stops \ {s} : ~AtWork(t), Bare', \A w \in Workers : job[w] = None,
           \A j \in dropped' : answer[j] = "queued",
           UNCHANGED <<wpc, home, job, answer>>
    PROVE  RecordInv'
<1>1. Busy' /\ Works'  BY DEF Busy, Works
<1>2. Targeted'
    <2>1. \A t \in Stops \ {s} : target[t] = None
        BY DEF RecordInv, Targeted, AtWork
    <2>2. /\ \A t \in Stops \ {s} : target'[t] = None
          /\ spc'[s] = "callbacks" \/ target'[s] = None
        BY <2>1 DEF Unhooks, TypeInv, TypeOK
    <2> QED BY <2>2 DEF Targeted
<1>3. Emptied' /\ Known' /\ Marked'  BY DEF Bare, Emptied, Known, Marked
<1> QED BY <1>1, <1>2, <1>3 DEF RecordInv

\* While a /stop waits, what it cleared is clear.
LEMMA WaitingBare ==
    ASSUME TypeInv, ServeInv, RecordInv, NEW s \in Stops, spc[s] \in {"joining", "callbacks"}
    PROVE  inst \in Instances /\ target[s] = inst /\ Stopping(inst) /\ Bare
<1>1. inst \in Instances /\ target[s] = inst
    BY DEF ServeInv, Cleared, TypeInv, TypeOK
<1>2. Stopping(inst)  BY <1>1 DEF Stopping
<1> QED BY <1>1, <1>2 DEF RecordInv, Emptied, Bare

\* /stop.
LEMMA StopRecords ==
    ASSUME Overlaps = FALSE, TypeInv, ServeInv, RecordInv, NEW s \in Stops,
           StopEndsRound(s) \/ StopStep(s)
    PROVE  RecordInv'
<1> USE DEF instVars, taskVars, jobVars
<1>1. \A t \in Stops \ {s} : ~AtWork(t)
    <2>1. AtWork(s) \/ MayCall
        BY DEF StopEndsRound, StopStep, StopClears, StopJoined, StopEnds, AtWork
    <2> QED BY <2>1 DEF MayCall, ServeInv, OneStop
<1>2. \A t \in Stops \ {s} : target[t] = None
    BY <1>1 DEF RecordInv, Targeted, AtWork
<1>3. ASSUME \A w \in Workers : ~Alive(w) PROVE \A w \in Workers : job[w] = None
    BY <1>3, OneBusy
<1>4. CASE StopEndsRound(s)
    <2>1. /\ spc[s] = "idle" /\ spc' = [spc EXCEPT ![s] = "ending"]
          /\ UNCHANGED <<inst, queue, result, wpc, home, job, target, answer, dropped>>
        BY <1>4 DEF StopEndsRound
    <2>2. \A t \in Stops : target'[t] = None
        BY <1>2, <2>1 DEF RecordInv, Targeted
    <2>3. Targeted'  BY <2>2 DEF Targeted
    <2>4. Busy' /\ Emptied' /\ Known' /\ Marked' /\ Works'
        BY <2>1 DEF RecordInv, Busy, Emptied, Known, Marked, Works, Stopping
    <2> QED BY <2>3, <2>4 DEF RecordInv
<1>5. CASE StopClears(s)
    <2>1. spc[s] \in {"idle", "ending"} /\ UNCHANGED <<wpc, home, job, answer>>
        BY <1>5 DEF StopClears
    <2>2. target[s] = None  BY <2>1 DEF RecordInv, Targeted
    <2>3. CASE inst = None
        <3>1. /\ UNCHANGED <<inst, queue, result, target, dropped>>
            BY <1>5, <2>3 DEF StopClears
        <3>2. Targeted'  BY <1>2, <2>2, <3>1 DEF Targeted
        <3>3. Busy' /\ Emptied' /\ Known' /\ Marked' /\ Works'
            BY <2>1, <3>1 DEF RecordInv, Busy, Emptied, Known, Marked, Works, Stopping
        <3> QED BY <3>2, <3>3 DEF RecordInv
    <2>4. CASE inst # None
        <3>1. inst \in Instances  BY <2>4 DEF TypeInv, TypeOK
        <3>2. /\ queue' = [queue EXCEPT ![inst] = << >>]
              /\ result' = [result EXCEPT ![inst] = [j \in Jobs |-> "none"]]
              /\ dropped' = dropped \union {j \in Jobs : result[inst][j] # "none"}
            BY <1>5, <2>4 DEF StopClears, Clears
        <3>3. Bare'
            BY <3>1, <3>2 DEF RecordInv, Emptied, Bare, TypeInv, TypeOK
        <3>4. \A j \in dropped' : answer[j] = "queued"
            BY <3>1, <3>2 DEF RecordInv, Known
        <3>5. CASE worker[inst] # None /\ wpc[worker[inst]] # "done"
            <4>1. /\ spc' = [spc EXCEPT ![s] = "joining"]
                  /\ target' = [target EXCEPT ![s] = inst] /\ inst' = inst
                BY <1>5, <2>4, <3>5 DEF StopClears
            <4>2. target'[s] = inst /\ spc'[s] = "joining"
                  /\ \A t \in Stops \ {s} : target'[t] = None
                BY <1>2, <4>1 DEF TypeInv, TypeOK
            <4>3. Targeted'  BY <4>2 DEF Targeted
            <4>4. Emptied' /\ Known' /\ Marked'
                BY <2>1, <3>3, <3>4 DEF Bare, Emptied, Known, Marked
            <4>5. Busy'  BY <2>1 DEF RecordInv, Busy
            <4>6. Works'
                <5>1. \A w \in Workers : job[w] # None => home[w] = inst  BY OneBusy
                <5> QED BY <2>1, <4>2, <5>1 DEF Works, Stopping
            <4> QED BY <4>3, <4>4, <4>5, <4>6 DEF RecordInv
        <3>6. CASE ~(worker[inst] # None /\ wpc[worker[inst]] # "done")
            <4>1. Unhooks(s, inst)  BY <1>5, <2>4, <3>6 DEF StopClears
            <4>2. \A w \in Workers : ~Alive(w)
                BY <3>6, NoneAssumption DEF ServeInv, Staffed, Alive
            <4> QED BY <1>1, <1>3, <2>1, <3>1, <3>3, <3>4, <4>1, <4>2, UnhooksRecords
        <3> QED BY <3>5, <3>6
    <2> QED BY <2>3, <2>4
<1>6. CASE StopJoined(s)
    <2>1. /\ spc[s] = "joining" /\ wpc[awaited[s]] = "done" /\ Unhooks(s, target[s])
          /\ UNCHANGED <<queue, result, wpc, home, job, answer, dropped>>
        BY <1>6 DEF StopJoined
    <2>2. inst \in Instances /\ target[s] = inst /\ Bare  BY <2>1, WaitingBare
    <2>3. \A w \in Workers : ~Alive(w)
        BY <2>1 DEF ServeInv, Staffed, Cleared, Alive
    <2>4. Bare'  BY <2>1, <2>2 DEF Bare
    <2>5. \A j \in dropped' : answer[j] = "queued"  BY <2>1 DEF RecordInv, Known
    <2> QED BY <1>1, <1>3, <2>1, <2>2, <2>3, <2>4, <2>5, UnhooksRecords
<1>7. CASE StopEnds(s)
    <2>1. /\ spc[s] = "callbacks" /\ target' = [target EXCEPT ![s] = None]
          /\ UNCHANGED <<queue, result, wpc, home, job, answer, dropped>>
        BY <1>7 DEF StopEnds
    <2>2. Bare  BY <2>1, WaitingBare
    <2>3. \A w \in Workers : job[w] = None
        BY <1>3, <2>1 DEF ServeInv, Cleared
    <2>4. \A t \in Stops : target'[t] = None  BY <1>2, <2>1 DEF TypeInv, TypeOK
    <2>5. Targeted' /\ Busy' /\ Works'  BY <2>1, <2>3, <2>4 DEF Targeted, Busy, Works
    <2>6. Emptied' /\ Marked'  BY <2>1, <2>2 DEF Bare, Emptied, Marked
    <2>7. Known'  BY <2>1 DEF RecordInv, Known
    <2> QED BY <2>5, <2>6, <2>7 DEF RecordInv
<1> QED BY <1>4, <1>5, <1>6, <1>7 DEF StopStep

\* Every step.
LEMMA NextRecords ==
    Overlaps = FALSE => (TypeInv /\ ServeInv /\ RecordInv /\ [Next]_vars => RecordInv')
<1> SUFFICES ASSUME Overlaps = FALSE, TypeInv, ServeInv, RecordInv, [Next]_vars
             PROVE  RecordInv'
    OBVIOUS
<1>1. CASE UNCHANGED vars
    BY <1>1, SameRecords DEF vars, instVars, taskVars, stopVars, jobVars, recordVars
<1>2. ASSUME NEW w \in Workers, WorkerStep(w) \/ JobEnds(w) PROVE RecordInv'
    BY <1>2, WorkerRecords
<1> QED BY <1>1, <1>2, CallRecords, StopRecords DEF Next

----------------------------------------------------------------------------
(* The nonces of a line of jobs.                                           *)

\* SumOver is the last of them.
LEMMA SumUnfolds ==
    ASSUME NEW f, NEW seq, Len(seq) \in Nat
    PROVE  \E F : SumsOf(F, Len(seq), f, seq) /\ Service!SumOver(f, seq) = F[Len(seq)]
<1> DEFINE F == CHOOSE F : SumsOf(F, Len(seq), f, seq)
<1>1. SumsOf(F, Len(seq), f, seq)  BY SumsExist
<1>2. Service!SumOver(f, seq) = F[Len(seq)]  BY DEF Service!SumOver, SumsOf
<1> QED BY <1>1, <1>2

\* An empty line.
LEMMA SumEmpty == ASSUME NEW f PROVE Service!SumOver(f, << >>) = 0
BY SumUnfolds DEF SumsOf

\* Sums of numbers are numbers.
LEMMA SumNat ==
    ASSUME NEW f, NEW S, NEW seq \in Seq(S), \A j \in S : f[j] \in Nat
    PROVE  Service!SumOver(f, seq) \in Nat
<1>1. PICK F : SumsOf(F, Len(seq), f, seq) /\ Service!SumOver(f, seq) = F[Len(seq)]
    BY SumUnfolds
<1>2. Shifted(Len(seq), 0, f, seq, f, seq)  BY DEF Shifted
<1>3. Len(seq) \in Nat /\ Len(seq) <= Len(seq)  OBVIOUS
<1>4. \A i \in 0..Len(seq) : F[i] \in Nat  BY <1>1, <1>2, <1>3, SumsAgree
<1> QED BY <1>1, <1>3, <1>4

\* Two sums are equal as far as their terms are.
LEMMA SumSame ==
    ASSUME NEW f, NEW g, NEW S, NEW seq \in Seq(S),
           \A i \in 1..Len(seq) : f[seq[i]] \in Nat /\ f[seq[i]] = g[seq[i]]
    PROVE  Service!SumOver(f, seq) = Service!SumOver(g, seq)
<1>1. PICK F : SumsOf(F, Len(seq), f, seq) /\ Service!SumOver(f, seq) = F[Len(seq)]
    BY SumUnfolds
<1>2. PICK G : SumsOf(G, Len(seq), g, seq) /\ Service!SumOver(g, seq) = G[Len(seq)]
    BY SumUnfolds
<1>3. Len(seq) \in Nat /\ Len(seq) <= Len(seq)  OBVIOUS
<1>4. Shifted(Len(seq), 0, f, seq, g, seq)  BY DEF Shifted
<1>5. \A i \in 0..Len(seq) : F[i] \in Nat /\ G[i] = F[i]
    BY <1>1, <1>2, <1>3, <1>4, SumsAgree
<1> QED BY <1>1, <1>2, <1>3, <1>5

\* A job more at the end of the line.
LEMMA SumAppend ==
    ASSUME NEW f, NEW S, NEW seq \in Seq(S), \A j \in S : f[j] \in Nat, NEW j \in S
    PROVE  Service!SumOver(f, Append(seq, j)) = Service!SumOver(f, seq) + f[j]
<1> DEFINE t == Append(seq, j)
<1>1. t \in Seq(S) /\ Len(t) = Len(seq) + 1 /\ t[Len(seq) + 1] = j
      /\ \A i \in 1..Len(seq) : t[i] = seq[i]
    OBVIOUS
<1>2. PICK F : SumsOf(F, Len(seq), f, seq) /\ Service!SumOver(f, seq) = F[Len(seq)]
    BY SumUnfolds
<1> HIDE DEF t
<1>3. Len(t) \in Nat /\ Len(seq) \in Nat /\ Len(seq) <= Len(t)  BY <1>1
<1>4. PICK G : SumsOf(G, Len(t), f, t) /\ Service!SumOver(f, t) = G[Len(t)]
    BY <1>3, SumUnfolds
<1>5. Shifted(Len(seq), 0, f, seq, f, t)  BY <1>1 DEF Shifted
<1>6. \A i \in 0..Len(seq) : F[i] \in Nat /\ G[i] = F[i]
    BY <1>2, <1>3, <1>4, <1>5, SumsAgree
<1>7. G[Len(t)] = G[Len(seq)] + f[j]
    <2>1. Len(t) \in 0..Len(t) /\ Len(t) # 0 /\ Len(t) - 1 = Len(seq)  BY <1>1
    <2> QED BY <1>1, <1>4, <2>1 DEF SumsOf
<1>8. Service!SumOver(f, t) = Service!SumOver(f, seq) + f[j]
    BY <1>2, <1>3, <1>4, <1>6, <1>7
<1> QED BY <1>8 DEF t

\* A job more at the head of the line.
LEMMA SumCons ==
    ASSUME NEW f, NEW S, NEW seq \in Seq(S), \A j \in S : f[j] \in Nat, NEW j \in S
    PROVE  Service!SumOver(f, <<j>> \o seq) = f[j] + Service!SumOver(f, seq)
<1> DEFINE t == <<j>> \o seq
<1>1. t \in Seq(S) /\ Len(t) = Len(seq) + 1 /\ t[1] = j
      /\ \A i \in 1..Len(seq) : t[i + 1] = seq[i]
    OBVIOUS
<1>2. PICK F : SumsOf(F, Len(seq), f, seq) /\ Service!SumOver(f, seq) = F[Len(seq)]
    BY SumUnfolds
<1> HIDE DEF t
<1>0. Len(t) \in Nat /\ Len(seq) \in Nat  BY <1>1
<1>3. PICK G : SumsOf(G, Len(t), f, t) /\ Service!SumOver(f, t) = G[Len(t)]
    BY <1>0, SumUnfolds
<1>4. Shifted(Len(seq), 1, f, seq, f, t)  BY <1>1 DEF Shifted
<1>5. f[t[1]] \in Nat /\ f[t[1]] = f[j]  BY <1>1
<1>6. G[Len(seq) + 1] = f[t[1]] + F[Len(seq)]
    <2>1. Len(seq) < Len(t)  BY <1>1
    <2> QED BY <1>0, <1>2, <1>3, <1>4, <1>5, <2>1, SumsBehind
<1>7. Service!SumOver(f, t) = f[j] + Service!SumOver(f, seq)
    BY <1>1, <1>2, <1>3, <1>5, <1>6
<1> QED BY <1>7 DEF t

----------------------------------------------------------------------------
(* The refinement.                                                         *)

\* An instance that has not been made counts nothing.
Fresh == \A i \in Instances : i \notin made => nonces[i] = 0

CountInv == Fresh /\ NonceAccounting

\* What JobService sees, in the cases the steps distinguish.
Seen ==
    /\ Status = [j \in Jobs |-> Status[j]]
    /\ \A j \in Jobs :
          /\ answer[j] = "none" => Status[j] = "new"
          /\ answer[j] = "refused" => Status[j] = "refused"
          /\ answer[j] = "queued" =>
                Status[j] = IF inst = None THEN "forgotten"
                            ELSE IF result[inst][j] = "none" THEN "forgotten"
                            ELSE result[inst][j]
    /\ Line \in Seq(Jobs)
    /\ inst = None \/ Stopping(inst) => Line = <<>>
    /\ inst # None /\ ~Stopping(inst) =>
          /\ (\A w \in Workers : job[w] = None) => Line = queue[inst]
          /\ \A w \in Workers : job[w] # None => Line = <<job[w]>> \o queue[inst]

\* The mapping, case by case.
LEMMA WhatIsSeen == TypeInv /\ ServeInv /\ RecordInv => Seen
<1> SUFFICES ASSUME TypeInv, ServeInv, RecordInv PROVE Seen  OBVIOUS
<1>1. Status = [j \in Jobs |-> Status[j]]  BY DEF Status
<1>2. ASSUME NEW j \in Jobs
      PROVE  /\ answer[j] = "none" => Status[j] = "new"
             /\ answer[j] = "refused" => Status[j] = "refused"
             /\ answer[j] = "queued" =>
                   Status[j] = IF inst = None THEN "forgotten"
                               ELSE IF result[inst][j] = "none" THEN "forgotten"
                               ELSE result[inst][j]
    <2>1. inst # None => inst \in Instances  BY DEF TypeInv, TypeOK
    <2>2. j \in dropped /\ inst # None => result[inst][j] = "none"
        BY <2>1 DEF RecordInv, Known
    <2> QED BY <2>2 DEF Status
<1>3. inst = None \/ Stopping(inst) => Line = << >>
    <2>1. CASE inst = None  BY <2>1 DEF Line
    <2>2. CASE inst # None /\ Stopping(inst)
        <3>1. queue[inst] = << >>  BY <2>2 DEF TypeInv, TypeOK, RecordInv, Emptied
        <3> QED BY <2>2, <3>1 DEF Line
    <2> QED BY <2>1, <2>2
<1>4. ASSUME inst # None, ~Stopping(inst)
      PROVE  /\ queue[inst] \in Seq(Jobs)
             /\ (\A w \in Workers : job[w] = None) => Line = queue[inst]
             /\ \A w \in Workers : job[w] # None => Line = <<job[w]>> \o queue[inst]
    <2>1. inst \in Instances /\ queue[inst] \in Seq(Jobs)
          /\ worker[inst] \in Workers \union {None}
        BY <1>4 DEF TypeInv, TypeOK
    <2>2. ASSUME \A w \in Workers : job[w] = None PROVE Line = queue[inst]
        <3>1. ~(worker[inst] # None /\ job[worker[inst]] # None)  BY <2>1, <2>2
        <3>2. Line = << >> \o queue[inst]  BY <1>4, <3>1 DEF Line
        <3> QED BY <2>1, <3>2
    <2>3. ASSUME NEW w \in Workers, job[w] # None PROVE Line = <<job[w]>> \o queue[inst]
        <3>1. worker[inst] = w /\ w # None  BY <2>3, OneBusy, NoneAssumption
        <3> QED BY <1>4, <2>3, <3>1 DEF Line
    <2> QED BY <2>1, <2>2, <2>3
<1>5. Line \in Seq(Jobs)
    <2>1. \A w \in Workers : job[w] # None => job[w] \in Jobs  BY DEF TypeInv, TypeOK
    <2>2. CASE inst = None \/ Stopping(inst)
        <3>1. << >> \in Seq(Jobs)  OBVIOUS
        <3> QED BY <1>3, <2>2, <3>1
    <2>3. CASE inst # None /\ ~Stopping(inst) /\ \A w \in Workers : job[w] = None
        BY <1>4, <2>3
    <2>4. ASSUME inst # None, ~Stopping(inst), NEW w \in Workers, job[w] # None
          PROVE  Line \in Seq(Jobs)
        <3>1. job[w] \in Jobs /\ queue[inst] \in Seq(Jobs)  BY <1>4, <2>1, <2>4
        <3>2. <<job[w]>> \o queue[inst] \in Seq(Jobs)  BY <3>1
        <3> QED BY <1>4, <2>4, <3>2
    <2> QED BY <2>2, <2>3, <2>4
<1> QED BY <1>1, <1>2, <1>3, <1>4, <1>5 DEF Seen

\* The state before and after a step, as the lemmas below assume it.
Reach == TypeInv /\ ServeInv /\ RecordInv /\ Seen

\* Jobs have numbers of nonces.
LEMMA LoadNat == TypeInv => \A j \in Jobs : load[j] \in Nat
<1> SUFFICES ASSUME TypeInv, NEW j \in Jobs PROVE load[j] \in Nat  OBVIOUS
<1>1. load[j] \in Loads \union {0}  BY DEF TypeInv, TypeOK
<1>2. \A n \in Loads \union {0} : n \in Nat  BY BoundsAssumption
<1> QED BY <1>1, <1>2

\* Nothing has been accepted at the beginning.
LEMMA InitMaps == Init => Service!Init /\ CountInv
<1> SUFFICES ASSUME Init PROVE Service!Init /\ CountInv  OBVIOUS
<1>1. Line = << >>  BY DEF Init, Line
<1>2. Status = [j \in Jobs |-> "new"]  BY DEF Init, Status
<1>3. CountInv  BY DEF Init, CountInv, Fresh, NonceAccounting
<1> QED BY <1>1, <1>2, <1>3 DEF Service!Init, Init

\* An accepted job goes to the end of the line.
LEMMA AcceptMaps ==
    ASSUME Reach, Reach', CountInv, \A s \in Stops : ~AtWork(s),
           NEW j \in Jobs, NEW i \in Instances, NEW n \in Loads, answer[j] = "none",
           GetQueue(i), Accept(j, i, n), UNCHANGED <<spc, target, dropped>>
    PROVE  Service!Accept(j, n) /\ CountInv'
<1>1. inst' = i /\ made' = made \union {i} /\ (IF inst = None THEN i \notin made ELSE i = inst)
    BY DEF GetQueue
<1>2. i # None /\ ~Stopping(i) /\ ~Stopping(i)'
    BY NoneAssumption, QuietTargets DEF Reach, Stopping
<1>3. /\ answer' = [answer EXCEPT ![j] = "queued"]
      /\ load' = [load EXCEPT ![j] = n]
      /\ nonces' = [nonces EXCEPT ![i] = @ + n]
      /\ result' = [result EXCEPT ![i][j] = "queued"]
      /\ queue' = [queue EXCEPT ![i] = Append(@, j)]
      /\ job' = job /\ nonces[i] + n <= MaxNonces
    BY DEF Accept
<1>4. queue[i] \in Seq(Jobs) /\ result[i][j] = "none"
      /\ (\A m \in 1..Len(queue[i]) : queue[i][m] # j)
      /\ \A w \in Workers : job[w] # None => job[w] \in Jobs \ {j}
    <2>1. queue[i] \in Seq(Jobs)  BY DEF Reach, TypeInv, TypeOK
    <2>2. result[i][j] = "none" /\ (\A m \in 1..Len(queue[i]) : queue[i][m] # j)
        BY Unseen DEF Reach
    <2>3. ASSUME NEW w \in Workers, job[w] # None PROVE job[w] \in Jobs \ {j}
        <3>1. inst \in Instances /\ home[w] = inst /\ job[w] \in Jobs
            <4>1. inst \in Instances /\ home[w] = inst  BY <2>3, OneBusy DEF Reach
            <4>2. job[w] \in Jobs  BY <2>3 DEF Reach, TypeInv, TypeOK
            <4> QED BY <4>1, <4>2
        <3>2. result[inst][job[w]] = "running"
            BY <2>3, <3>1, QuietTargets DEF Reach, RecordInv, Works
        <3> QED BY <3>1, <3>2, Unseen DEF Reach
    <2> QED BY <2>1, <2>2, <2>3
<1>5. Status' = [Status EXCEPT ![j] = "queued"] /\ Status[j] = "new"
    <2>1. Status[j] = "new"  BY DEF Reach, Seen
    <2>2. Status'[j] = "queued"  BY <1>1, <1>2, <1>3 DEF Reach, Seen, TypeInv, TypeOK
    <2>3. ASSUME NEW k \in Jobs \ {j} PROVE Status'[k] = Status[k]
        <3>1. answer'[k] = answer[k] /\ answer[k] \in {"none", "queued", "refused"}
            BY <1>3 DEF Reach, TypeInv, TypeOK
        <3>2. result'[i][k] = result[i][k]  BY <1>3 DEF Reach, TypeInv, TypeOK
        <3>3. inst = None => result[i][k] = "none"
            BY <1>2 DEF Reach, RecordInv, Emptied
        <3> QED BY <1>1, <1>2, <3>1, <3>2, <3>3 DEF Reach, Seen
    <2>4. /\ Status = [k \in Jobs |-> Status[k]]
          /\ Status' = [k \in Jobs |-> Status'[k]]
        BY DEF Reach, Seen
    <2> QED BY <2>1, <2>2, <2>3, <2>4
<1>6. Line' = Append(Line, j) /\ (\A m \in 1..Len(Line) : Line[m] # j)
    <2>1. queue'[i] = Append(queue[i], j)  BY <1>3 DEF Reach, TypeInv, TypeOK
    <2>2. CASE inst = None
        <3>1. Line = << >> /\ queue[i] = << >>  BY <1>2, <2>2 DEF Reach, Seen, RecordInv, Emptied
        <3>2. \A w \in Workers : job'[w] = None
            BY <1>3, <2>2, NoneAssumption, OneBusy DEF Reach
        <3> QED BY <1>1, <1>2, <2>1, <3>1, <3>2 DEF Reach, Seen
    <2>3. CASE inst = i /\ \A w \in Workers : job[w] = None
        <3>1. Line = queue[i] /\ Line' = queue'[i]
            BY <1>1, <1>2, <1>3, <2>3 DEF Reach, Seen
        <3> QED BY <1>4, <2>1, <3>1
    <2>4. ASSUME inst = i, NEW w \in Workers, job[w] # None
          PROVE  Line' = Append(Line, j) /\ \A m \in 1..Len(Line) : Line[m] # j
        <3>1. Line = <<job[w]>> \o queue[i] /\ Line' = <<job[w]>> \o queue'[i]
            BY <1>1, <1>2, <1>3, <2>4 DEF Reach, Seen
        <3>2. job[w] \in Jobs \ {j}  BY <1>4, <2>4
        <3> QED BY <1>4, <2>1, <3>1, <3>2
    <2> QED BY <1>1, <2>2, <2>3, <2>4
<1>7. nonces[i] = Service!Total
    <2>1. CASE inst = None
        <3>1. nonces[i] = 0  BY <1>1, <2>1 DEF CountInv, Fresh
        <3>2. Line = << >>  BY <2>1 DEF Reach, Seen
        <3> QED BY <3>1, <3>2, SumEmpty DEF Service!Total
    <2>2. CASE inst = i
        BY <1>2, <2>2 DEF CountInv, NonceAccounting
    <2> QED BY <1>1, <2>1, <2>2
<1>8. Service!Total' = Service!Total + n
    <2>1. n \in Nat /\ Line \in Seq(Jobs) /\ \A k \in Jobs : load[k] \in Nat
        BY BoundsAssumption, LoadNat DEF Reach, Seen
    <2>2. load'[j] = n /\ \A k \in Jobs \ {j} : load'[k] = load[k]
        BY <1>3 DEF Reach, TypeInv, TypeOK
    <2>3. \A k \in Jobs : load'[k] \in Nat  BY <2>1, <2>2
    <2>4. Service!SumOver(load', Append(Line, j)) = Service!SumOver(load', Line) + n
        BY <2>1, <2>2, <2>3, SumAppend
    <2>5. \A m \in 1..Len(Line) : load[Line[m]] \in Nat /\ load[Line[m]] = load'[Line[m]]
        <3>1. \A m \in 1..Len(Line) : Line[m] \in Jobs \ {j}  BY <1>6, <2>1
        <3> QED BY <2>1, <2>2, <3>1
    <2>6. Service!SumOver(load', Line) = Service!SumOver(load, Line)
        BY <2>1, <2>5, SumSame
    <2> QED BY <1>6, <2>4, <2>6 DEF Service!Total
<1>9. nonces'[i] = nonces[i] + n /\ \A k \in Instances \ {i} : nonces'[k] = nonces[k]
    BY <1>3 DEF Reach, TypeInv, TypeOK
<1>10. CountInv'
    BY <1>1, <1>7, <1>8, <1>9 DEF CountInv, Fresh, NonceAccounting
<1>11. Service!Accept(j, n)
    BY <1>3, <1>5, <1>6, <1>7 DEF Service!Accept, Service!Fits
<1> QED BY <1>10, <1>11

\* Nothing that can be seen changes.
Stays == UNCHANGED <<Status, load, Line>>

\* get_queue, with or without a refusal.
LEMMA RefuseMaps ==
    ASSUME Reach, Reach', CountInv, \A s \in Stops : ~AtWork(s),
           NEW i \in Instances, GetQueue(i),
           UNCHANGED <<nonces, queue, result, job, load, spc, target>>
    PROVE  /\ Line' = Line /\ CountInv'
           /\ inst # None \/ i \notin made
           /\ \A k \in Jobs : answer'[k] = answer[k] => Status'[k] = Status[k]
<1>1. inst' = i /\ made' = made \union {i} /\ (IF inst = None THEN i \notin made ELSE i = inst)
    BY DEF GetQueue
<1>2. i # None /\ ~Stopping(i) /\ ~Stopping(i)'
    BY NoneAssumption, QuietTargets DEF Reach, Stopping
<1>3. Line' = Line
    <2>1. CASE inst = None
        <3>1. Line = << >> /\ queue[i] = << >>  BY <1>2, <2>1 DEF Reach, Seen, RecordInv, Emptied
        <3>2. \A w \in Workers : job'[w] = None
            BY <2>1, NoneAssumption, OneBusy DEF Reach
        <3> QED BY <1>1, <1>2, <3>1, <3>2 DEF Reach, Seen
    <2>2. CASE inst = i /\ \A w \in Workers : job[w] = None
        BY <1>1, <1>2, <2>2 DEF Reach, Seen
    <2>3. ASSUME inst = i, NEW w \in Workers, job[w] # None PROVE Line' = Line
        <3>1. Line = <<job[w]>> \o queue[i]  BY <1>2, <2>3 DEF Reach, Seen
        <3>2. job'[w] # None /\ inst' = i  BY <1>1, <2>3
        <3>3. Line' = <<job'[w]>> \o queue'[i]  BY <1>2, <3>2 DEF Reach, Seen
        <3> QED BY <3>1, <3>3
    <2> QED BY <1>1, <2>1, <2>2, <2>3
<1>4. ASSUME NEW k \in Jobs, answer'[k] = answer[k] PROVE Status'[k] = Status[k]
    <2>1. answer[k] \in {"none", "queued", "refused"}  BY DEF Reach, TypeInv, TypeOK
    <2>2. inst = None => result[i][k] = "none"  BY <1>2 DEF Reach, RecordInv, Emptied
    <2> QED BY <1>1, <1>2, <1>4, <2>1, <2>2 DEF Reach, Seen
<1>5. CountInv'
    <2>1. Fresh'  BY <1>1 DEF CountInv, Fresh
    <2>2. Service!Total' = Service!Total  BY <1>3 DEF Service!Total
    <2>3. inst = None => nonces[i] = Service!Total
        <3>1. ASSUME inst = None PROVE nonces[i] = Service!Total
            <4>1. nonces[i] = 0  BY <1>1, <3>1 DEF CountInv, Fresh
            <4>2. Line = << >>  BY <3>1 DEF Reach, Seen
            <4> QED BY <4>1, <4>2, SumEmpty DEF Service!Total
        <3> QED BY <3>1
    <2>4. inst = i => nonces[i] = Service!Total
        BY <1>2 DEF CountInv, NonceAccounting
    <2>5. NonceAccounting'  BY <1>1, <2>2, <2>3, <2>4 DEF NonceAccounting
    <2> QED BY <2>1, <2>5 DEF CountInv
<1> QED BY <1>1, <1>3, <1>4, <1>5

\* The state functions keep their values where the variables they read do.
LEMMA SameSeen ==
    ASSUME Reach, Reach', CountInv,
           UNCHANGED <<inst, made, nonces, queue, result, worker, job, target, load, answer,
                       dropped>>
    PROVE  Stays /\ CountInv'
<1>1. Stays  BY DEF Stays, Status, Line, Stopping
<1>2. Service!Total' = Service!Total  BY <1>1 DEF Stays, Service!Total
<1> QED BY <1>1, <1>2 DEF CountInv, Fresh, NonceAccounting, Stopping

\* Calls, when they wait for a /stop at work.
LEMMA CallMaps ==
    ASSUME Overlaps = FALSE, Reach, Reach', CountInv,
           (\E j \in Jobs : Post(j)) \/ Look \/ MiningStarts \/ MiningCrashes \/ Reraises
    PROVE  [Service!Next]_<<Status, load, Line>> /\ CountInv'
<1> USE DEF instVars, taskVars, stopVars, jobVars, MayCall
<1>1. ASSUME NEW j \in Jobs, Post(j)
      PROVE  [Service!Next]_<<Status, load, Line>> /\ CountInv'
    <2>1. PICK i \in Instances, n \in Loads : GetQueue(i) /\ (Accept(j, i, n) \/ Refuse(j, i, n))
        BY <1>1 DEF Post
    <2>2. (\A s \in Stops : ~AtWork(s)) /\ answer[j] = "none"
          /\ UNCHANGED <<spc, target, dropped>>
        BY <1>1 DEF Post
    <2>3. CASE Accept(j, i, n)
        <3>1. Service!Accept(j, n) /\ CountInv'  BY <2>1, <2>2, <2>3, AcceptMaps
        <3> QED BY <3>1 DEF Service!Next
    <2>4. CASE Refuse(j, i, n)
        <3>1. /\ nonces[i] + n > MaxNonces /\ answer' = [answer EXCEPT ![j] = "refused"]
              /\ UNCHANGED <<nonces, queue, result, job, load>>
            BY <2>4 DEF Refuse
        <3>2. /\ Line' = Line /\ CountInv'
              /\ inst # None \/ i \notin made
              /\ \A k \in Jobs : answer'[k] = answer[k] => Status'[k] = Status[k]
            BY <2>1, <2>2, <3>1, RefuseMaps
        <3>3. inst' = i /\ i # None /\ ~Stopping(i)'
            <4>1. inst' = i  BY <2>1 DEF GetQueue
            <4> QED BY <2>2, <4>1, NoneAssumption, QuietTargets DEF Reach, Stopping
        <3>4. ~(Service!Total + n <= MaxNonces)
            <4>1. nonces[i] = Service!Total
                <5>1. nonces'[i] = Service!Total'
                    BY <3>2, <3>3 DEF CountInv, NonceAccounting
                <5> QED BY <3>1, <3>2, <5>1 DEF Service!Total
            <4>2. nonces[i] \in Nat /\ n \in Nat /\ MaxNonces \in Nat
                BY BoundsAssumption DEF Reach, TypeInv, TypeOK
            <4> QED BY <3>1, <4>1, <4>2
        <3>5. Status' = [Status EXCEPT ![j] = "refused"] /\ Status[j] = "new"
            <4>1. Status[j] = "new"  BY <2>2 DEF Reach, Seen
            <4>2. answer'[j] = "refused" /\ \A k \in Jobs \ {j} : answer'[k] = answer[k]
                BY <3>1 DEF Reach, TypeInv, TypeOK
            <4>3. Status'[j] = "refused"  BY <4>2 DEF Reach, Seen
            <4>4. /\ Status = [k \in Jobs |-> Status[k]]
                  /\ Status' = [k \in Jobs |-> Status'[k]]
                BY DEF Reach, Seen
            <4> QED BY <3>2, <4>1, <4>2, <4>3, <4>4
        <3>6. Service!Refuse(j, n)
            BY <3>1, <3>2, <3>4, <3>5 DEF Service!Refuse, Service!Fits
        <3> QED BY <3>2, <3>6 DEF Service!Next
    <2> QED BY <2>1, <2>3, <2>4
<1>2. CASE Look
    <2>1. PICK i \in Instances : GetQueue(i)  BY <1>2 DEF Look
    <2>2. (\A s \in Stops : ~AtWork(s))
          /\ UNCHANGED <<nonces, queue, result, job, load, spc, target, answer>>
        BY <1>2 DEF Look
    <2>3. Line' = Line /\ CountInv' /\ \A k \in Jobs : Status'[k] = Status[k]
        BY <2>1, <2>2, RefuseMaps
    <2>4. Status' = Status
        <3>1. /\ Status = [k \in Jobs |-> Status[k]]
              /\ Status' = [k \in Jobs |-> Status'[k]]
            BY DEF Reach, Seen
        <3> QED BY <2>3, <3>1
    <2> QED BY <2>2, <2>3, <2>4
<1>3. CASE MiningStarts \/ MiningCrashes \/ Reraises
    <2>1. Stays /\ CountInv'
        BY <1>3, SameSeen DEF MiningStarts, MiningCrashes, Reraises
    <2> QED BY <2>1 DEF Stays
<1> QED BY <1>1, <1>2, <1>3

\* A worker's step that only the worker sees.
LEMMA WorkerStays ==
    ASSUME Reach, Reach', CountInv, NEW w \in Workers, home[w] = inst, inst \in Instances,
           UNCHANGED <<inst, made, queue, result, worker, target, load, answer, dropped>>,
           \/ Pays(inst, job[w]) /\ Stopping(inst)
           \/ UNCHANGED <<nonces, job>>
    PROVE  Stays /\ CountInv'
<1>1. CASE UNCHANGED <<nonces, job>>  BY <1>1, SameSeen
<1>2. CASE Pays(inst, job[w]) /\ Stopping(inst)
    <2>1. Stopping(inst)'  BY <1>2 DEF Stopping
    <2>2. Line = << >> /\ Line' = << >>  BY <1>2, <2>1 DEF Reach, Seen
    <2>3. Status' = Status  BY DEF Status
    <2>4. inst \in made  BY NoneAssumption DEF Reach, ServeInv, Created
    <2>5. Fresh'  BY <1>2, <2>4 DEF CountInv, Fresh, Pays, Reach, TypeInv, TypeOK
    <2>6. NonceAccounting'  BY <2>1 DEF NonceAccounting
    <2> QED BY <2>2, <2>3, <2>5, <2>6 DEF Stays, CountInv
<1> QED BY <1>1, <1>2

\* The worker: a job it takes starts, a job that ends finishes, the rest is not seen.
LEMMA WorkerMaps ==
    ASSUME Reach, Reach', CountInv, NEW w \in Workers, WorkerStep(w) \/ JobEnds(w)
    PROVE  [Service!Next]_<<Status, load, Line>> /\ CountInv'
<1> USE DEF stopVars
<1>0. /\ Alive(w) /\ inst \in Instances /\ home[w] = inst /\ worker[inst] = w
      /\ inst \in made /\ inst # None
      /\ \A x \in Workers \ {w} : job[x] = None
      /\ UNCHANGED <<inst, made, worker, home, target>>
    <2>1. Effect(w)  BY WorkerEffect DEF Reach
    <2>2. Alive(w) /\ inst \in Instances /\ home[w] = inst /\ worker[inst] = w /\ inst \in made
        BY <2>1 DEF Effect, Reach, ServeInv, Staffed, Created, TypeInv, TypeOK
    <2> QED BY <2>1, <2>2, OneBusy, NoneAssumption DEF Effect, Reach
<1>1. Stopping(inst)' <=> Stopping(inst)  BY <1>0 DEF Stopping
<1>2. ASSUME Stays /\ CountInv'
      PROVE  [Service!Next]_<<Status, load, Line>> /\ CountInv'
    BY <1>2 DEF Stays
<1>3. job[w] # None => wpc[w] \in InJob /\ job[w] \in Jobs
    BY DEF Reach, RecordInv, Busy, TypeInv, TypeOK
<1>4. stopped[inst] => Stopping(inst)
    <2> SUFFICES ASSUME stopped[inst] PROVE Stopping(inst)  OBVIOUS
    <2>1. PICK s \in Stops : spc[s] \in {"joining", "callbacks"}
        BY <1>0 DEF Reach, ServeInv, StopWaits
    <2> QED BY <2>1, WaitingBare DEF Reach
<1>5. cancel[w] \/ wpc[w] = "dying" => Stopping(inst)
    <2> SUFFICES ASSUME cancel[w] \/ wpc[w] = "dying" PROVE Stopping(inst)  OBVIOUS
    <2>1. PICK s \in Stops : spc[s] = "joining"
        BY DEF Reach, ServeInv, Cancels
    <2> QED BY <2>1, WaitingBare DEF Reach
<1>6. CASE Begins(w) \/ TimesOut(w)
    <2>1. UNCHANGED <<queue, result, load, answer, dropped, nonces, job>>
        BY <1>6 DEF Begins, TimesOut, Steps
    <2> QED BY <1>0, <1>2, <2>1, SameSeen
<1>7. CASE WaitEnds(w)
    <2>1. UNCHANGED <<queue, result, load, answer, dropped>>  BY <1>7 DEF WaitEnds, Steps
    <2>2. \/ Pays(inst, job[w]) /\ Stopping(inst)
          \/ UNCHANGED <<nonces, job>>
        BY <1>0, <1>4, <1>7 DEF WaitEnds
    <2> QED BY <1>0, <1>2, <2>1, <2>2, WorkerStays
<1>8. CASE Cancelled(w)
    <2>1. UNCHANGED <<queue, result, load, answer, dropped>>  BY <1>8 DEF Cancelled, jobVars
    <2>2. cancel[w] /\ job' = [job EXCEPT ![w] = None]
          /\ IF job[w] = None THEN UNCHANGED nonces ELSE Pays(inst, job[w])
        BY <1>0, <1>8 DEF Cancelled
    <2>3. CASE job[w] = None
        <3>1. job' = job /\ nonces' = nonces  BY <2>2, <2>3 DEF Reach, TypeInv, TypeOK
        <3> QED BY <1>0, <1>2, <2>1, <3>1, WorkerStays
    <2>4. CASE job[w] # None
        <3>1. Pays(inst, job[w]) /\ Stopping(inst)  BY <1>5, <2>2, <2>4
        <3> QED BY <1>0, <1>2, <2>1, <3>1, WorkerStays
    <2> QED BY <2>3, <2>4
<1>9. CASE CancelledJob(w)
    <2>1. UNCHANGED <<queue, result, load, answer, dropped, nonces, job>>
        BY <1>9 DEF CancelledJob, instVars, jobVars
    <2> QED BY <1>0, <1>2, <2>1, SameSeen
<1>10. CASE Dies(w)
    <2>1. UNCHANGED <<queue, result, load, answer, dropped>>  BY <1>10 DEF Dies, Steps
    <2>2. Pays(inst, job[w]) /\ Stopping(inst)  BY <1>0, <1>5, <1>10 DEF Dies, Steps
    <2> QED BY <1>0, <1>2, <2>1, <2>2, WorkerStays
<1>11. CASE Takes(w)
    <2> DEFINE j == Head(queue[inst])
    <2>1. /\ wpc[w] = "get" /\ queue[inst] # << >> /\ UNCHANGED <<answer, dropped, load>>
          /\ queue' = [queue EXCEPT ![inst] = Tail(@)]
          /\ result' = [result EXCEPT ![inst] = Recorded(inst, j, "running")]
        BY <1>0, <1>11 DEF Takes, Steps
    <2>2. ~stopped[inst] /\ ~Stopping(inst)
        BY <1>0, <2>1 DEF Reach, ServeInv, Attended, RecordInv, Emptied
    <2>3. job' = [job EXCEPT ![w] = j] /\ nonces' = nonces
        BY <1>0, <1>11, <2>2 DEF Takes
    <2>4. queue[inst] \in Seq(Jobs) /\ j \in Jobs
        BY <1>0, <2>1 DEF Reach, TypeInv, TypeOK
    <2>5. /\ job'[w] = j /\ queue'[inst] = Tail(queue[inst])
          /\ \A x \in Workers : job[x] = None
        BY <1>0, <1>3, <2>1, <2>3 DEF InJob, Reach, TypeInv, TypeOK
    <2>6. Line = queue[inst] /\ Line' = <<j>> \o Tail(queue[inst])
        <3>1. Line = queue[inst]  BY <1>0, <2>2, <2>5 DEF Reach, Seen
        <3>2. j # None  BY <2>4, NoneAssumption
        <3>3. Line' = <<job'[w]>> \o queue'[inst]
            BY <1>0, <1>1, <2>2, <2>5, <3>2 DEF Reach, Seen
        <3> QED BY <2>5, <3>1, <3>3
    <2>7. Line' = Line /\ Head(Line) = j /\ Line # << >>  BY <2>1, <2>4, <2>6
    <2>8. result[inst][j] = "queued"
        <3>1. 1 \in 1..Len(queue[inst]) /\ j = queue[inst][1]  BY <2>1, <2>4
        <3> QED BY <1>0, <3>1 DEF Reach, RecordInv, Marked
    <2> HIDE DEF j
    <2>9. result'[inst][j] = "running" /\ \A k \in Jobs \ {j} : result'[inst][k] = result[inst][k]
        BY <1>0, <2>1, <2>4, <2>8 DEF Recorded, Reach, TypeInv, TypeOK
    <2>10. answer[j] = "queued"  BY <1>0, <2>4, <2>8 DEF Reach, RecordInv, Known
    <2>11. Status[j] = "queued" /\ Status'[j] = "running"
        BY <1>0, <2>1, <2>4, <2>8, <2>9, <2>10 DEF Reach, Seen
    <2>12. ASSUME NEW k \in Jobs \ {j} PROVE Status'[k] = Status[k]
        <3>1. answer[k] \in {"none", "queued", "refused"}  BY DEF Reach, TypeInv, TypeOK
        <3> QED BY <1>0, <2>1, <2>9, <3>1 DEF Reach, Seen
    <2>13. Status' = [Status EXCEPT ![j] = "running"]
        <3>1. /\ Status = [k \in Jobs |-> Status[k]]
              /\ Status' = [k \in Jobs |-> Status'[k]]
            BY DEF Reach, Seen
        <3> QED BY <2>11, <2>12, <3>1
    <2>14. Service!Start  BY <2>1, <2>7, <2>11, <2>13 DEF Service!Start
    <2>15. CountInv'
        <3>1. Service!Total' = Service!Total  BY <2>1, <2>7 DEF Service!Total
        <3> QED BY <1>0, <1>1, <2>3, <3>1 DEF CountInv, Fresh, NonceAccounting
    <2> QED BY <2>14, <2>15 DEF Service!Next
<1>12. ASSUME NEW outcome \in Final, Ends(w, outcome)
       PROVE  [Service!Next]_<<Status, load, Line>> /\ CountInv'
    <2> DEFINE j == job[w]
    <2> DEFINE recorded == Recorded(inst, j, outcome)
    <2>1. /\ wpc[w] = "processing" /\ UNCHANGED <<queue, answer, load>>
          /\ job' = [job EXCEPT ![w] = None] /\ Pays(inst, j)
        BY <1>0, <1>12 DEF Ends, Steps
    <2>2. PICK old \in SUBSET {k \in Jobs : result[inst][k] \in Final} :
              /\ result' = [result EXCEPT ![inst] =
                               [k \in Jobs |-> IF k \in old THEN "none" ELSE recorded[k]]]
              /\ dropped' = dropped \union old
        BY <1>0, <1>12 DEF Ends
    <2>3. j \in Jobs /\ j # None
        BY <2>1, NoneAssumption DEF Reach, TypeInv, Employed, InJob
    <2>4. \A k \in Jobs : recorded[k] = IF k = j /\ result[inst][j] # "none" THEN outcome
                                        ELSE result[inst][k]
        BY <1>0, <2>3 DEF Recorded, Reach, TypeInv, TypeOK
    <2> HIDE DEF recorded
    <2>5. \A k \in Jobs : result'[inst][k] = IF k \in old THEN "none" ELSE recorded[k]
        BY <1>0, <2>2 DEF Reach, TypeInv, TypeOK
    <2>6. CASE Stopping(inst)
        <3>1. \A k \in Jobs : result[inst][k] = "none" /\ result'[inst][k] = "none"
            BY <1>0, <1>1, <2>6 DEF Reach, RecordInv, Emptied
        <3>2. Line = << >> /\ Line' = << >>  BY <1>1, <1>0, <2>6 DEF Reach, Seen
        <3>3. \A k \in Jobs : Status'[k] = Status[k]
            <4> SUFFICES ASSUME NEW k \in Jobs PROVE Status'[k] = Status[k]  OBVIOUS
            <4>1. answer[k] \in {"none", "queued", "refused"}  BY DEF Reach, TypeInv, TypeOK
            <4> QED BY <1>0, <2>1, <3>1, <4>1 DEF Reach, Seen
        <3>4. /\ Status = [k \in Jobs |-> Status[k]]
              /\ Status' = [k \in Jobs |-> Status'[k]]
            BY DEF Reach, Seen
        <3>5. Stays  BY <2>1, <3>2, <3>3, <3>4 DEF Stays
        <3>6. Fresh'
            BY <1>0, <2>1 DEF CountInv, Fresh, Pays, Reach, TypeInv, TypeOK
        <3>7. NonceAccounting'  BY <1>0, <1>1, <2>6 DEF NonceAccounting
        <3> QED BY <1>2, <3>5, <3>6, <3>7 DEF CountInv
    <2>7. CASE ~Stopping(inst)
        <3>1. result[inst][j] = "running"
            BY <1>0, <2>3, <2>7 DEF Reach, RecordInv, Works
        <3>2. queue[inst] \in Seq(Jobs)  BY <1>0 DEF Reach, TypeInv, TypeOK
        <3>3. Line = <<j>> \o queue[inst]
            BY <1>0, <2>3, <2>7 DEF Reach, Seen
        <3>4. \A x \in Workers : job'[x] = None
            BY <1>0, <2>1 DEF Reach, TypeInv, TypeOK
        <3>5. Line' = queue[inst]
            BY <1>0, <1>1, <2>1, <2>7, <3>4 DEF Reach, Seen
        <3>6. Line # << >> /\ Head(Line) = j /\ Line' = Tail(Line)
            BY <2>3, <3>2, <3>3, <3>5
        <3>7. j \notin old /\ answer[j] = "queued" /\ j \notin dropped
            BY <1>0, <2>2, <2>3, <3>1 DEF Final, Reach, RecordInv, Known
        <3>8. Status[j] = "running" /\ Status'[j] = outcome
            BY <1>0, <2>1, <2>3, <2>4, <2>5, <3>1, <3>7 DEF Reach, Seen, Final
        <3>9. \A k \in old : Status[k] \in Final /\ Status'[k] = "forgotten"
            <4> SUFFICES ASSUME NEW k \in old
                         PROVE  Status[k] \in Final /\ Status'[k] = "forgotten"
                OBVIOUS
            <4>1. k \in Jobs /\ result[inst][k] \in Final  BY <2>2
            <4>2. answer[k] = "queued"  BY <1>0, <4>1 DEF Final, Reach, RecordInv, Known
            <4> QED BY <1>0, <2>1, <2>5, <4>1, <4>2 DEF Reach, Seen, Final
        <3>10. ASSUME NEW k \in Jobs, k # j, k \notin old PROVE Status'[k] = Status[k]
            <4>1. answer[k] \in {"none", "queued", "refused"}  BY DEF Reach, TypeInv, TypeOK
            <4>2. result'[inst][k] = result[inst][k]  BY <2>4, <2>5, <3>10
            <4> QED BY <1>0, <2>1, <4>1, <4>2 DEF Reach, Seen
        <3>11. Status' = [k \in Jobs |-> IF k = Head(Line) THEN outcome
                                        ELSE IF k \in old THEN "forgotten" ELSE Status[k]]
            <4>1. Status' = [k \in Jobs |-> Status'[k]]  BY DEF Reach, Seen
            <4> QED BY <3>6, <3>8, <3>9, <3>10, <4>1
        <3>12. old \in SUBSET Jobs  BY <2>2
        <3>13. Service!Finish(outcome, old)
            BY <2>1, <3>6, <3>8, <3>9, <3>11 DEF Service!Finish, Service!Final, Final
        <3>14. CountInv'
            <4>1. \A k \in Jobs : load[k] \in Nat  BY LoadNat DEF Reach
            <4>2. Service!Total = load[j] + Service!SumOver(load, queue[inst])
                BY <2>3, <3>2, <3>3, <4>1, SumCons DEF Service!Total
            <4>3. Service!SumOver(load, queue[inst]) \in Nat  BY <3>2, <4>1, SumNat
            <4>4. Service!Total' = Service!SumOver(load, queue[inst])
                BY <2>1, <3>5 DEF Service!Total
            <4>5. nonces[inst] = Service!Total
                BY <1>0, <2>7 DEF CountInv, NonceAccounting
            <4>6. nonces'[inst] = IF nonces[inst] > load[j] THEN nonces[inst] - load[j] ELSE 0
                BY <1>0, <2>1 DEF Pays, Reach, TypeInv, TypeOK
            <4>7. nonces'[inst] = Service!Total'
                BY <2>3, <4>1, <4>2, <4>3, <4>4, <4>5, <4>6
            <4>8. Fresh'
                BY <1>0, <2>1 DEF CountInv, Fresh, Pays, Reach, TypeInv, TypeOK
            <4> QED BY <1>0, <4>7, <4>8 DEF CountInv, NonceAccounting
        <3>15. Service!Next  BY <3>12, <3>13 DEF Service!Next, Service!Final, Final
        <3> QED BY <3>14, <3>15
    <2> QED BY <2>6, <2>7
<1>13. CASE JobEnds(w)  BY <1>12, <1>13 DEF JobEnds
<1> QED BY <1>6, <1>7, <1>8, <1>9, <1>10, <1>11, <1>13 DEF WorkerStep

\* A /stop that goes on with nothing queued or recorded.
LEMMA BareStays ==
    ASSUME Reach, Reach', CountInv, Bare, inst # None, Stopping(inst), inst' = None \/ inst' = inst,
           inst' = inst => Stopping(inst)',
           UNCHANGED <<made, nonces, queue, result, load, answer>>
    PROVE  Stays /\ CountInv'
<1>1. Line = << >> /\ Line' = << >>  BY DEF Reach, Seen
<1>2. \A k \in Jobs : Status'[k] = Status[k]
    <2> SUFFICES ASSUME NEW k \in Jobs PROVE Status'[k] = Status[k]  OBVIOUS
    <2>1. answer[k] \in {"none", "queued", "refused"}  BY DEF Reach, TypeInv, TypeOK
    <2>2. inst \in Instances  BY DEF Reach, TypeInv, TypeOK
    <2> QED BY <2>1, <2>2 DEF Reach, Seen, Bare
<1>3. /\ Status = [k \in Jobs |-> Status[k]]
      /\ Status' = [k \in Jobs |-> Status'[k]]
    BY DEF Reach, Seen
<1>4. CountInv'  BY DEF CountInv, Fresh, NonceAccounting
<1> QED BY <1>1, <1>2, <1>3, <1>4 DEF Stays

\* /stop.
LEMMA StopMaps ==
    ASSUME Overlaps = FALSE, Reach, Reach', CountInv, NEW s \in Stops,
           StopEndsRound(s) \/ StopStep(s)
    PROVE  [Service!Next]_<<Status, load, Line>> /\ CountInv'
<1> USE DEF instVars, taskVars, jobVars
<1>1. ASSUME Stays /\ CountInv'
      PROVE  [Service!Next]_<<Status, load, Line>> /\ CountInv'
    BY <1>1 DEF Stays
<1>2. CASE StopEndsRound(s)
    BY <1>1, <1>2, SameSeen DEF StopEndsRound
<1>3. CASE StopClears(s)
    <2>1. CASE inst = None
        <3>1. UNCHANGED <<inst, made, nonces, queue, result, worker, job, target, load, answer,
                          dropped>>
            BY <1>3, <2>1 DEF StopClears
        <3> QED BY <1>1, <3>1, SameSeen
    <2>2. CASE inst # None
        <3>1. inst \in Instances /\ inst \in made
            BY <2>2 DEF Reach, TypeInv, TypeOK, ServeInv, Created
        <3>2. /\ nonces' = [nonces EXCEPT ![inst] = 0]
              /\ result' = [result EXCEPT ![inst] = [j \in Jobs |-> "none"]]
              /\ UNCHANGED <<made, job, load, answer>>
            BY <1>3, <2>2 DEF StopClears, Clears
        <3>3. inst' = None \/ (inst' = inst /\ Stopping(inst)')
            <4>1. CASE worker[inst] # None /\ wpc[worker[inst]] # "done"
                <5>1. target' = [target EXCEPT ![s] = inst] /\ inst' = inst
                    BY <1>3, <2>2, <4>1 DEF StopClears
                <5> QED BY <5>1 DEF Stopping, Reach, TypeInv, TypeOK
            <4>2. CASE ~(worker[inst] # None /\ wpc[worker[inst]] # "done")
                <5>1. Unhooks(s, inst)  BY <1>3, <2>2, <4>2 DEF StopClears
                <5> QED BY <5>1 DEF Unhooks, Stopping, Reach, TypeInv, TypeOK
            <4> QED BY <4>1, <4>2
        <3>4. Line' = << >>  BY <3>3 DEF Reach, Seen
        <3>5. \A k \in Jobs : result'[inst][k] = "none"
            BY <3>1, <3>2 DEF Reach, TypeInv, TypeOK
        <3>6. \A k \in Jobs : Status'[k] = IF Status[k] \in {"new", "refused"} THEN Status[k]
                                          ELSE "forgotten"
            <4> SUFFICES ASSUME NEW k \in Jobs
                         PROVE  Status'[k] = IF Status[k] \in {"new", "refused"} THEN Status[k]
                                             ELSE "forgotten"
                OBVIOUS
            <4>1. CASE answer[k] = "queued"
                <5>1. Status'[k] = "forgotten"
                    BY <3>2, <3>3, <3>5, <4>1 DEF Reach, Seen
                <5>2. Status[k] \notin {"new", "refused"}
                    <6>1. result[inst][k] \in {"none", "queued", "running"} \union Final
                        BY <3>1 DEF Reach, TypeInv, TypeOK
                    <6> QED BY <2>2, <4>1, <6>1 DEF Reach, Seen, Final
                <5> QED BY <5>1, <5>2
            <4>2. CASE answer[k] \in {"none", "refused"}
                BY <3>2, <4>2 DEF Reach, Seen
            <4> QED BY <4>1, <4>2 DEF Reach, TypeInv, TypeOK
        <3>7. Status' = [k \in Jobs |-> IF Status[k] \in {"new", "refused"} THEN Status[k]
                                       ELSE "forgotten"]
            <4>1. Status' = [k \in Jobs |-> Status'[k]]  BY DEF Reach, Seen
            <4> QED BY <3>6, <4>1
        <3>8. Service!Forget  BY <3>2, <3>4, <3>7 DEF Service!Forget
        <3>9. Fresh'
            BY <3>1, <3>2 DEF CountInv, Fresh, Reach, TypeInv, TypeOK
        <3>10. NonceAccounting'  BY <3>3 DEF NonceAccounting
        <3> QED BY <3>8, <3>9, <3>10 DEF Service!Next, CountInv
    <2> QED BY <2>1, <2>2
<1>4. CASE StopJoined(s)
    <2>1. /\ spc[s] = "joining" /\ Unhooks(s, target[s])
          /\ UNCHANGED <<made, nonces, queue, result, load, answer>>
        BY <1>4 DEF StopJoined
    <2>2. inst \in Instances /\ target[s] = inst /\ Stopping(inst) /\ Bare
        BY <2>1, WaitingBare DEF Reach
    <2>3. inst' = None \/ (inst' = inst /\ Stopping(inst)')
        BY <2>1, <2>2 DEF Unhooks, Stopping, Reach, TypeInv, TypeOK
    <2> QED BY <1>1, <2>1, <2>2, <2>3, NoneAssumption, BareStays
<1>5. CASE StopEnds(s)
    <2>1. /\ spc[s] = "callbacks" /\ inst' = None
          /\ UNCHANGED <<made, nonces, queue, result, load, answer>>
        BY <1>5 DEF StopEnds
    <2>2. inst \in Instances /\ Stopping(inst) /\ Bare
        BY <2>1, WaitingBare DEF Reach
    <2> QED BY <1>1, <2>1, <2>2, NoneAssumption, BareStays
<1> QED BY <1>2, <1>3, <1>4, <1>5 DEF StopStep

\* Every step.
LEMMA NextMaps ==
    Overlaps = FALSE =>
        (Reach /\ Reach' /\ CountInv /\ [Next]_vars =>
            [Service!Next]_<<Status, load, Line>> /\ CountInv')
<1> SUFFICES ASSUME Overlaps = FALSE, Reach, Reach', CountInv, [Next]_vars
             PROVE  [Service!Next]_<<Status, load, Line>> /\ CountInv'
    OBVIOUS
<1>1. CASE UNCHANGED vars
    <2>1. Stays /\ CountInv'
        BY <1>1, SameSeen DEF vars, instVars, taskVars, stopVars, jobVars
    <2> QED BY <2>1 DEF Stays
<1>2. ASSUME NEW w \in Workers, WorkerStep(w) \/ JobEnds(w)
      PROVE  [Service!Next]_<<Status, load, Line>> /\ CountInv'
    BY <1>2, WorkerMaps
<1> QED BY <1>1, <1>2, CallMaps, StopMaps DEF Next

\* The invariant as a theorem, for the two below.
LEMMA AlwaysReach ==
    ASSUME Overlaps = FALSE
    PROVE  Spec => []Reach
<1>1. TypeInv /\ ServeInv /\ [Next]_vars => ServeInv'  BY NextServes
<1>2. TypeInv /\ ServeInv /\ RecordInv /\ [Next]_vars => RecordInv'  BY NextRecords
<1>3. TypeInv /\ ServeInv /\ RecordInv => Reach  BY WhatIsSeen DEF Reach
<1> QED BY <1>1, <1>2, <1>3, InitTypeInv, NextTypeInv, InitServeInv, InitRecordInv, PTL DEF Spec

\* The count that bounds the queue is the nonces of the jobs that have not ended: through
\* failures, cancels and new instances no job is counted or given back twice
\* (generate_queue.py 78-91, 193-196).
THEOREM CountExact ==
    ASSUME Overlaps = FALSE
    PROVE  Spec => []NonceAccounting
<1>1. Reach /\ Reach' /\ CountInv /\ [Next]_vars => CountInv'  BY NextMaps
<1>2. CountInv => NonceAccounting  BY DEF CountInv
<1> QED BY <1>1, <1>2, AlwaysReach, InitMaps, PTL DEF Spec

\* The queue, its worker, instances and records implement JobService: one job at a time in
\* the order of acceptance, no record goes back, and none disappears but by a /stop or its
\* time to live (generate_queue.py 78-198, 324-341).
THEOREM Refinement ==
    ASSUME Overlaps = FALSE
    PROVE  Spec => ImplementsJobService
<1>1. /\ Reach /\ Reach' /\ CountInv /\ [Next]_vars => CountInv'
      /\ Reach /\ Reach' /\ CountInv /\ [Next]_vars => [Service!Next]_<<Status, load, Line>>
    BY NextMaps
<1>2. Init => Service!Init /\ CountInv  BY InitMaps
<1>3. Spec => []Reach  BY AlwaysReach
<1>4. Spec => Service!Init /\ [][Service!Next]_<<Status, load, Line>>
    BY <1>1, <1>2, <1>3, PTL DEF Spec
<1> QED BY <1>4 DEF ImplementsJobService, Service!Spec, Service!service
=============================================================================
