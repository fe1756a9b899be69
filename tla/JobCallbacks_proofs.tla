-------------------------- MODULE JobCallbacks_proofs --------------------------
(***************************************************************************)
(* Module JobCallbacks for any numbers of jobs, workers, callback queues,  *)
(* attempts and /stops: types and bounds always; and, as long as no call   *)
(* comes in the middle of a /stop, every callback is in one place, no task *)
(* posts without a session, none is leaked, and /stop leaves nothing.      *)
(***************************************************************************)
EXTENDS JobCallbacks, SequenceTheorems, FiniteSetTheorems, TLAPS

----------------------------------------------------------------------------
(* Types, and what refers to what.                                         *)

Busy == Running \union Suspended
\* Inside CallbackQueue.stop.
Inside == {"stopping", "loop", "looped", "cancelling", "gather", "closing", "close"}

GenerateQueues == [stopped : BOOLEAN, task : Nat, cbq : Nat]
Workers == [home : Nat, pc : {"born", "run", "ended"}, cancelled : BOOLEAN]
CallbackQueues ==
    [event : Nat, line : Seq(Payloads), loop : {"none", "run", "done"},
     cancelled : BOOLEAN, session : BOOLEAN, active : SUBSET Payloads]
Callbacks == [state : {"new", "over", "queued"} \union Alive, q : Nat, tries : Nat]
Requests ==
    [pc : {"idle", "done"} \union Busy, home : Nat, worker : Nat, q : Nat, last : BOOLEAN]

Types ==
    /\ queues \in Seq(GenerateQueues) /\ workers \in Seq(Workers)
    /\ objs \in Seq(CallbackQueues)
    /\ job \in [Payloads -> Callbacks] /\ stop \in [Stops -> Requests]
    /\ leaked \in BOOLEAN /\ overlapped \in BOOLEAN

Refers ==
    /\ inst \in 0..Len(queues) /\ single \in 0..Len(objs)
    /\ \A i \in 1..Len(queues) :
          queues[i].task \in 0..Len(workers) /\ queues[i].cbq \in 0..Len(objs)
    /\ \A w \in 1..Len(workers) : workers[w].home \in 1..Len(queues)
    /\ \A q \in 1..Len(objs) : objs[q].event \in 1..Len(queues)
    /\ \A p \in Payloads :
          job[p].state \in Alive \union {"queued"} => job[p].q \in 1..Len(objs)
    /\ \A s \in Stops :
          /\ stop[s].pc \in Busy => stop[s].home \in 1..Len(queues)
          /\ stop[s].pc = "join" => stop[s].worker \in 1..Len(workers)
          /\ stop[s].q \in 0..Len(objs)
          /\ stop[s].pc \in Inside => stop[s].q # 0

Typed == Types /\ Refers

\* A deque holds each callback that is queued there once, and no more than its bound.
Once(s) == \A i, j \in 1..Len(s) : s[i] = s[j] => i = j
Deques ==
    \A q \in 1..Len(objs) :
        /\ Len(objs[q].line) <= QueueSize /\ Once(objs[q].line)
        /\ \A p \in Payloads :
              (p \in Range(objs[q].line)) <=> (job[p].state = "queued" /\ job[p].q = q)

\* A POST refers to the worker it starts.
LEMMA PostTyped == Typed /\ Post => Typed'
<1> SUFFICES ASSUME Typed, Post PROVE Typed'  OBVIOUS
<1> USE DEF Typed, Types, Refers
<1> DEFINE task == Len(workers) + 1
           fresh == [stopped |-> FALSE, task |-> task, cbq |-> 0]
<1>0. {Len(queues), Len(workers), Len(objs), task} \subseteq Nat  OBVIOUS
<1>1. /\ queues' \in Seq(GenerateQueues) /\ Len(queues') >= Len(queues)
      /\ inst' \in 1..Len(queues')
      /\ \A i \in 1..Len(queues') :
            queues'[i].task \in 0..Len(workers)+1 /\ queues'[i].cbq \in 0..Len(objs)
    <2>1. CASE inst = 0
        <3>1. queues' = Append(queues, fresh) /\ inst' = Len(queues) + 1  BY <2>1 DEF Post
        <3>2. fresh \in GenerateQueues  BY DEF GenerateQueues
        <3>3. /\ fresh.task \in 0..Len(workers)+1 /\ fresh.cbq \in 0..Len(objs)
            OBVIOUS
        <3> HIDE DEF fresh
        <3> QED BY <3>1, <3>2, <3>3, AppendProperties
    <2>2. CASE inst # 0
        <3> DEFINE new == [queues[inst] EXCEPT !.stopped = FALSE, !.task = task]
        <3>1. queues' = [queues EXCEPT ![inst] = new] /\ inst' = inst  BY <2>2 DEF Post
        <3>2. inst \in 1..Len(queues) /\ queues[inst] \in GenerateQueues  BY <2>2
        <3>3. new \in GenerateQueues /\ new.task = task /\ new.cbq = queues[inst].cbq
            BY <1>0, <3>2 DEF GenerateQueues
        <3> HIDE DEF new
        <3> QED BY <3>1, <3>2, <3>3, ExceptSeq
    <2> QED BY <2>1, <2>2
<1>2. /\ workers' \in Seq(Workers) /\ Len(workers') = Len(workers) + 1
      /\ \A w \in 1..Len(workers') : workers'[w].home \in 1..Len(queues')
    <2> DEFINE new == [home |-> inst', pc |-> "born", cancelled |-> FALSE]
    <2>1. workers' = Append(workers, new)  BY DEF Post
    <2>2. new \in Workers /\ new.home \in 1..Len(queues')  BY <1>1 DEF Workers
    <2> HIDE DEF new
    <2> QED BY <1>1, <2>1, <2>2, AppendProperties
<1>3. UNCHANGED <<single, objs, job, stop, leaked>> /\ overlapped' \in BOOLEAN
    BY DEF Post, Overlap
<1> QED BY <1>0, <1>1, <1>2, <1>3

\* A worker refers to the singleton it finds or creates.
LEMMA WorkerTyped ==
    ASSUME Typed, NEW w \in DOMAIN workers, WorkerBegins(w) \/ WorkerEnds(w)
    PROVE  Typed'
<1> USE DEF Typed, Types, Refers
<1>0. {Len(queues), Len(workers), Len(objs)} \subseteq Nat /\ w \in 1..Len(workers)
    OBVIOUS
<1>1. CASE WorkerBegins(w)
    <2> DEFINE i == workers[w].home
               q == IF single = 0 THEN Len(objs) + 1 ELSE single
               fresh == [event |-> i, line |-> <<>>, loop |-> "none",
                         cancelled |-> FALSE, session |-> FALSE, active |-> {}]
               made == IF single = 0 THEN Append(objs, fresh) ELSE objs
               new == [made[q] EXCEPT !.loop = "run", !.cancelled = FALSE, !.session = TRUE]
    <2>1. i \in 1..Len(queues) /\ i \in Nat  BY <1>0
    <2>2. /\ made \in Seq(CallbackQueues) /\ q \in 1..Len(made) /\ Len(objs) <= Len(made)
          /\ \A x \in 1..Len(made) : made[x].event \in 1..Len(queues)
        <3>1. CASE single = 0
            <4>1. fresh \in CallbackQueues /\ fresh.event = i
                <5>1. <<>> \in Seq(Payloads)  OBVIOUS
                <5> QED BY <2>1, <5>1 DEF CallbackQueues
            <4> HIDE DEF fresh, i
            <4>2. made = Append(objs, fresh) /\ q = Len(objs) + 1  BY <3>1
            <4> HIDE DEF made, q
            <4>3. /\ made \in Seq(CallbackQueues) /\ Len(made) = Len(objs) + 1
                  /\ made[Len(objs) + 1] = fresh
                  /\ \A x \in 1..Len(objs) : made[x] = objs[x]
                BY <4>1, <4>2, AppendProperties
            <4> QED BY <1>0, <2>1, <4>1, <4>2, <4>3
        <3>2. CASE single # 0  BY <1>0, <3>2
        <3> QED BY <3>1, <3>2
    <2>3. /\ queues' = [queues EXCEPT ![i].cbq = q] /\ single' = q
          /\ workers' = [workers EXCEPT ![w].pc = "run"]
          /\ IF made[q].loop = "run" THEN objs' = made /\ UNCHANGED leaked
             ELSE objs' = [made EXCEPT ![q] = new] /\ leaked' = (leaked \/ made[q].session)
          /\ UNCHANGED <<inst, job, stop, overlapped>>
        BY <1>1, ZenonT(30) DEF WorkerBegins
    <2> HIDE DEF made, q, i
    <2>4. /\ objs' \in Seq(CallbackQueues) /\ Len(objs') = Len(made)
          /\ \A x \in 1..Len(made) : objs'[x].event = made[x].event
        <3>1. made[q] \in CallbackQueues  BY <2>2
        <3>2. new \in CallbackQueues /\ new.event = made[q].event
            BY <3>1 DEF CallbackQueues
        <3> HIDE DEF new
        <3>3. CASE made[q].loop = "run"  BY <2>2, <2>3, <3>3
        <3>4. CASE made[q].loop # "run"
            <4>1. objs' = [made EXCEPT ![q] = new]  BY <2>3, <3>4
            <4> QED BY <2>2, <3>2, <4>1, ExceptSeq
        <3> QED BY <3>3, <3>4
    <2>5. /\ queues' \in Seq(GenerateQueues) /\ Len(queues') = Len(queues)
          /\ \A x \in 1..Len(queues) :
                queues'[x].task = queues[x].task /\ queues'[x].cbq \in 0..Len(made)
        <3> DEFINE set == [queues[i] EXCEPT !.cbq = q]
        <3>1. queues[i] \in GenerateQueues /\ q \in Nat  BY <2>1, <2>2
        <3>2. set \in GenerateQueues /\ set.task = queues[i].task /\ set.cbq = q
            BY <3>1 DEF GenerateQueues
        <3>3. queues' = [queues EXCEPT ![i] = set]  BY <2>3
        <3>4. Len(made) \in Nat  BY <2>2
        <3> HIDE DEF set
        <3> QED BY <1>0, <2>1, <2>2, <3>2, <3>3, <3>4, ExceptSeq, SMTT(30)
    <2>6. /\ workers' \in Seq(Workers) /\ Len(workers') = Len(workers)
          /\ \A x \in 1..Len(workers) : workers'[x].home = workers[x].home
        <3> DEFINE set == [workers[w] EXCEPT !.pc = "run"]
        <3>1. workers[w] \in Workers  BY <1>0
        <3>2. set \in Workers /\ set.home = workers[w].home  BY <3>1 DEF Workers
        <3>3. workers' = [workers EXCEPT ![w] = set]  BY <2>3
        <3> HIDE DEF set
        <3> QED BY <1>0, <3>2, <3>3, ExceptSeq
    <2>7. leaked' \in BOOLEAN
        <3>1. made[q] \in CallbackQueues  BY <2>2
        <3>2. made[q].session \in BOOLEAN  BY <3>1 DEF CallbackQueues
        <3> QED BY <2>3, <3>2
    <2>8. Len(made) \in Nat  BY <2>2
    <2>9. Types'  BY <2>3, <2>4, <2>5, <2>6, <2>7
    <2>10. Refers'
        <3>1. /\ inst' \in 0..Len(queues') /\ single' \in 0..Len(objs')
              /\ \A x \in 1..Len(queues') :
                    queues'[x].task \in 0..Len(workers') /\ queues'[x].cbq \in 0..Len(objs')
            BY <2>2, <2>3, <2>4, <2>5, <2>6, <2>8
        <3>2. \A x \in 1..Len(workers') : workers'[x].home \in 1..Len(queues')
            BY <2>5, <2>6
        <3>3. \A x \in 1..Len(objs') : objs'[x].event \in 1..Len(queues')
            BY <2>2, <2>4, <2>5
        <3>4. \A p \in Payloads :
                  job'[p].state \in Alive \union {"queued"} => job'[p].q \in 1..Len(objs')
            BY <1>0, <2>2, <2>3, <2>4, <2>8
        <3>5. \A s \in Stops :
                 /\ stop'[s].pc \in Busy => stop'[s].home \in 1..Len(queues')
                 /\ stop'[s].pc = "join" => stop'[s].worker \in 1..Len(workers')
                 /\ stop'[s].q \in 0..Len(objs')
                 /\ stop'[s].pc \in Inside => stop'[s].q # 0
            BY <1>0, <2>2, <2>3, <2>4, <2>5, <2>6, <2>8
        <3> QED BY <3>1, <3>2, <3>3, <3>4, <3>5
    <2> QED BY <2>9, <2>10
<1>2. CASE WorkerEnds(w)
    <2> DEFINE set == [workers[w] EXCEPT !.pc = "ended"]
    <2>1. workers[w] \in Workers  BY <1>0
    <2>2. set \in Workers /\ set.home = workers[w].home  BY <2>1 DEF Workers
    <2>3. workers' = [workers EXCEPT ![w] = set]  BY <1>2 DEF WorkerEnds
    <2> HIDE DEF set
    <2>4. /\ workers' \in Seq(Workers) /\ Len(workers') = Len(workers)
          /\ \A x \in 1..Len(workers) : workers'[x].home = workers[x].home
        BY <1>0, <2>2, <2>3, ExceptSeq
    <2> QED BY <1>0, <1>2, <2>4 DEF WorkerEnds
<1> QED BY <1>1, <1>2

\* A callback queue that is replaced by one with the same event.
LEMMA QueueSet ==
    ASSUME Typed, NEW q \in 1..Len(objs), NEW new \in CallbackQueues,
           new.event = objs[q].event, objs' = [objs EXCEPT ![q] = new]
    PROVE  /\ objs' \in Seq(CallbackQueues) /\ Len(objs') = Len(objs)
           /\ objs'[q] = new /\ \A x \in 1..Len(objs) : x # q => objs'[x] = objs[x]
           /\ \A x \in 1..Len(objs) : objs'[x].event = objs[x].event
<1>1. objs \in Seq(CallbackQueues)  BY DEF Typed, Types
<1>2. /\ objs' \in Seq(CallbackQueues) /\ Len(objs') = Len(objs)
      /\ \A x \in 1..Len(objs) : objs'[x] = IF x = q THEN new ELSE objs[x]
    BY <1>1, ExceptSeq
<1> QED BY <1>1, <1>2

\* An enqueued payload refers to the callback queue of its instance.
LEMMA FinishTyped ==
    ASSUME Typed, NEW w \in DOMAIN workers, NEW p \in Payloads, Finishes(w, p)
    PROVE  Typed'
<1> USE DEF Typed, Types, Refers
<1>0. {Len(queues), Len(workers), Len(objs)} \subseteq Nat /\ w \in 1..Len(workers)
    OBVIOUS
<1> DEFINE q == queues[workers[w].home].cbq
<1>1. q \in 0..Len(objs)  BY <1>0
<1>2. CASE q = 0
    <2>1. job' = [job EXCEPT ![p] = Over] /\ UNCHANGED objs  BY <1>2 DEF Finishes
    <2>2. Over \in Callbacks /\ Over.state = "over"  BY DEF Over, New, Callbacks
    <2> QED BY <2>1, <2>2 DEF Finishes, Alive
<1>3. CASE q # 0
    <2> DEFINE full == Len(objs[q].line) >= QueueSize
               rest == IF full THEN Tail(objs[q].line) ELSE objs[q].line
               line == Append(rest, p)
               new == [objs[q] EXCEPT !.line = line]
               put == [state |-> "queued", q |-> q, tries |-> 0]
    <2>1. /\ objs' = [objs EXCEPT ![q] = new]
          /\ job' = [o \in Payloads |-> IF o = p THEN put
                                        ELSE IF full /\ o = Head(objs[q].line)
                                        THEN Over ELSE job[o]]
          /\ UNCHANGED <<inst, queues, workers, single, stop, leaked, overlapped>>
        BY <1>3 DEF Finishes
    <2>2. q \in 1..Len(objs) /\ q \in Nat  BY <1>0, <1>1, <1>3
    <2>3. objs[q] \in CallbackQueues  BY <2>2
    <2>4. objs[q].line \in Seq(Payloads)  BY <2>3 DEF CallbackQueues
    <2>5. rest \in Seq(Payloads)
        <3>1. CASE full
            <4>1. QueueSize \in Nat \ {0}  BY CallbackAssumption
            <4>2. objs[q].line # <<>>  BY <2>4, <3>1, <4>1
            <4> QED BY <2>4, <3>1, <4>2
        <3>2. CASE ~full  BY <2>4, <3>2
        <3> QED BY <3>1, <3>2
    <2> HIDE DEF rest
    <2>6. line \in Seq(Payloads)  BY <2>5
    <2> HIDE DEF line
    <2>7. new \in CallbackQueues /\ new.event = objs[q].event
        BY <2>3, <2>6 DEF CallbackQueues
    <2>8. put \in Callbacks /\ put.q = q  BY <2>2 DEF Callbacks
    <2>9. Over \in Callbacks /\ Over.state = "over"  BY DEF Over, New, Callbacks
    <2> HIDE DEF new, q, full, put
    <2>10. /\ objs' \in Seq(CallbackQueues) /\ Len(objs') = Len(objs)
           /\ \A x \in 1..Len(objs) : objs'[x].event = objs[x].event
        BY <2>1, <2>2, <2>7, QueueSet
    <2>11. job' \in [Payloads -> Callbacks]  BY <2>1, <2>8, <2>9
    <2>12. \A o \in Payloads :
               job'[o].state \in Alive \union {"queued"} => job'[o].q \in 1..Len(objs)
        BY <2>1, <2>2, <2>8, <2>9 DEF Alive
    <2> QED BY <2>1, <2>10, <2>11, <2>12
<1> QED BY <1>2, <1>3

\* The payload at the head of a deque refers to that callback queue already.
LEMMA LoopTyped ==
    ASSUME Typed, Deques, NEW q \in DOMAIN objs, LoopPops(q) \/ LoopEnds(q)
    PROVE  Typed'
<1> USE DEF Typed, Types, Refers
<1>0. q \in 1..Len(objs) /\ objs[q] \in CallbackQueues  OBVIOUS
<1>1. CASE LoopPops(q)
    <2> DEFINE p == Head(objs[q].line)
               new == [objs[q] EXCEPT !.line = Tail(@),
                                      !.active = {o \in @ : job[o].state \in Alive} \union {p}]
    <2>1. /\ objs' = [objs EXCEPT ![q] = new]
          /\ job' = [job EXCEPT ![p].state = "waiting"]
          /\ UNCHANGED <<inst, queues, workers, single, stop, leaked, overlapped>>
        BY <1>1 DEF LoopPops
    <2>2. objs[q].line \in Seq(Payloads) /\ objs[q].line # <<>>
        BY <1>0, <1>1 DEF LoopPops, CallbackQueues
    <2>3. p \in Payloads /\ Tail(objs[q].line) \in Seq(Payloads)  BY <2>2
    <2>7. job[p].q \in 1..Len(objs)
        <3>1. p = objs[q].line[1] /\ 1 \in DOMAIN objs[q].line  BY <2>2
        <3>2. p \in Range(objs[q].line)  BY <3>1 DEF Range
        <3> QED BY <1>0, <2>3, <3>2 DEF Deques
    <2> HIDE DEF p
    <2>4. new \in CallbackQueues /\ new.event = objs[q].event
        BY <1>0, <2>3 DEF CallbackQueues
    <2> HIDE DEF new
    <2>5. /\ objs' \in Seq(CallbackQueues) /\ Len(objs') = Len(objs)
          /\ \A x \in 1..Len(objs) : objs'[x].event = objs[x].event
        BY <1>0, <2>1, <2>4, QueueSet
    <2>6. job' \in [Payloads -> Callbacks]
        BY <2>1, <2>3 DEF Callbacks, Alive
    <2>8. job'[p].q = job[p].q /\ \A o \in Payloads \ {p} : job'[o] = job[o]
        BY <2>1, <2>3 DEF Callbacks
    <2> QED BY <1>0, <2>1, <2>5, <2>6, <2>7, <2>8
<1>2. CASE LoopEnds(q)
    <2> DEFINE new == [objs[q] EXCEPT !.loop = "done"]
    <2>1. /\ objs' = [objs EXCEPT ![q] = new]
          /\ stop' = [s \in Stops |-> IF stop[s].pc = "loop" /\ stop[s].q = q
                                      THEN [stop[s] EXCEPT !.pc = "looped"] ELSE stop[s]]
          /\ UNCHANGED <<inst, queues, workers, single, job, leaked, overlapped>>
        BY <1>2 DEF LoopEnds
    <2>2. new \in CallbackQueues /\ new.event = objs[q].event  BY <1>0 DEF CallbackQueues
    <2> HIDE DEF new
    <2>3. /\ objs' \in Seq(CallbackQueues) /\ Len(objs') = Len(objs)
          /\ \A x \in 1..Len(objs) : objs'[x].event = objs[x].event
        BY <1>0, <2>1, <2>2, QueueSet
    <2>4. stop' \in [Stops -> Requests]  BY <2>1, ZenonT(30) DEF Requests, Busy, Suspended
    <2> QED BY <2>1, <2>3, <2>4 DEF Busy, Suspended, Inside
<1> QED BY <1>1, <1>2

\* A task keeps its callback queue.
LEMMA TaskTyped ==
    ASSUME Typed, NEW p \in Payloads, TaskStep(p)
    PROVE  Typed'
<1> USE DEF Typed, Types, Refers
<1>0. UNCHANGED <<inst, queues, workers, single, objs, stop, leaked, overlapped>>
    BY DEF TaskStep, Tries, PostEnds
<1>1. job[p] \in Callbacks /\ job[p].state \in Alive  BY DEF TaskStep, Tries, PostEnds, Alive
<1>2. PICK new \in Callbacks :
          job' = [job EXCEPT ![p] = new] /\ (new.state = "over" \/ new.q = job[p].q)
    <2>1. Over \in Callbacks /\ Over.state = "over"  BY DEF Over, New, Callbacks
    <2> DEFINE posting == [job[p] EXCEPT !.state = "posting", !.tries = job[p].tries + 1]
               backoff == [job[p] EXCEPT !.state = "backoff"]
    <2>2. posting \in Callbacks /\ posting.q = job[p].q
        <3>1. job[p].tries + 1 \in Nat  BY <1>1 DEF Callbacks
        <3> QED BY <1>1, <3>1 DEF Callbacks, Alive
    <2>3. backoff \in Callbacks /\ backoff.q = job[p].q  BY <1>1 DEF Callbacks, Alive
    <2>4. CASE Tries(p)
        <3>1. \/ job' = [job EXCEPT ![p] = Over]
              \/ job' = [job EXCEPT ![p] = posting]
            <4>1. CASE StopSet(job[p].q)  BY <2>4, <4>1 DEF Tries
            <4>2. CASE ~StopSet(job[p].q)  BY <2>4, <4>2 DEF Tries
            <4> QED BY <4>1, <4>2
        <3> HIDE DEF posting
        <3> QED BY <2>1, <2>2, <3>1
    <2>5. CASE PostEnds(p)  BY <2>1, <2>3, <2>5 DEF PostEnds
    <2> QED BY <2>4, <2>5 DEF TaskStep
<1>3. job' \in [Payloads -> Callbacks]  BY <1>2
<1>4. \A o \in Payloads :
          job'[o].state \in Alive \union {"queued"} => job'[o].q \in 1..Len(objs)
    BY <1>1, <1>2 DEF Alive
<1> QED BY <1>0, <1>3, <1>4

\* A /stop refers to the instance and its worker.
LEMMA StopBeginsTyped ==
    ASSUME Typed, NEW s \in Stops, StopBegins(s)
    PROVE  Typed'
<1> USE DEF Typed, Types, Refers
<1>0. {Len(queues), Len(workers), Len(objs)} \subseteq Nat /\ inst \in 1..Len(queues)
    BY DEF StopBegins
<1>1. /\ queues' \in Seq(GenerateQueues) /\ Len(queues') = Len(queues)
      /\ \A i \in 1..Len(queues) :
            queues'[i].task = queues[i].task /\ queues'[i].cbq = queues[i].cbq
    <2> DEFINE new == [queues[inst] EXCEPT !.stopped = TRUE]
    <2>1. queues' = [queues EXCEPT ![inst] = new]  BY DEF StopBegins
    <2>2. queues[inst] \in GenerateQueues  BY <1>0
    <2>3. /\ new \in GenerateQueues
          /\ new.task = queues[inst].task /\ new.cbq = queues[inst].cbq
        BY <2>2 DEF GenerateQueues
    <2> HIDE DEF new
    <2> QED BY <1>0, <2>1, <2>3, ExceptSeq
<1>2. /\ workers' \in Seq(Workers) /\ Len(workers') = Len(workers)
      /\ \A w \in 1..Len(workers) : workers'[w].home = workers[w].home
    <2>1. CASE Staffed(inst)
        <3> DEFINE w == queues[inst].task
                   new == [workers[w] EXCEPT !.cancelled = TRUE]
        <3>1. workers' = [workers EXCEPT ![w] = new]  BY <2>1 DEF StopBegins
        <3>2. w \in 1..Len(workers) /\ workers[w] \in Workers  BY <1>0, <2>1 DEF Staffed
        <3>3. new \in Workers /\ new.home = workers[w].home  BY <3>2 DEF Workers
        <3> HIDE DEF new, w
        <3> QED BY <3>1, <3>2, <3>3, ExceptSeq
    <2>2. CASE ~Staffed(inst)  BY <2>2 DEF StopBegins
    <2> QED BY <2>1, <2>2
<1>3. PICK new \in Requests :
          /\ stop' = [stop EXCEPT ![s] = new]
          /\ new.pc \in {"join", "feeding"} /\ new.home = inst /\ new.q = 0
          /\ new.worker = queues[inst].task /\ (new.pc = "join" => Staffed(inst))
    <2> DEFINE new == [NoStop EXCEPT !.pc = IF Staffed(inst) THEN "join" ELSE "feeding",
                                     !.home = inst, !.worker = queues[inst].task]
    <2>1. stop' = [stop EXCEPT ![s] = new]  BY DEF StopBegins
    <2>2. inst \in Nat /\ queues[inst].task \in Nat  BY <1>0
    <2>3. /\ new \in Requests
          /\ new.pc \in {"join", "feeding"} /\ new.home = inst /\ new.q = 0
          /\ new.worker = queues[inst].task /\ (new.pc = "join" => Staffed(inst))
        BY <2>2 DEF NoStop, Requests, Busy, Running, Suspended
    <2> HIDE DEF new
    <2> QED BY <2>1, <2>3
<1>4. UNCHANGED <<inst, single, objs, job, leaked>> /\ overlapped' \in BOOLEAN
    BY DEF StopBegins, Overlap
<1>5. Types'  BY <1>1, <1>2, <1>3, <1>4
<1>6. new.pc = "join" => new.worker \in 1..Len(workers)
    BY <1>0, <1>3 DEF Staffed
<1>7. \A t \in Stops :
         /\ stop'[t].pc \in Busy => stop'[t].home \in 1..Len(queues)
         /\ stop'[t].pc = "join" => stop'[t].worker \in 1..Len(workers)
         /\ stop'[t].q \in 0..Len(objs)
         /\ stop'[t].pc \in Inside => stop'[t].q # 0
    BY <1>0, <1>3, <1>6 DEF Inside
<1> QED BY <1>0, <1>1, <1>2, <1>4, <1>5, <1>7

\* The steps of stop(): each moves the one request.
LEMMA StopGoesTyped ==
    ASSUME Typed, NEW s \in Stops, StopGoesOn(s)
    PROVE  Typed'
<1> USE DEF Typed, Types, Refers
<1>0. /\ {Len(queues), Len(workers), Len(objs)} \subseteq Nat /\ stop[s] \in Requests
      /\ stop[s].q \in 0..Len(objs) /\ stop[s].q \in Nat
    OBVIOUS
<1>1. stop[s].pc \in Busy /\ stop[s].home \in 1..Len(queues)
    <2>1. stop[s].pc \in Busy
        BY DEF StopGoesOn, StopJoined, StopCalls, StopsLoop, StopsTasks, StopsSession,
               SessionClosed, StopLeaves, Busy, Running, Suspended
    <2> QED BY <2>1
\* What is left to show of a request that goes on.
<1>2. ASSUME NEW new \in Requests, stop' = [stop EXCEPT ![s] = new],
             new.pc # "join",
             new.pc \in Busy => new.home = stop[s].home,
             new.q \in 0..Len(objs), new.pc \in Inside => new.q # 0,
             Len(queues') = Len(queues), Len(objs') = Len(objs), UNCHANGED workers
      PROVE  /\ stop' \in [Stops -> Requests]
             /\ \A t \in Stops :
                   /\ stop'[t].pc \in Busy => stop'[t].home \in 1..Len(queues')
                   /\ stop'[t].pc = "join" => stop'[t].worker \in 1..Len(workers')
                   /\ stop'[t].q \in 0..Len(objs')
                   /\ stop'[t].pc \in Inside => stop'[t].q # 0
    BY <1>0, <1>1, <1>2
\* Going on inside one stop().
<1>3. ASSUME NEW pc \in Busy, pc # "join", pc \in Inside => stop[s].q # 0, Goes(s, pc),
             Len(queues') = Len(queues), Len(objs') = Len(objs), UNCHANGED workers
      PROVE  /\ stop' \in [Stops -> Requests]
             /\ \A t \in Stops :
                   /\ stop'[t].pc \in Busy => stop'[t].home \in 1..Len(queues')
                   /\ stop'[t].pc = "join" => stop'[t].worker \in 1..Len(workers')
                   /\ stop'[t].q \in 0..Len(objs')
                   /\ stop'[t].pc \in Inside => stop'[t].q # 0
    <2> DEFINE new == [stop[s] EXCEPT !.pc = pc]
    <2>1. stop' = [stop EXCEPT ![s] = new]  BY <1>3 DEF Goes
    <2>2. new \in Requests /\ new.pc = pc /\ new.home = stop[s].home /\ new.q = stop[s].q
        BY <1>0, <1>3 DEF Requests
    <2> HIDE DEF new
    <2> QED BY <1>0, <1>2, <1>3, <2>1, <2>2
<1>4. CASE StopJoined(s)
    <2> DEFINE h == stop[s].home
               new == [queues[h] EXCEPT !.task = 0]
    <2>1. queues' = [queues EXCEPT ![h] = new] /\ Goes(s, "feeding")
          /\ UNCHANGED <<inst, workers, single, objs, job, leaked, overlapped>>
        BY <1>4 DEF StopJoined
    <2>2. queues[h] \in GenerateQueues  BY <1>1
    <2>3. new \in GenerateQueues /\ new.task = 0 /\ new.cbq = queues[h].cbq
        BY <2>2 DEF GenerateQueues
    <2> HIDE DEF new
    <2>4. /\ queues' \in Seq(GenerateQueues) /\ Len(queues') = Len(queues)
          /\ \A i \in 1..Len(queues) :
               queues'[i].task \in 0..Len(workers) /\ queues'[i].cbq \in 0..Len(objs)
        BY <1>0, <1>1, <2>1, <2>3, ExceptSeq
    <2>5. "feeding" \in Busy /\ "feeding" \notin Inside  BY DEF Busy, Running, Inside
    <2> QED BY <1>3, <2>1, <2>4, <2>5
<1>5. CASE StopCalls(s)
    <2> DEFINE last == stop[s].pc = "single"
               q == IF last THEN single ELSE queues[stop[s].home].cbq
               pc == IF q # 0 THEN "stopping" ELSE IF last THEN "leaving" ELSE "single"
               new == [stop[s] EXCEPT !.q = q, !.last = last, !.pc = pc]
    <2>1. stop' = [stop EXCEPT ![s] = new]
          /\ UNCHANGED <<inst, queues, workers, single, objs, job, leaked, overlapped>>
        BY <1>5 DEF StopCalls
    <2>2. q \in 0..Len(objs) /\ q \in Nat  BY <1>0, <1>1
    <2>3. last \in BOOLEAN  OBVIOUS
    <2>4. pc \in Busy /\ pc # "join" /\ (pc \in Inside => q # 0)
        BY DEF Busy, Running, Inside
    <2> HIDE DEF last, q, pc
    <2>5. /\ new \in Requests /\ new.pc = pc /\ new.home = stop[s].home /\ new.q = q
        BY <1>0, <2>2, <2>3, <2>4 DEF Requests
    <2> HIDE DEF new
    <2> QED BY <1>2, <2>1, <2>2, <2>4, <2>5
<1>6. CASE StopsLoop(s)
    <2>1. stop[s].q \in 1..Len(objs) /\ {"loop", "cancelling"} \subseteq Busy
        BY <1>0, <1>6 DEF StopsLoop, Inside, Busy, Running, Suspended
    <2>2. UNCHANGED <<inst, queues, workers, single, job, leaked, overlapped>>
        BY <1>6 DEF StopsLoop
    <2>3. CASE objs[stop[s].q].loop = "run"
        <3> DEFINE new == [objs[stop[s].q] EXCEPT !.cancelled = TRUE]
        <3>1. objs' = [objs EXCEPT ![stop[s].q] = new] /\ Goes(s, "loop")
            BY <1>6, <2>3 DEF StopsLoop
        <3>2. objs[stop[s].q] \in CallbackQueues  BY <2>1
        <3>3. new \in CallbackQueues /\ new.event = objs[stop[s].q].event
            BY <3>2 DEF CallbackQueues
        <3> HIDE DEF new
        <3>4. /\ objs' \in Seq(CallbackQueues) /\ Len(objs') = Len(objs)
              /\ \A x \in 1..Len(objs) : objs'[x].event = objs[x].event
            BY <2>1, <3>1, <3>3, QueueSet
        <3> QED BY <1>3, <2>1, <2>2, <3>1, <3>4
    <2>4. CASE objs[stop[s].q].loop # "run"
        <3>1. objs' = objs /\ Goes(s, "cancelling")  BY <1>6, <2>4 DEF StopsLoop
        <3> QED BY <1>3, <2>1, <2>2, <3>1
    <2> QED BY <2>3, <2>4
<1>7. CASE StopsTasks(s)
    <2> DEFINE alive == {p \in objs[stop[s].q].active : job[p].state \in Alive}
    <2>1. /\ UNCHANGED <<inst, queues, workers, single, objs, leaked, overlapped>>
          /\ \/ Goes(s, "closing")
             \/ Goes(s, "gather")
          /\ job' = [p \in Payloads |-> IF p \in alive THEN Over ELSE job[p]]
        BY <1>7 DEF StopsTasks
    <2>2. Over \in Callbacks /\ Over.state = "over"  BY DEF Over, New, Callbacks
    <2> HIDE DEF alive
    <2>3. /\ job' \in [Payloads -> Callbacks]
          /\ \A p \in Payloads :
                job'[p].state \in Alive \union {"queued"} => job'[p].q \in 1..Len(objs)
        BY <2>1, <2>2 DEF Alive
    <2>4. {"closing", "gather"} \subseteq Busy /\ stop[s].q # 0
        BY <1>7 DEF StopsTasks, Busy, Running, Suspended, Inside
    <2>5. /\ stop' \in [Stops -> Requests]
          /\ \A t \in Stops :
                /\ stop'[t].pc \in Busy => stop'[t].home \in 1..Len(queues')
                /\ stop'[t].pc = "join" => stop'[t].worker \in 1..Len(workers')
                /\ stop'[t].q \in 0..Len(objs')
                /\ stop'[t].pc \in Inside => stop'[t].q # 0
        BY <1>3, <2>1, <2>4
    <2> QED BY <2>1, <2>3, <2>5
<1>8. CASE StopsSession(s)
    <2> DEFINE new == [objs[stop[s].q] EXCEPT !.active = {}]
    <2>1. /\ objs' = [objs EXCEPT ![stop[s].q] = new]
          /\ \/ Goes(s, "close")
             \/ Goes(s, "leaving")
          /\ UNCHANGED <<inst, queues, workers, single, job, leaked, overlapped>>
        BY <1>8 DEF StopsSession
    <2>2. {"close", "leaving"} \subseteq Busy /\ stop[s].q \in 1..Len(objs)
        BY <1>0, <1>8 DEF StopsSession, Busy, Running, Suspended, Inside
    <2>3. objs[stop[s].q] \in CallbackQueues  BY <2>2
    <2>4. new \in CallbackQueues /\ new.event = objs[stop[s].q].event
        BY <2>3 DEF CallbackQueues
    <2> HIDE DEF new
    <2>5. /\ objs' \in Seq(CallbackQueues) /\ Len(objs') = Len(objs)
          /\ \A x \in 1..Len(objs) : objs'[x].event = objs[x].event
        BY <2>1, <2>2, <2>4, QueueSet
    <2> QED BY <1>3, <2>1, <2>2, <2>5, SMTT(30)
<1>9. CASE SessionClosed(s)
    <2> DEFINE new == [objs[stop[s].q] EXCEPT !.session = FALSE]
    <2>1. /\ objs' = [objs EXCEPT ![stop[s].q] = new] /\ Goes(s, "leaving")
          /\ UNCHANGED <<inst, queues, workers, single, job, leaked, overlapped>>
        BY <1>9 DEF SessionClosed
    <2>2. "leaving" \in Busy /\ stop[s].q \in 1..Len(objs)
        BY <1>0, <1>9 DEF SessionClosed, Busy, Running, Suspended, Inside
    <2>3. objs[stop[s].q] \in CallbackQueues  BY <2>2
    <2>4. new \in CallbackQueues /\ new.event = objs[stop[s].q].event
        BY <2>3 DEF CallbackQueues
    <2> HIDE DEF new
    <2>5. /\ objs' \in Seq(CallbackQueues) /\ Len(objs') = Len(objs)
          /\ \A x \in 1..Len(objs) : objs'[x].event = objs[x].event
        BY <2>1, <2>2, <2>4, QueueSet
    <2> QED BY <1>3, <2>1, <2>2, <2>5, SMTT(30)
<1>10. CASE StopLeaves(s)
    <2> DEFINE q == stop[s].q
    <2>1. /\ objs' \in Seq(CallbackQueues) /\ Len(objs') = Len(objs)
          /\ \A x \in 1..Len(objs) : objs'[x].event = objs[x].event
          /\ job' \in [Payloads -> Callbacks]
          /\ \A p \in Payloads :
                job'[p].state \in Alive \union {"queued"} => job'[p].q \in 1..Len(objs)
        <3>1. CASE q = 0  BY <1>10, <3>1 DEF StopLeaves
        <3>2. CASE q # 0
            <4> DEFINE new == [objs[q] EXCEPT !.line = <<>>]
            <4>1. /\ objs' = [objs EXCEPT ![q] = new]
                  /\ job' = [p \in Payloads |-> IF p \in Range(objs[q].line)
                                                THEN Over ELSE job[p]]
                BY <1>10, <3>2 DEF StopLeaves
            <4>2. q \in 1..Len(objs) /\ objs[q] \in CallbackQueues  BY <1>0, <3>2
            <4>3. new \in CallbackQueues /\ new.event = objs[q].event
                <5>1. <<>> \in Seq(Payloads)  OBVIOUS
                <5> QED BY <4>2, <5>1 DEF CallbackQueues
            <4> HIDE DEF new
            <4>4. Over \in Callbacks /\ Over.state = "over"  BY DEF Over, New, Callbacks
            <4>5. /\ job' \in [Payloads -> Callbacks]
                  /\ \A p \in Payloads :
                        job'[p].state \in Alive \union {"queued"} => job'[p].q \in 1..Len(objs)
                BY <4>1, <4>4 DEF Alive
            <4> QED BY <4>1, <4>2, <4>3, <4>5, QueueSet
        <3> QED BY <3>1, <3>2
    <2>2. CASE stop[s].last
        <3> DEFINE new == [NoStop EXCEPT !.pc = "done"]
        <3>1. /\ single' = 0 /\ inst' = 0 /\ stop' = [stop EXCEPT ![s] = new]
              /\ UNCHANGED <<queues, workers, leaked, overlapped>>
            BY <1>10, <2>2 DEF StopLeaves
        <3>2. new \in Requests /\ new.pc = "done" /\ new.q = 0  BY DEF NoStop, Requests
        <3> HIDE DEF new
        <3>3. "done" \notin Busy /\ "done" \notin Inside /\ "done" # "join"
            BY DEF Busy, Running, Suspended, Inside
        <3>4. /\ stop' \in [Stops -> Requests]
              /\ \A t \in Stops :
                    /\ stop'[t].pc \in Busy => stop'[t].home \in 1..Len(queues')
                    /\ stop'[t].pc = "join" => stop'[t].worker \in 1..Len(workers')
                    /\ stop'[t].q \in 0..Len(objs')
                    /\ stop'[t].pc \in Inside => stop'[t].q # 0
            BY <1>0, <1>2, <2>1, <3>1, <3>2, <3>3
        <3> QED BY <1>0, <2>1, <3>1, <3>4
    <2>3. CASE ~stop[s].last
        <3> DEFINE h == stop[s].home
                   new == [queues[h] EXCEPT !.cbq = 0]
        <3>1. /\ queues' = [queues EXCEPT ![h] = new] /\ Goes(s, "single")
              /\ UNCHANGED <<inst, single, workers, leaked, overlapped>>
            BY <1>10, <2>3 DEF StopLeaves
        <3>2. queues[h] \in GenerateQueues  BY <1>1
        <3>3. new \in GenerateQueues /\ new.cbq = 0 /\ new.task = queues[h].task
            BY <3>2 DEF GenerateQueues
        <3> HIDE DEF new
        <3>4. /\ queues' \in Seq(GenerateQueues) /\ Len(queues') = Len(queues)
              /\ \A i \in 1..Len(queues) :
                   queues'[i].task \in 0..Len(workers) /\ queues'[i].cbq \in 0..Len(objs)
            BY <1>0, <1>1, <3>1, <3>3, ExceptSeq
        <3>5. "single" \in Busy /\ "single" \notin Inside  BY DEF Busy, Running, Inside
        <3> QED BY <1>3, <2>1, <3>1, <3>4, <3>5
    <2> QED BY <2>2, <2>3
<1> QED BY <1>4, <1>5, <1>6, <1>7, <1>8, <1>9, <1>10 DEF StopGoesOn

----------------------------------------------------------------------------
(* Deques, attempts and the semaphore.                                     *)

Attempts ==
    \A p \in Payloads :
        /\ job[p].state \in {"queued", "waiting"} => job[p].tries = 0
        /\ job[p].state = "backoff" => job[p].tries < MaxAttempts
        /\ job[p].tries <= MaxAttempts

\* MaxConcurrent tasks at most are inside the semaphore; there may be any number behind it.
Semaphore ==
    \A q \in 1..Len(objs) :
        IsFiniteSet(Holding(q)) /\ Cardinality(Holding(q)) <= MaxConcurrent

Queued == Typed /\ Deques /\ Attempts /\ Semaphore

\* Callbacks that are queued stay where they are.
LEMMA DequesStay ==
    ASSUME Typed, Deques, Len(objs') = Len(objs),
           \A q \in 1..Len(objs) : objs'[q].line = objs[q].line,
           \A p \in Payloads :
               \/ job'[p] = job[p]
               \/ job[p].state # "queued" /\ job'[p].state # "queued"
    PROVE  Deques'
BY DEF Deques

\* Nobody enters the semaphore.
LEMMA SemaphoreStays ==
    ASSUME Semaphore, Len(objs') = Len(objs),
           \A p \in Payloads :
               \/ job'[p] = job[p]
               \/ job'[p].state \notin {"posting", "backoff"}
               \/ job'[p].q = job[p].q /\ job[p].state \in {"posting", "backoff"}
    PROVE  Semaphore'
<1> SUFFICES ASSUME NEW q \in 1..Len(objs)
             PROVE  IsFiniteSet(Holding(q)') /\ Cardinality(Holding(q)') <= MaxConcurrent
    BY DEF Semaphore
<1> DEFINE old == Holding(q)
           new == Holding(q)'
<1>1. IsFiniteSet(old) /\ Cardinality(old) <= MaxConcurrent  BY DEF Semaphore
<1>2. new \in SUBSET old  BY DEF Holding
<1>3. MaxConcurrent \in Nat  BY CallbackAssumption
<1> HIDE DEF old, new
<1>4. IsFiniteSet(new) /\ Cardinality(new) <= Cardinality(old)  BY <1>1, <1>2, FS_Subset
<1>5. Cardinality(old) \in Nat /\ Cardinality(new) \in Nat  BY <1>1, <1>4, FS_CardinalityType
<1>6. IsFiniteSet(new) /\ Cardinality(new) <= MaxConcurrent  BY <1>1, <1>3, <1>4, <1>5
<1> QED BY <1>6 DEF new

\* Steps that touch no callback and no deque.
LEMMA QueuedStays ==
    ASSUME Queued, Typed', job' = job, Len(objs') = Len(objs),
           \A q \in 1..Len(objs) : objs'[q].line = objs[q].line
    PROVE  Queued'
BY DequesStay, SemaphoreStays DEF Queued, Attempts

\* A new callback queue is empty.
LEMMA QueuedGrows ==
    ASSUME Queued, Typed', job' = job, Len(objs') = Len(objs) + 1,
           \A q \in 1..Len(objs) : objs'[q].line = objs[q].line,
           objs'[Len(objs) + 1].line = <<>>
    PROVE  Queued'
<1> DEFINE n == Len(objs) + 1
<1>1. Len(objs) \in Nat  BY DEF Queued, Typed, Types
<1>2. \A q \in 1..Len(objs') : q \in 1..Len(objs) \/ q = n  BY <1>1
<1>3. Deques'
    <2>1. QueueSize \in Nat  BY CallbackAssumption
    <2>2. \A p \in Payloads : job[p].state = "queued" => job[p].q # n
        BY <1>1 DEF Queued, Typed, Refers
    <2>3. Len(<<>>) = 0 /\ 1..0 = {}  OBVIOUS
    <2>4. Range(<<>>) = {}  BY DEF Range
    <2>5. \A q \in 1..Len(objs) :
            /\ Len(objs'[q].line) <= QueueSize /\ Once(objs'[q].line)
            /\ \A p \in Payloads :
                  (p \in Range(objs'[q].line)) <=> (job'[p].state = "queued" /\ job'[p].q = q)
        BY DEF Queued, Deques
    <2>6. /\ Len(objs'[n].line) <= QueueSize /\ Once(objs'[n].line)
          /\ \A p \in Payloads :
                (p \in Range(objs'[n].line)) <=> (job'[p].state = "queued" /\ job'[p].q = n)
        BY <2>1, <2>2, <2>3, <2>4 DEF Once
    <2> QED BY <1>2, <2>5, <2>6 DEF Deques
<1>4. Semaphore'
    <2> SUFFICES ASSUME NEW q \in 1..Len(objs')
                 PROVE  IsFiniteSet(Holding(q)') /\ Cardinality(Holding(q)') <= MaxConcurrent
        BY DEF Semaphore
    <2>1. Holding(q)' = Holding(q)  BY DEF Holding
    <2>2. CASE q \in 1..Len(objs)  BY <2>1, <2>2 DEF Queued, Semaphore
    <2>3. CASE q = n
        <3>1. Holding(q) = {}
            BY <1>1, <2>3 DEF Queued, Typed, Refers, Holding, Alive
        <3>2. MaxConcurrent \in Nat  BY CallbackAssumption
        <3> QED BY <2>1, <3>1, <3>2, FS_EmptySet
    <2> QED BY <1>2, <2>2, <2>3
<1> QED BY <1>3, <1>4 DEF Queued, Attempts

\* A sequence without its head.
LEMMA Popped ==
    ASSUME NEW S, NEW s \in Seq(S), s # <<>>, Once(s)
    PROVE  /\ Tail(s) \in Seq(S) /\ Len(Tail(s)) + 1 = Len(s) /\ Once(Tail(s))
           /\ Head(s) \in S /\ Head(s) \in Range(s)
           /\ \A o : o \in Range(Tail(s)) <=> (o \in Range(s) /\ o # Head(s))
<1> DEFINE t == Tail(s)
<1>1. Len(s) \in Nat /\ Len(s) >= 1 /\ Head(s) = s[1]  OBVIOUS
<1>2. /\ t \in Seq(S) /\ Len(t) = Len(s) - 1 /\ Head(s) \in S
      /\ \A i \in 1..Len(t) : t[i] = s[i + 1]
    BY HeadTailProperties
<1> HIDE DEF t
<1>3. \A i \in 1..Len(t) : i + 1 \in 1..Len(s) /\ i + 1 # 1  BY <1>1, <1>2
<1>4. Range(s) = {s[i] : i \in 1..Len(s)} /\ Range(t) = {t[i] : i \in 1..Len(t)}
    BY <1>2 DEF Range
<1>5. Once(t)
    <2> SUFFICES ASSUME NEW i \in 1..Len(t), NEW j \in 1..Len(t), t[i] = t[j] PROVE i = j
        BY DEF Once
    <2>1. i + 1 = j + 1
        <3> DEFINE k == i + 1
                   l == j + 1
        <3>1. k \in 1..Len(s) /\ l \in 1..Len(s) /\ s[k] = s[l]  BY <1>2, <1>3
        <3> HIDE DEF k, l
        <3>2. k = l  BY <3>1 DEF Once
        <3> QED BY <3>2 DEF k, l
    <2> QED BY <1>2, <2>1
<1>6. 1 \in 1..Len(s)  BY <1>1
<1>7. ASSUME NEW o, o \in Range(t) PROVE o \in Range(s) /\ o # Head(s)
    <2>1. PICK i \in 1..Len(t) : t[i] = o  BY <1>4, <1>7
    <2> DEFINE k == i + 1
    <2>2. k \in 1..Len(s) /\ k # 1 /\ s[k] = o  BY <1>2, <1>3, <2>1
    <2> HIDE DEF k
    <2>3. s[k] # s[1]  BY <1>6, <2>2 DEF Once
    <2> QED BY <1>1, <1>4, <2>2, <2>3
<1>8. ASSUME NEW o, o \in Range(s), o # Head(s) PROVE o \in Range(t)
    <2>1. PICK k \in 1..Len(s) : s[k] = o  BY <1>4, <1>8
    <2>2. k # 1  BY <1>1, <1>8, <2>1
    <2> DEFINE i == k - 1
    <2>3. i \in 1..Len(t) /\ i + 1 = k  BY <1>1, <1>2, <2>2
    <2> HIDE DEF i
    <2>4. t[i] = o  BY <1>2, <2>1, <2>3
    <2> QED BY <1>4, <2>3, <2>4
<1>9. Len(t) + 1 = Len(s)  BY <1>1, <1>2
<1> QED BY <1>1, <1>2, <1>4, <1>5, <1>6, <1>7, <1>8, <1>9 DEF t

\* A sequence with one more element.
LEMMA Pushed ==
    ASSUME NEW S, NEW s \in Seq(S), Once(s), NEW e \in S, e \notin Range(s)
    PROVE  /\ Append(s, e) \in Seq(S) /\ Len(Append(s, e)) = Len(s) + 1 /\ Once(Append(s, e))
           /\ \A o : o \in Range(Append(s, e)) <=> (o \in Range(s) \/ o = e)
<1> DEFINE t == Append(s, e)
           n == Len(s) + 1
<1>1. /\ t \in Seq(S) /\ Len(t) = n /\ t[n] = e /\ Len(s) \in Nat
      /\ \A i \in 1..Len(s) : t[i] = s[i]
    BY AppendProperties
<1> HIDE DEF t
<1>2. /\ \A i \in 1..Len(t) : i \in 1..Len(s) \/ i = n
      /\ n \in 1..Len(t) /\ 1..Len(s) \subseteq 1..Len(t)
    BY <1>1
<1>3. Range(s) = {s[i] : i \in 1..Len(s)} /\ Range(t) = {t[i] : i \in 1..Len(t)}
    BY <1>1 DEF Range
<1> HIDE DEF n
<1>4. Once(t)
    <2>1. \A i \in 1..Len(s) : t[i] # e  BY <1>1, <1>3
    <2> QED BY <1>1, <1>2, <2>1 DEF Once
<1>5. \A o : o \in Range(t) <=> (o \in Range(s) \/ o = e)  BY <1>1, <1>2, <1>3
<1> QED BY <1>1, <1>4, <1>5 DEF t, n

\* An enqueued callback goes to the end of a deque; the oldest makes room for it.
LEMMA FinishQueued ==
    ASSUME Queued, Typed', NEW w \in DOMAIN workers, NEW p \in Payloads, Finishes(w, p)
    PROVE  Queued'
<1> USE DEF Queued
<1> DEFINE q == queues[workers[w].home].cbq
<1>0. /\ job[p].state = "new" /\ q \in 0..Len(objs) /\ Len(objs) \in Nat
      /\ objs \in Seq(CallbackQueues) /\ job \in [Payloads -> Callbacks]
    <2>1. /\ objs \in Seq(CallbackQueues) /\ job \in [Payloads -> Callbacks]
          /\ workers \in Seq(Workers) /\ queues \in Seq(GenerateQueues)
        BY DEF Typed, Types
    <2>2. w \in 1..Len(workers) /\ workers[w].home \in 1..Len(queues)
        BY <2>1 DEF Typed, Refers
    <2>3. q \in 0..Len(objs)  BY <2>2 DEF Typed, Refers
    <2>4. job[p].state = "new"  BY DEF Finishes
    <2> QED BY <2>1, <2>3, <2>4
<1>00. Over.state = "over" /\ Over.tries = 0 /\ Over.q = 0  BY DEF Over, New
<1>1. CASE q = 0
    <2>1. job' = [job EXCEPT ![p] = Over] /\ UNCHANGED objs  BY <1>1 DEF Finishes
    <2>2. Deques'  BY <1>0, <1>00, <2>1, DequesStay
    <2>3. Semaphore'  BY <1>0, <1>00, <2>1, SemaphoreStays
    <2>4. Attempts'  BY <1>0, <1>00, <2>1, CallbackAssumption DEF Attempts
    <2> QED BY <2>2, <2>3, <2>4
<1>2. CASE q # 0
    <2> DEFINE old == objs[q].line
               full == Len(old) >= QueueSize
               rest == IF full THEN Tail(old) ELSE old
               line == Append(rest, p)
               put == [state |-> "queued", q |-> q, tries |-> 0]
               new == [objs[q] EXCEPT !.line = line]
    <2>1. /\ objs' = [objs EXCEPT ![q] = new]
          /\ job' = [o \in Payloads |-> IF o = p THEN put
                                        ELSE IF full /\ o = Head(old)
                                        THEN Over ELSE job[o]]
        BY <1>2 DEF Finishes
    <2>2. q \in 1..Len(objs) /\ objs[q] \in CallbackQueues /\ old \in Seq(Payloads)
        <3>1. q \in 1..Len(objs)  BY <1>0, <1>2
        <3>2. objs[q] \in CallbackQueues  BY <1>0, <3>1
        <3> QED BY <3>1, <3>2 DEF CallbackQueues
    <2>3. QueueSize \in Nat /\ QueueSize >= 1  BY CallbackAssumption
    <2>4. /\ Len(old) <= QueueSize /\ Once(old)
          /\ \A o \in Payloads : o \in Range(old) <=> (job[o].state = "queued" /\ job[o].q = q)
        BY <2>2 DEF Deques
    <2>5. p \notin Range(old)  BY <1>0, <2>4
    \* What stays in the deque.
    <2>6. /\ rest \in Seq(Payloads) /\ Len(rest) < QueueSize /\ Once(rest)
          /\ full => Head(old) \in Payloads /\ Head(old) \in Range(old)
          /\ \A o : o \in Range(rest) <=> (o \in Range(old) /\ ~(full /\ o = Head(old)))
        <3>1. CASE full
            <4>1. old # <<>>  BY <2>2, <2>3, <3>1
            <4>2. rest = Tail(old)  BY <3>1
            <4> HIDE DEF old
            <4>3. /\ Tail(old) \in Seq(Payloads) /\ Len(Tail(old)) + 1 = Len(old)
                  /\ Once(Tail(old))
                  /\ Head(old) \in Payloads /\ Head(old) \in Range(old)
                  /\ \A o : o \in Range(Tail(old)) <=> (o \in Range(old) /\ o # Head(old))
                BY <2>2, <2>4, <4>1, Popped
            <4>4. Len(Tail(old)) < QueueSize
                <5>1. Len(Tail(old)) \in Nat /\ Len(old) \in Nat  BY <2>2, <4>3
                <5> QED BY <2>3, <2>4, <4>3, <5>1
            <4> QED BY <3>1, <4>2, <4>3, <4>4
        <3>2. CASE ~full
            <4>1. rest = old /\ Len(old) < QueueSize  BY <2>2, <2>3, <3>2
            <4> QED BY <2>2, <2>4, <3>2, <4>1
        <3> QED BY <3>1, <3>2
    <2> HIDE DEF rest
    <2>7. /\ line \in Seq(Payloads) /\ Len(line) = Len(rest) + 1 /\ Once(line)
          /\ \A o : o \in Range(line) <=> (o \in Range(rest) \/ o = p)
        <3>1. p \notin Range(rest)  BY <2>5, <2>6
        <3> QED BY <2>6, <3>1, Pushed
    <2> HIDE DEF line
    <2>8. /\ objs'[q].line = line /\ Len(objs') = Len(objs)
          /\ \A x \in 1..Len(objs) : x # q => objs'[x] = objs[x]
        <3>1. new \in CallbackQueues /\ new.event = objs[q].event /\ new.line = line
            BY <2>2, <2>7 DEF CallbackQueues
        <3> HIDE DEF new
        <3> QED BY <2>1, <2>2, <3>1, QueueSet
    <2> HIDE DEF full
    <2>9. put.state = "queued" /\ put.q = q /\ put.tries = 0  OBVIOUS
    <2> HIDE DEF put, new, q
    <2>10. Deques'
        <3>1. ASSUME NEW x \in 1..Len(objs), NEW o \in Payloads, x # q
              PROVE  o \in Range(objs'[x].line) <=> (job'[o].state = "queued" /\ job'[o].q = x)
            <4>1. objs'[x] = objs[x]  BY <2>8, <3>1
            <4>2. o \in Range(objs[x].line) <=> (job[o].state = "queued" /\ job[o].q = x)
                BY DEF Deques
            <4>3. CASE o = p  BY <1>0, <2>1, <2>9, <3>1, <4>1, <4>2, <4>3
            <4>4. CASE o # p /\ full /\ o = Head(old)
                <5>1. job'[o] = Over  BY <2>1, <4>4
                <5>2. job[o].q = q  BY <2>4, <2>6, <4>4
                <5> QED BY <1>00, <3>1, <4>1, <4>2, <5>1, <5>2
            <4>5. CASE o # p /\ ~(full /\ o = Head(old))
                <5>1. job'[o] = job[o]  BY <2>1, <4>5
                <5> QED BY <4>1, <4>2, <5>1
            <4> QED BY <4>3, <4>4, <4>5
        <3>2. ASSUME NEW o \in Payloads
              PROVE  o \in Range(line) <=> (job'[o].state = "queued" /\ job'[o].q = q)
            <4>1. CASE o = p  BY <2>1, <2>7, <2>9, <4>1
            <4>2. CASE o # p /\ full /\ o = Head(old)
                <5>1. job'[o] = Over  BY <2>1, <4>2
                <5> QED BY <1>00, <2>6, <2>7, <4>2, <5>1
            <4>3. CASE o # p /\ ~(full /\ o = Head(old))
                <5>1. job'[o] = job[o]  BY <2>1, <4>3
                <5> QED BY <2>4, <2>6, <2>7, <4>3, <5>1
            <4> QED BY <4>1, <4>2, <4>3
        <3>3. Len(line) <= QueueSize  BY <2>3, <2>6, <2>7
        <3>4. ASSUME NEW x \in 1..Len(objs), x # q
              PROVE  Len(objs'[x].line) <= QueueSize /\ Once(objs'[x].line)
            BY <2>8, <3>4 DEF Deques
        <3> QED BY <2>7, <2>8, <3>1, <3>2, <3>3, <3>4 DEF Deques
    <2>11. Semaphore'
        <3>1. \A o \in Payloads : job'[o] = job[o] \/ job'[o].state \notin {"posting", "backoff"}
            BY <1>00, <2>1, <2>9
        <3> QED BY <2>8, <3>1, SemaphoreStays
    <2>12. Attempts'  BY <1>00, <2>1, <2>9, CallbackAssumption DEF Attempts
    <2> QED BY <2>10, <2>11, <2>12
<1> QED BY <1>1, <1>2

\* A callback leaves its deque for a task behind the semaphore.
LEMMA LoopQueued ==
    ASSUME Queued, Typed', NEW q \in DOMAIN objs, LoopPops(q)
    PROVE  Queued'
<1> USE DEF Queued
<1> DEFINE old == objs[q].line
           p == Head(old)
           new == [objs[q] EXCEPT !.line = Tail(@),
                                  !.active = {o \in @ : job[o].state \in Alive} \union {p}]
<1>0. /\ q \in 1..Len(objs) /\ objs[q] \in CallbackQueues
      /\ objs \in Seq(CallbackQueues) /\ job \in [Payloads -> Callbacks]
    BY DEF Typed, Types
<1>1. objs' = [objs EXCEPT ![q] = new] /\ job' = [job EXCEPT ![p].state = "waiting"]
      /\ old # <<>>
    BY DEF LoopPops
<1>2. old \in Seq(Payloads)  BY <1>0 DEF CallbackQueues
<1>3. /\ Len(old) <= QueueSize /\ Once(old)
      /\ \A o \in Payloads : o \in Range(old) <=> (job[o].state = "queued" /\ job[o].q = q)
    BY <1>0 DEF Deques
<1>4. /\ Tail(old) \in Seq(Payloads) /\ Len(Tail(old)) + 1 = Len(old) /\ Once(Tail(old))
      /\ Head(old) \in Payloads /\ Head(old) \in Range(old)
      /\ \A o : o \in Range(Tail(old)) <=> (o \in Range(old) /\ o # Head(old))
    <2> HIDE DEF old
    <2> QED BY <1>1, <1>2, <1>3, Popped
<1>5. p \in Payloads /\ job[p].state = "queued" /\ job[p].q = q  BY <1>3, <1>4
<1>6. /\ objs'[q].line = Tail(old) /\ Len(objs') = Len(objs)
      /\ \A x \in 1..Len(objs) : x # q => objs'[x] = objs[x]
    <2>1. new \in CallbackQueues /\ new.event = objs[q].event /\ new.line = Tail(old)
        BY <1>0, <1>4, <1>5 DEF CallbackQueues
    <2> HIDE DEF new
    <2> QED BY <1>0, <1>1, <2>1, QueueSet
<1>7. /\ job'[p].state = "waiting" /\ job'[p].q = q /\ job'[p].tries = job[p].tries
      /\ \A o \in Payloads \ {p} : job'[o] = job[o]
    BY <1>0, <1>1, <1>5 DEF Callbacks
<1> HIDE DEF new
<1>8. Deques'
    <2>1. Len(Tail(old)) <= QueueSize
        <3>1. Len(Tail(old)) \in Nat /\ Len(old) \in Nat /\ QueueSize \in Nat
            BY <1>2, <1>4, CallbackAssumption
        <3> QED BY <1>3, <1>4, <3>1
    <2>2. \A o \in Payloads :
              o \in Range(Tail(old)) <=> (job'[o].state = "queued" /\ job'[o].q = q)
        BY <1>3, <1>4, <1>7
    <2>3. ASSUME NEW x \in 1..Len(objs), x # q
          PROVE  /\ Len(objs'[x].line) <= QueueSize /\ Once(objs'[x].line)
                 /\ \A o \in Payloads :
                     o \in Range(objs'[x].line) <=> (job'[o].state = "queued" /\ job'[o].q = x)
        <3>1. objs'[x] = objs[x]  BY <1>6, <2>3
        <3>2. /\ Len(objs[x].line) <= QueueSize /\ Once(objs[x].line)
              /\ \A o \in Payloads :
                  o \in Range(objs[x].line) <=> (job[o].state = "queued" /\ job[o].q = x)
            BY DEF Deques
        <3> QED BY <1>5, <1>7, <2>3, <3>1, <3>2
    <2> HIDE DEF old
    <2> QED BY <1>4, <1>6, <2>1, <2>2, <2>3 DEF Deques
<1>9. Semaphore'
    <2>1. \A o \in Payloads : job'[o] = job[o] \/ job'[o].state \notin {"posting", "backoff"}
        BY <1>7
    <2> QED BY <1>6, <2>1, SemaphoreStays
<1>10. Attempts'  BY <1>5, <1>7, CallbackAssumption DEF Attempts
<1> QED BY <1>8, <1>9, <1>10

\* A task enters the semaphore when there is room, and leaves with its last attempt.
LEMMA TaskQueued ==
    ASSUME Queued, Typed', NEW p \in Payloads, TaskStep(p)
    PROVE  Queued'
<1> USE DEF Queued
<1>0. objs' = objs /\ job \in [Payloads -> Callbacks] /\ job[p].state \in Alive
    BY DEF TaskStep, Tries, PostEnds, Typed, Types, Alive
<1>00. Over.state = "over" /\ Over.tries = 0 /\ Over.q = 0  BY DEF Over, New
<1>1. /\ \A o \in Payloads \ {p} : job'[o] = job[o]
      /\ job'[p].state \in {"over", "posting", "backoff"}
    <2>1. CASE Tries(p)
        <3>1. CASE StopSet(job[p].q)  BY <1>0, <1>00, <2>1, <3>1 DEF Tries, Callbacks
        <3>2. CASE ~StopSet(job[p].q)  BY <1>0, <2>1, <3>2 DEF Tries, Callbacks
        <3> QED BY <3>1, <3>2
    <2>2. CASE PostEnds(p)  BY <1>0, <1>00, <2>2 DEF PostEnds, Callbacks
    <2> QED BY <2>1, <2>2 DEF TaskStep
<1>2. Deques'
    <2>1. job[p].state # "queued" /\ job'[p].state # "queued"  BY <1>0, <1>1 DEF Alive
    <2> QED BY <1>0, <1>1, <2>1, DequesStay
<1>3. CASE Tries(p) /\ ~StopSet(job[p].q)
    <2>1. /\ job'[p].state = "posting" /\ job'[p].q = job[p].q
          /\ job'[p].tries = job[p].tries + 1
        BY <1>0, <1>3 DEF Tries, Callbacks
    <2>2. job[p].tries \in Nat /\ MaxAttempts \in Nat \ {0}
        BY <1>0, CallbackAssumption DEF Callbacks
    <2>3. job[p].tries < MaxAttempts
        BY <1>3, <2>2 DEF Tries, Attempts
    <2>4. Attempts'  BY <1>1, <2>1, <2>2, <2>3 DEF Attempts
    <2>5. CASE job[p].state = "backoff"
        <3>1. Semaphore'  BY <1>0, <1>1, <2>1, <2>5, SemaphoreStays
        <3> QED BY <1>2, <2>4, <3>1
    <2>6. CASE job[p].state # "backoff"
        <3>1. ASSUME NEW x \in 1..Len(objs)
              PROVE  IsFiniteSet(Holding(x)') /\ Cardinality(Holding(x)') <= MaxConcurrent
            <4> DEFINE old == Holding(x)
            <4>1. IsFiniteSet(old) /\ Cardinality(old) <= MaxConcurrent  BY DEF Semaphore
            <4>2. CASE x # job[p].q
                <5>1. Holding(x)' = old  BY <1>1, <2>1, <4>2 DEF Holding
                <5> QED BY <4>1, <5>1
            <4>3. CASE x = job[p].q
                <5>1. Cardinality(old) < MaxConcurrent  BY <1>3, <2>6, <4>3 DEF Tries
                <5>2. Holding(x)' = old \union {p}  BY <1>1, <2>1, <4>3 DEF Holding
                <5>3. p \notin old  BY <1>3, <2>6 DEF Holding, Tries
                <5> HIDE DEF old
                <5>4. /\ IsFiniteSet(old \union {p})
                      /\ Cardinality(old \union {p}) = Cardinality(old) + 1
                    BY <4>1, <5>3, FS_AddElement
                <5>5. Cardinality(old) \in Nat /\ MaxConcurrent \in Nat
                    BY <4>1, FS_CardinalityType, CallbackAssumption
                <5> QED BY <5>1, <5>2, <5>4, <5>5
            <4> QED BY <4>2, <4>3
        <3>2. Semaphore'  BY <1>0, <3>1 DEF Semaphore
        <3> QED BY <1>2, <2>4, <3>2
    <2> QED BY <2>5, <2>6
<1>4. CASE ~(Tries(p) /\ ~StopSet(job[p].q))
    <2>1. \/ job'[p] = Over
          \/ /\ job'[p].state = "backoff" /\ job[p].state = "posting"
             /\ job'[p].q = job[p].q /\ job'[p].tries = job[p].tries
             /\ job[p].tries < MaxAttempts
        <3>1. CASE Tries(p)  BY <1>0, <1>4, <3>1 DEF Tries
        <3>2. CASE PostEnds(p)  BY <1>0, <3>2 DEF PostEnds, Callbacks
        <3> QED BY <3>1, <3>2 DEF TaskStep
    <2>2. Semaphore'  BY <1>0, <1>00, <1>1, <2>1, SemaphoreStays
    <2>3. Attempts'
        <3>1. 0 <= MaxAttempts  BY CallbackAssumption
        <3> QED BY <1>00, <1>1, <2>1, <3>1 DEF Attempts
    <2> QED BY <1>2, <2>2, <2>3
<1> QED BY <1>3, <1>4

\* The steps of stop().
LEMMA StopQueued ==
    ASSUME Queued, Typed', NEW s \in Stops, StopGoesOn(s)
    PROVE  Queued'
<1> USE DEF Queued
<1>0. /\ objs \in Seq(CallbackQueues) /\ job \in [Payloads -> Callbacks]
      /\ DOMAIN objs = 1..Len(objs) /\ objs' \in Seq(CallbackQueues)
      /\ \A q \in 1..Len(objs) : objs[q] \in CallbackQueues
    BY DEF Typed, Types
<1>00. Over.state = "over" /\ Over.tries = 0 /\ Over.q = 0  BY DEF Over, New
<1>1. CASE StopJoined(s) \/ StopCalls(s)
    BY <1>1, QueuedStays DEF StopJoined, StopCalls
<1>2. CASE StopsLoop(s) \/ StopsSession(s) \/ SessionClosed(s)
    <2>1. job' = job /\ \/ objs' = objs
                        \/ objs' = [objs EXCEPT ![stop[s].q].cancelled = TRUE]
                        \/ objs' = [objs EXCEPT ![stop[s].q].active = {}]
                        \/ objs' = [objs EXCEPT ![stop[s].q].session = FALSE]
        BY <1>2 DEF StopsLoop, StopsSession, SessionClosed
    <2>2. DOMAIN objs' = DOMAIN objs  BY <2>1
    <2>3. Len(objs') = Len(objs)  BY <1>0, <2>2
    <2>4. ASSUME NEW q \in 1..Len(objs) PROVE objs'[q].line = objs[q].line
        <3>1. CASE q # stop[s].q  BY <2>1, <3>1
        <3>2. CASE q = stop[s].q
            <4>1. \/ objs'[q] = objs[q]
                  \/ objs'[q] = [objs[q] EXCEPT !.cancelled = TRUE]
                  \/ objs'[q] = [objs[q] EXCEPT !.active = {}]
                  \/ objs'[q] = [objs[q] EXCEPT !.session = FALSE]
                BY <1>0, <2>1, <3>2
            <4> QED BY <1>0, <4>1 DEF CallbackQueues
        <3> QED BY <3>1, <3>2
    <2> QED BY <2>1, <2>3, <2>4, QueuedStays
<1>3. CASE StopsTasks(s)
    <2> DEFINE alive == {p \in objs[stop[s].q].active : job[p].state \in Alive}
    <2>1. objs' = objs /\ job' = [p \in Payloads |-> IF p \in alive THEN Over ELSE job[p]]
        BY <1>3 DEF StopsTasks
    <2>2. \A p \in alive : job[p].state \in Alive  OBVIOUS
    <2> HIDE DEF alive
    <2>3. Deques'  BY <1>00, <2>1, <2>2, DequesStay DEF Alive
    <2>4. Semaphore'  BY <1>00, <2>1, SemaphoreStays
    <2>5. Attempts'  BY <1>00, <2>1, CallbackAssumption DEF Attempts
    <2> QED BY <2>3, <2>4, <2>5
<1>4. CASE StopLeaves(s)
    <2>1. CASE stop[s].q = 0
        BY <1>4, <2>1, QueuedStays DEF StopLeaves
    <2>2. CASE stop[s].q # 0
        <3> DEFINE q == stop[s].q
                   old == objs[q].line
        <3>1. q \in 1..Len(objs)  BY <2>2 DEF Typed, Refers
        <3>2. /\ objs' = [objs EXCEPT ![q].line = <<>>]
              /\ job' = [p \in Payloads |-> IF p \in Range(old) THEN Over ELSE job[p]]
            BY <1>4, <2>2 DEF StopLeaves
        <3>3. DOMAIN objs' = DOMAIN objs  BY <3>2
        <3>4. /\ Len(objs') = Len(objs) /\ objs'[q].line = <<>>
              /\ \A x \in 1..Len(objs) : x # q => objs'[x] = objs[x]
            BY <1>0, <3>1, <3>2, <3>3 DEF CallbackQueues
        <3>5. \A p \in Payloads : p \in Range(old) <=> (job[p].state = "queued" /\ job[p].q = q)
            BY <3>1 DEF Deques
        <3> HIDE DEF q, old
        <3>6. Deques'
            <4>1. Len(<<>>) = 0 /\ 1..0 = {}  OBVIOUS
            <4>2. Range(<<>>) = {}  BY DEF Range
            <4>3. QueueSize \in Nat  BY CallbackAssumption
            <4>4. \A p \in Payloads : ~(job'[p].state = "queued" /\ job'[p].q = q)
                BY <1>00, <3>2, <3>5
            <4>5. ASSUME NEW x \in 1..Len(objs), x # q
                  PROVE  /\ Len(objs'[x].line) <= QueueSize /\ Once(objs'[x].line)
                         /\ \A p \in Payloads : p \in Range(objs'[x].line)
                                <=> (job'[p].state = "queued" /\ job'[p].q = x)
                <5>1. objs'[x] = objs[x]  BY <3>4, <4>5
                <5>2. /\ Len(objs[x].line) <= QueueSize /\ Once(objs[x].line)
                      /\ \A p \in Payloads :
                          p \in Range(objs[x].line) <=> (job[p].state = "queued" /\ job[p].q = x)
                    BY DEF Deques
                <5> QED BY <1>00, <3>2, <3>5, <4>5, <5>1, <5>2
            <4> QED BY <3>4, <4>1, <4>2, <4>3, <4>4, <4>5 DEF Deques, Once
        <3>7. Semaphore'  BY <1>00, <3>2, <3>4, SemaphoreStays
        <3>8. Attempts'  BY <1>00, <3>2, CallbackAssumption DEF Attempts
        <3> QED BY <3>6, <3>7, <3>8
    <2> QED BY <2>1, <2>2
<1> QED BY <1>1, <1>2, <1>3, <1>4 DEF StopGoesOn

\* All steps.
LEMMA QueuedNext == Queued /\ [JobNext]_jobVars => Queued'
<1> SUFFICES ASSUME Queued, [JobNext]_jobVars PROVE Queued'  OBVIOUS
<1>0. Typed /\ Deques  BY DEF Queued
<1>00. /\ objs \in Seq(CallbackQueues) /\ DOMAIN objs = 1..Len(objs)
       /\ \A q \in 1..Len(objs) : objs[q] \in CallbackQueues
    BY <1>0 DEF Typed, Types
<1>1. CASE Post
    <2>1. Typed'  BY <1>0, <1>1, PostTyped
    <2> QED BY <1>1, <2>1, QueuedStays DEF Post
<1>2. ASSUME NEW w \in DOMAIN workers, WorkerBegins(w) PROVE Queued'
    <2>1. Typed'  BY <1>0, <1>2, WorkerTyped
    <2>2. Len(objs) \in Nat  BY <1>00
    <2> DEFINE fresh == [event |-> workers[w].home, line |-> <<>>, loop |-> "none",
                         cancelled |-> FALSE, session |-> FALSE, active |-> {}]
               q == IF single = 0 THEN Len(objs) + 1 ELSE single
               made == IF single = 0 THEN Append(objs, fresh) ELSE objs
    <2>3. /\ job' = job
          /\ \/ objs' = made
             \/ objs' = [made EXCEPT ![q].loop = "run", ![q].cancelled = FALSE,
                                     ![q].session = TRUE]
        BY <1>2 DEF WorkerBegins
    <2>4. fresh.line = <<>>  OBVIOUS
    <2>5. objs' \in Seq(CallbackQueues)  BY <2>1 DEF Typed, Types
    <2>6. CASE single # 0
        <3>1. made = objs /\ q = single /\ single \in 1..Len(objs)
            BY <1>0, <2>6 DEF Typed, Refers
        <3>2. DOMAIN objs' = DOMAIN objs  BY <2>3, <3>1
        <3>3. Len(objs') = Len(objs)  BY <1>00, <2>5, <3>2
        <3>4. ASSUME NEW x \in 1..Len(objs) PROVE objs'[x].line = objs[x].line
            <4>1. CASE x # single  BY <2>3, <3>1, <4>1
            <4>2. CASE x = single
                <5> DEFINE new == [objs[x] EXCEPT !.loop = "run", !.cancelled = FALSE,
                                                  !.session = TRUE]
                <5>1. objs' = objs \/ objs' = [objs EXCEPT ![x] = new]
                    BY <2>3, <3>1, <4>2, ZenonT(30)
                <5>2. new.line = objs[x].line  BY <1>00 DEF CallbackQueues
                <5> HIDE DEF new
                <5> QED BY <1>00, <5>1, <5>2
            <4> QED BY <4>1, <4>2
        <3> QED BY <2>1, <2>3, <3>3, <3>4, QueuedStays
    <2>7. CASE single = 0
        <3>1. made = Append(objs, fresh) /\ q = Len(objs) + 1  BY <2>7
        <3>2. DOMAIN fresh = {"event", "line", "loop", "cancelled", "session", "active"}
              /\ fresh \in CallbackQueues
            <4>1. workers[w].home \in Nat
                <5>1. workers[w] \in Workers  BY <1>0 DEF Typed, Types
                <5> QED BY <5>1 DEF Workers
            <4>2. <<>> \in Seq(Payloads)  OBVIOUS
            <4> QED BY <4>1, <4>2 DEF CallbackQueues
        <3> HIDE DEF fresh, q
        <3> HIDE DEF made
        <3>3. /\ Len(made) = q /\ DOMAIN made = 1..q /\ made[q] = fresh
              /\ \A x \in 1..Len(objs) : made[x] = objs[x]
            <4>1. /\ made \in Seq(CallbackQueues) /\ Len(made) = q /\ made[q] = fresh
                  /\ \A x \in 1..Len(objs) : made[x] = objs[x]
                BY <1>00, <3>1, <3>2, AppendProperties
            <4> QED BY <4>1
        <3>4. DOMAIN objs' = 1..q  BY <2>3, <3>3
        <3>5. Len(objs') = q  BY <2>2, <2>5, <3>1, <3>4
        <3>6. q \in 1..q /\ \A x \in 1..Len(objs) : x \in 1..q /\ x # q  BY <2>2, <3>1
        <3>7. objs'[q].line = <<>>  BY <2>3, <2>4, <3>2, <3>3, <3>6
        <3>8. \A x \in 1..Len(objs) : objs'[x].line = objs[x].line
            BY <2>3, <3>3, <3>6
        <3> QED BY <2>1, <2>3, <3>1, <3>5, <3>7, <3>8, QueuedGrows
    <2> QED BY <2>6, <2>7
<1>3. ASSUME NEW w \in DOMAIN workers, WorkerEnds(w) PROVE Queued'
    <2>1. Typed'  BY <1>0, <1>3, WorkerTyped
    <2> QED BY <1>3, <2>1, QueuedStays DEF WorkerEnds
<1>4. ASSUME NEW w \in DOMAIN workers, NEW p \in Payloads, Finishes(w, p) PROVE Queued'
    BY <1>0, <1>4, FinishTyped, FinishQueued
<1>5. ASSUME NEW q \in DOMAIN objs, LoopPops(q) PROVE Queued'
    BY <1>0, <1>5, LoopTyped, LoopQueued
<1>6. ASSUME NEW q \in DOMAIN objs, LoopEnds(q) PROVE Queued'
    <2>1. Typed'  BY <1>0, <1>6, LoopTyped
    <2>2. objs' = [objs EXCEPT ![q].loop = "done"] /\ job' = job  BY <1>6 DEF LoopEnds
    <2>3. objs' \in Seq(CallbackQueues) /\ DOMAIN objs' = DOMAIN objs
        BY <2>1, <2>2 DEF Typed, Types
    <2>4. Len(objs') = Len(objs)  BY <1>00, <2>3
    <2>5. \A x \in 1..Len(objs) : objs'[x].line = objs[x].line
        BY <1>00, <2>2 DEF CallbackQueues
    <2> QED BY <2>1, <2>2, <2>4, <2>5, QueuedStays
<1>7. ASSUME NEW p \in Payloads, TaskStep(p) PROVE Queued'
    BY <1>0, <1>7, TaskTyped, TaskQueued
<1>8. ASSUME NEW s \in Stops, StopBegins(s) PROVE Queued'
    <2>1. Typed'  BY <1>0, <1>8, StopBeginsTyped
    <2> QED BY <1>8, <2>1, QueuedStays DEF StopBegins
<1>9. ASSUME NEW s \in Stops, StopGoesOn(s) PROVE Queued'
    BY <1>0, <1>9, StopGoesTyped, StopQueued
<1>10. CASE UNCHANGED jobVars
    <2>1. Typed'  BY <1>0, <1>10 DEF Typed, Types, Refers, jobVars
    <2> QED BY <1>10, <2>1, QueuedStays DEF jobVars
<1> QED BY <1>1, <1>2, <1>3, <1>4, <1>5, <1>6, <1>7, <1>8, <1>9, <1>10
        DEF JobNext, WorkerStep, LoopStep

\* Nothing is there at the beginning.
LEMMA QueuedInit == JobInit => Queued
<1> SUFFICES ASSUME JobInit PROVE Queued  OBVIOUS
<1> USE DEF JobInit
<1>1. Types
    <2>1. /\ <<>> \in Seq(GenerateQueues) /\ <<>> \in Seq(Workers)
          /\ <<>> \in Seq(CallbackQueues)
        OBVIOUS
    <2>2. New \in Callbacks /\ NoStop \in Requests  BY DEF New, Callbacks, NoStop, Requests
    <2> QED BY <2>1, <2>2 DEF Types
<1>2. /\ Len(queues) = 0 /\ Len(workers) = 0 /\ Len(objs) = 0
      /\ \A p \in Payloads : job[p].state = "new" /\ job[p].tries = 0
      /\ \A s \in Stops : stop[s].pc = "idle" /\ stop[s].q = 0
    BY DEF New, NoStop
<1>3. Refers  BY <1>2 DEF Refers, Alive, Busy, Running, Suspended, Inside
<1>4. Deques /\ Semaphore  BY <1>2 DEF Deques, Semaphore
<1>5. Attempts  BY <1>2, CallbackAssumption DEF Attempts
<1> QED BY <1>1, <1>3, <1>4, <1>5 DEF Queued, Typed

----------------------------------------------------------------------------
(* No call in the middle of a /stop.                                       *)

\* There is one /stop at work at most.
OneStop == \A s, t \in Stops : stop[s].pc \in Busy /\ stop[t].pc \in Busy => s = t
Quiet == \A s \in Stops : stop[s].pc \notin Busy

\* A worker that runs is the one of the instance.
Employed ==
    \A w \in 1..Len(workers) : workers[w].pc # "ended" =>
        inst # 0 /\ workers[w].home = inst /\ queues[inst].task = w

\* A task is known to its callback queue and has a session, and so has a loop.
Tasks ==
    \A p \in Payloads : job[p].state \in Alive =>
        p \in objs[job[p].q].active /\ objs[job[p].q].session
Loops == \A q \in 1..Len(objs) : objs[q].loop = "run" => objs[q].session

\* Without a /stop at work the singleton is the instance's, with its event, and runs.
Opened ==
    Quiet =>
        /\ inst = 0 => single = 0
        /\ inst # 0 => single = queues[inst].cbq /\ ~queues[inst].stopped
        /\ single # 0 => /\ objs[single].event = inst
                         /\ objs[single].loop = "run" /\ ~objs[single].cancelled

NoTask(q) == \A p \in Payloads : job[p].q = q => job[p].state \notin Alive
Clean(q) ==
    /\ objs[q].loop # "run" /\ ~objs[q].session
    /\ \A p \in Payloads : job[p].q = q => job[p].state \notin Alive \union {"queued"}

\* Callback queues that are not the singleton any more have been stopped.
Left == \A q \in 1..Len(objs) : q # single => Clean(q)

\* How far a /stop has come.
Come(s) ==
    /\ stop[s].home = inst
    /\ stop[s].pc = "join" =>
          stop[s].worker = queues[inst].task /\ workers[stop[s].worker].cancelled
    /\ stop[s].pc # "join" => \A w \in 1..Len(workers) : workers[w].pc = "ended"
    /\ stop[s].pc \in {"join", "feeding"} => single = queues[inst].cbq
    /\ stop[s].pc \in Inside \union {"leaving"} => stop[s].q = single
    /\ stop[s].pc = "leaving" /\ single = 0 => stop[s].last
    /\ single # 0 =>
          /\ stop[s].pc = "single" \/ stop[s].last => Clean(single)
          /\ stop[s].pc \in {"looped", "cancelling", "gather", "closing", "close", "leaving"}
                => objs[single].loop # "run"
          /\ stop[s].pc \in {"gather", "closing", "close", "leaving"} => NoTask(single)
          /\ stop[s].pc = "leaving" => ~objs[single].session
Closing == \A s \in Stops : stop[s].pc \in Busy => Come(s)

Alone ==
    /\ OneStop /\ Employed /\ Tasks /\ Loops /\ Opened /\ Left /\ Closing
    /\ ~leaked

DeliveryInv == Queued /\ (~overlapped => Alone)

\* A POST, while no /stop is at work: the one worker is the one it starts.
LEMMA PostAlone ==
    ASSUME Queued, Typed', Alone, Post, ~overlapped'
    PROVE  Alone'
<1> USE DEF Alone
<1>0. /\ {Len(queues), Len(workers)} \subseteq Nat /\ queues \in Seq(GenerateQueues)
      /\ workers \in Seq(Workers) /\ DOMAIN queues = 1..Len(queues)
      /\ inst \in 0..Len(queues) /\ queues' \in Seq(GenerateQueues)
      /\ workers' \in Seq(Workers)
    BY DEF Queued, Typed, Types, Refers
<1>1. UNCHANGED <<single, objs, job, stop, leaked>> /\ Free /\ ~Overlap  BY DEF Post
<1>2. Quiet  BY <1>1 DEF Quiet, Free, Overlap, Busy
<1>3. \A w \in 1..Len(workers) : workers[w].pc = "ended"
    BY DEF Post, Employed, Staffed
<1> DEFINE task == Len(workers) + 1
           new == [home |-> inst', pc |-> "born", cancelled |-> FALSE]
<1>4. /\ inst' # 0 /\ queues'[inst'].task = task /\ ~queues'[inst'].stopped
      /\ single = queues'[inst'].cbq
      /\ single # 0 => objs[single].event = inst'
    <2>1. CASE inst = 0
        <3> DEFINE fresh == [stopped |-> FALSE, task |-> task, cbq |-> 0]
        <3>1. queues' = Append(queues, fresh) /\ inst' = Len(queues) + 1  BY <2>1 DEF Post
        <3>2. fresh.task = task /\ ~fresh.stopped /\ fresh.cbq = 0  OBVIOUS
        <3> HIDE DEF fresh
        <3>3. queues'[Len(queues) + 1] = fresh  BY <1>0, <3>1
        <3>4. single = 0  BY <1>2, <2>1 DEF Opened
        <3> QED BY <1>0, <3>1, <3>2, <3>3, <3>4
    <2>2. CASE inst # 0
        <3> DEFINE old == queues[inst]
                   fresh == [old EXCEPT !.stopped = FALSE, !.task = task]
        <3>1. queues' = [queues EXCEPT ![inst] = fresh] /\ inst' = inst  BY <2>2 DEF Post
        <3>2. inst \in 1..Len(queues) /\ old \in GenerateQueues  BY <1>0, <2>2
        <3>3. fresh.task = task /\ ~fresh.stopped /\ fresh.cbq = old.cbq
            BY <3>2 DEF GenerateQueues
        <3> HIDE DEF fresh
        <3>4. queues'[inst] = fresh  BY <1>0, <3>1, <3>2
        <3>5. single = queues[inst].cbq /\ (single # 0 => objs[single].event = inst)
            BY <1>2, <2>2 DEF Opened
        <3> QED BY <2>2, <3>1, <3>3, <3>4, <3>5
    <2> QED BY <2>1, <2>2
<1>5. /\ workers' = Append(workers, new) /\ Len(workers') = task
      /\ workers'[task] = new /\ \A w \in 1..Len(workers) : workers'[w] = workers[w]
    <2>1. workers' = Append(workers, new)  BY DEF Post
    <2> HIDE DEF new
    <2> QED BY <1>0, <2>1
<1>6. Employed'
    <2>1. new.home = inst'  OBVIOUS
    <2> HIDE DEF new
    <2>2. \A w \in 1..task : w \in 1..Len(workers) \/ w = task  BY <1>0
    <2> QED BY <1>3, <1>4, <1>5, <2>1, <2>2 DEF Employed
<1>7. Opened'
    <2>1. single # 0 => objs[single].loop = "run" /\ ~objs[single].cancelled
        BY <1>2 DEF Opened
    <2> QED BY <1>1, <1>4, <2>1 DEF Opened
<1>8. OneStop' /\ Closing'  BY <1>1, <1>2 DEF OneStop, Closing, Come, Quiet
<1>9. Tasks' /\ Loops' /\ Left' /\ ~leaked'
    BY <1>1 DEF Tasks, Loops, Left, Clean
<1> QED BY <1>6, <1>7, <1>8, <1>9

\* A worker that may go on is not being waited for.
LEMMA WorkingQuiet ==
    ASSUME Queued, Alone, Free, NEW w \in 1..Len(workers),
           workers[w].pc # "ended", ~workers[w].cancelled
    PROVE  /\ Quiet /\ inst \in 1..Len(queues)
           /\ workers[w].home = inst /\ queues[inst].task = w
<1>1. inst # 0 /\ workers[w].home = inst /\ queues[inst].task = w
    BY DEF Alone, Employed
<1>2. Quiet
    <2> SUFFICES ASSUME NEW s \in Stops, stop[s].pc \in Busy PROVE FALSE  BY DEF Quiet
    <2>1. stop[s].pc = "join"  BY DEF Alone, Closing, Come
    <2>2. stop[s].worker = w /\ workers[w].cancelled  BY <1>1, <2>1 DEF Alone, Closing, Come
    <2> QED BY <2>2
<1>3. inst \in 1..Len(queues)  BY <1>1 DEF Queued, Typed, Refers
<1> QED BY <1>1, <1>2, <1>3

\* It opens the singleton of its instance, or finds it open.
LEMMA BeginsAlone ==
    ASSUME Queued, Typed', Alone, NEW w \in DOMAIN workers, WorkerBegins(w)
    PROVE  Alone'
<1> USE DEF Alone
<1>0. /\ {Len(queues), Len(workers), Len(objs)} \subseteq Nat /\ queues \in Seq(GenerateQueues)
      /\ workers \in Seq(Workers) /\ objs \in Seq(CallbackQueues)
      /\ DOMAIN queues = 1..Len(queues) /\ DOMAIN workers = 1..Len(workers)
      /\ DOMAIN objs = 1..Len(objs) /\ single \in 0..Len(objs)
      /\ queues' \in Seq(GenerateQueues) /\ workers' \in Seq(Workers)
      /\ objs' \in Seq(CallbackQueues)
    BY DEF Queued, Typed, Types, Refers
<1>1. Free /\ workers[w].pc = "born" /\ ~workers[w].cancelled  BY DEF WorkerBegins
<1>2. /\ Quiet /\ inst \in 1..Len(queues)
      /\ workers[w].home = inst /\ queues[inst].task = w
    BY <1>0, <1>1, WorkingQuiet
<1>3. /\ single = queues[inst].cbq /\ ~queues[inst].stopped
      /\ single # 0 => /\ objs[single].event = inst
                       /\ objs[single].loop = "run" /\ ~objs[single].cancelled
    BY <1>2 DEF Opened
<1> DEFINE q == IF single = 0 THEN Len(objs) + 1 ELSE single
           fresh == [event |-> inst, line |-> <<>>, loop |-> "none",
                     cancelled |-> FALSE, session |-> FALSE, active |-> {}]
           made == IF single = 0 THEN Append(objs, fresh) ELSE objs
           open == [made[q] EXCEPT !.loop = "run", !.cancelled = FALSE, !.session = TRUE]
<1>4. /\ single' = q /\ queues' = [queues EXCEPT ![inst].cbq = q]
      /\ workers' = [workers EXCEPT ![w].pc = "run"]
      /\ IF made[q].loop = "run" THEN objs' = made /\ UNCHANGED leaked
         ELSE objs' = [made EXCEPT ![q] = open] /\ leaked' = (leaked \/ made[q].session)
      /\ UNCHANGED <<inst, job, stop>>
    BY <1>2, ZenonT(30) DEF WorkerBegins
<1>5. /\ \A x \in 1..Len(objs) : objs'[x] = objs[x]
      /\ Len(objs') = q \/ (Len(objs') = Len(objs) /\ q = single)
      /\ single # 0 => Len(objs') = Len(objs)
      /\ q # 0 /\ objs'[q].event = inst /\ objs'[q].loop = "run" /\ ~objs'[q].cancelled
      /\ single = 0 => objs'[q].session
      /\ ~leaked'
    <2>1. CASE single # 0
        <3>1. made = objs /\ q = single  BY <2>1
        <3> QED BY <1>3, <1>4, <2>1, <3>1
    <2>2. CASE single = 0
        <3>1. made = Append(objs, fresh) /\ q = Len(objs) + 1  BY <2>2
        <3>2. /\ DOMAIN fresh = {"event", "line", "loop", "cancelled", "session", "active"}
              /\ fresh.event = inst /\ fresh.loop = "none" /\ ~fresh.session
            OBVIOUS
        <3>3. fresh \in CallbackQueues
            <4>1. <<>> \in Seq(Payloads) /\ inst \in Nat  BY <1>0, <1>2
            <4> QED BY <4>1 DEF CallbackQueues
        <3> HIDE DEF fresh, made, q
        <3>4. /\ made \in Seq(CallbackQueues) /\ Len(made) = q /\ made[q] = fresh
              /\ \A x \in 1..Len(objs) : made[x] = objs[x]
            BY <1>0, <3>1, <3>3, AppendProperties
        <3>5. /\ open.event = inst /\ open.loop = "run" /\ ~open.cancelled /\ open.session
            BY <3>2, <3>4
        <3>6. objs' = [made EXCEPT ![q] = open] /\ ~leaked'  BY <1>4, <3>2, <3>4
        <3> HIDE DEF open
        <3>7. DOMAIN made = 1..q /\ q \in 1..q /\ q # 0
              /\ \A x \in 1..Len(objs) : x \in 1..q /\ x # q
            BY <1>0, <3>1, <3>4
        <3>8. objs'[q] = open /\ \A x \in 1..Len(objs) : objs'[x] = objs[x]
            BY <3>4, <3>6, <3>7
        <3>9. Len(objs') = q
            <4>1. DOMAIN objs' = 1..q  BY <3>6, <3>7
            <4> QED BY <1>0, <3>1, <4>1
        <3> QED BY <2>2, <3>5, <3>6, <3>7, <3>8, <3>9
    <2> QED BY <2>1, <2>2
<1>6. /\ queues'[inst].cbq = q /\ queues'[inst].task = w /\ ~queues'[inst].stopped
      /\ Len(workers') = Len(workers)
      /\ \A x \in 1..Len(workers) :
            /\ workers'[x].home = workers[x].home
            /\ workers[x].pc = "ended" => workers'[x].pc = "ended"
    <2>1. queues[inst] \in GenerateQueues  BY <1>0, <1>2
    <2>2. queues'[inst] = [queues[inst] EXCEPT !.cbq = q]  BY <1>0, <1>2, <1>4
    <2>3. DOMAIN workers' = DOMAIN workers  BY <1>4
    <2>4. Len(workers') = Len(workers)  BY <1>0, <2>3
    <2>5. \A x \in 1..Len(workers) : x # w => workers'[x] = workers[x]  BY <1>4
    <2>6. workers[w] \in Workers /\ workers'[w] = [workers[w] EXCEPT !.pc = "run"]
        BY <1>0, <1>4
    <2>7. workers'[w].home = workers[w].home  BY <2>6 DEF Workers
    <2>8. /\ queues'[inst].cbq = q /\ queues'[inst].task = queues[inst].task
          /\ queues'[inst].stopped = queues[inst].stopped
        BY <2>1, <2>2 DEF GenerateQueues
    <2> QED BY <1>1, <1>2, <1>3, <2>4, <2>5, <2>7, <2>8
<1> HIDE DEF made, open, fresh
<1>7. Employed'
    <2>1. \A x \in 1..Len(workers) : workers[x].pc # "ended" => x = w  BY <1>2 DEF Employed
    <2> QED BY <1>2, <1>4, <1>6, <2>1 DEF Employed
<1>8. Opened'  BY <1>2, <1>4, <1>5, <1>6 DEF Opened
<1>9. OneStop' /\ Closing'
    <2>1. \A s \in Stops : stop'[s].pc \notin Busy  BY <1>2, <1>4 DEF Quiet
    <2> QED BY <2>1 DEF OneStop, Closing, Come
<1>10. \A x \in 1..Len(objs') : x \in 1..Len(objs) \/ x = q  BY <1>0, <1>5
<1>11. Tasks'
    <2>1. \A p \in Payloads : job[p].state \in Alive => job[p].q \in 1..Len(objs)
        BY DEF Queued, Typed, Refers
    <2> QED BY <1>4, <1>5, <2>1 DEF Tasks
<1>12. Loops'
    <2>1. single # 0 => objs'[q].session  BY <1>0, <1>3, <1>5 DEF Loops
    <2> QED BY <1>5, <1>10, <2>1 DEF Loops
<1>13. Left'
    <2>1. \A x \in 1..Len(objs) : x # q => x # single  OBVIOUS
    <2> HIDE DEF q
    <2> QED BY <1>4, <1>5, <1>10, <2>1 DEF Left, Clean
<1> QED BY <1>5, <1>7, <1>8, <1>9, <1>11, <1>12, <1>13

\* Callbacks come to their end, or to the deque of a singleton that is open.
LEMMA Fade ==
    ASSUME Queued, Alone, UNCHANGED <<inst, queues, workers, single, stop, leaked>>,
           Len(objs') = Len(objs),
           \A x \in 1..Len(objs) : /\ objs'[x].event = objs[x].event
                                   /\ objs'[x].loop = objs[x].loop
                                   /\ objs'[x].cancelled = objs[x].cancelled
                                   /\ objs'[x].session = objs[x].session
                                   /\ objs'[x].active = objs[x].active,
           \A p \in Payloads :
               /\ job'[p].state \in Alive => job[p].state \in Alive /\ job'[p].q = job[p].q
               /\ job'[p].state = "queued" =>
                     job'[p] = job[p] \/ (Quiet /\ job'[p].q = single)
    PROVE  Alone'
<1> USE DEF Alone
<1>0. /\ single # 0 => single \in 1..Len(objs)
      /\ \A p \in Payloads : job[p].state \in Alive => job[p].q \in 1..Len(objs)
    BY DEF Queued, Typed, Refers
<1>1. OneStop' /\ Employed' /\ Loops' /\ Opened' /\ ~leaked'
    BY <1>0 DEF OneStop, Employed, Loops, Opened, Quiet
<1>2. Tasks'  BY <1>0 DEF Tasks
<1>3. Left'  BY DEF Left, Clean
<1>4. Closing'
    <2>1. CASE Quiet  BY <2>1 DEF Closing, Come, Quiet
    <2>2. CASE ~Quiet
        <3>1. single # 0 => /\ (Clean(single) => Clean(single)')
                            /\ (NoTask(single) => NoTask(single)')
            BY <1>0, <2>2 DEF Clean, NoTask
        <3> QED BY <1>0, <3>1 DEF Closing, Come
    <2> QED BY <2>1, <2>2
<1> QED BY <1>1, <1>2, <1>3, <1>4

\* A payload is enqueued at the singleton only, and with no /stop at work.
LEMMA FinishAlone ==
    ASSUME Queued, Typed', Alone, NEW w \in DOMAIN workers, NEW p \in Payloads, Finishes(w, p)
    PROVE  Alone'
<1>0. /\ workers \in Seq(Workers) /\ objs \in Seq(CallbackQueues)
      /\ DOMAIN workers = 1..Len(workers) /\ DOMAIN objs = 1..Len(objs)
      /\ objs' \in Seq(CallbackQueues) /\ single \in 0..Len(objs)
      /\ job \in [Payloads -> Callbacks]
      /\ \A x \in 1..Len(objs) : objs[x] \in CallbackQueues
    BY DEF Queued, Typed, Types, Refers
<1>1. /\ Free /\ workers[w].pc = "run" /\ ~workers[w].cancelled
      /\ UNCHANGED <<inst, queues, workers, single, stop, leaked>>
    BY DEF Finishes
<1>2. Quiet /\ inst \in 1..Len(queues) /\ workers[w].home = inst
    BY <1>0, <1>1, WorkingQuiet
<1>3. queues[workers[w].home].cbq = single  BY <1>2 DEF Alone, Opened
<1>4. Over.state = "over"  BY DEF Over, New
<1>5. CASE single = 0
    <2>1. job' = [job EXCEPT ![p] = Over] /\ UNCHANGED objs
        BY <1>3, <1>5 DEF Finishes
    <2> QED BY <1>0, <1>1, <1>4, <2>1, Fade DEF Alive
<1>6. CASE single # 0
    <2> DEFINE full == Len(objs[single].line) >= QueueSize
               rest == IF full THEN Tail(objs[single].line) ELSE objs[single].line
               line == Append(rest, p)
               new == [objs[single] EXCEPT !.line = line]
               put == [state |-> "queued", q |-> single, tries |-> 0]
    <2>1. /\ objs' = [objs EXCEPT ![single] = new]
          /\ job' = [o \in Payloads |-> IF o = p THEN put
                                        ELSE IF full /\ o = Head(objs[single].line)
                                        THEN Over ELSE job[o]]
        BY <1>3, <1>6 DEF Finishes
    <2>2. put.state = "queued" /\ put.q = single  OBVIOUS
    <2> HIDE DEF line, full, put
    <2>3. /\ new.event = objs[single].event /\ new.loop = objs[single].loop
          /\ new.cancelled = objs[single].cancelled /\ new.session = objs[single].session
          /\ new.active = objs[single].active
        BY <1>0, <1>6 DEF CallbackQueues
    <2> HIDE DEF new
    <2>4. DOMAIN objs' = DOMAIN objs /\ single \in DOMAIN objs  BY <1>0, <1>6, <2>1
    <2>5. Len(objs') = Len(objs)  BY <1>0, <2>4
    <2>6. \A x \in 1..Len(objs) : /\ objs'[x].event = objs[x].event
                                  /\ objs'[x].loop = objs[x].loop
                                  /\ objs'[x].cancelled = objs[x].cancelled
                                  /\ objs'[x].session = objs[x].session
                                  /\ objs'[x].active = objs[x].active
        BY <1>0, <2>1, <2>3, <2>4
    <2>7. \A o \in Payloads :
              /\ job'[o].state \in Alive => job[o].state \in Alive /\ job'[o].q = job[o].q
              /\ job'[o].state = "queued" =>
                    job'[o] = job[o] \/ (Quiet /\ job'[o].q = single)
        BY <1>2, <1>4, <2>1, <2>2 DEF Alive
    <2> QED BY <1>1, <2>5, <2>6, <2>7, Fade
<1> QED BY <1>5, <1>6

\* A task posts, waits or ends.
LEMMA TaskAlone ==
    ASSUME Queued, Alone, NEW p \in Payloads, TaskStep(p)
    PROVE  Alone'
<1>0. /\ UNCHANGED <<inst, queues, workers, single, objs, stop, leaked>>
      /\ job \in [Payloads -> Callbacks] /\ job[p].state \in Alive
    BY DEF Queued, Typed, Types, TaskStep, Tries, PostEnds, Alive
<1>1. Over.state = "over"  BY DEF Over, New
<1>2. /\ \A o \in Payloads \ {p} : job'[o] = job[o]
      /\ job'[p].state = "over" \/ (job'[p].state # "queued" /\ job'[p].q = job[p].q)
    <2>1. CASE Tries(p)
        <3>1. CASE StopSet(job[p].q)  BY <1>0, <1>1, <2>1, <3>1 DEF Tries
        <3>2. CASE ~StopSet(job[p].q)  BY <1>0, <2>1, <3>2 DEF Tries, Callbacks
        <3> QED BY <3>1, <3>2
    <2>2. CASE PostEnds(p)  BY <1>0, <1>1, <2>2 DEF PostEnds, Callbacks
    <2> QED BY <2>1, <2>2 DEF TaskStep
<1> QED BY <1>0, <1>2, Fade DEF Alive

\* A worker that ends is the one a /stop waits for, or nobody's.
LEMMA EndsAlone ==
    ASSUME Queued, Typed', Alone, NEW w \in DOMAIN workers, WorkerEnds(w)
    PROVE  Alone'
<1> USE DEF Alone
<1>0. /\ workers \in Seq(Workers) /\ DOMAIN workers = 1..Len(workers)
      /\ workers' \in Seq(Workers) /\ workers[w] \in Workers
    BY DEF Queued, Typed, Types
<1>1. /\ workers' = [workers EXCEPT ![w].pc = "ended"]
      /\ UNCHANGED <<inst, queues, single, objs, job, stop, leaked>>
    BY DEF WorkerEnds
<1>2. /\ Len(workers') = Len(workers) /\ workers'[w].pc = "ended"
      /\ workers'[w].cancelled = workers[w].cancelled
      /\ \A x \in 1..Len(workers) : x # w => workers'[x] = workers[x]
    <2>1. DOMAIN workers' = DOMAIN workers  BY <1>1
    <2>2. workers'[w] = [workers[w] EXCEPT !.pc = "ended"]  BY <1>1
    <2>3. workers'[w].pc = "ended" /\ workers'[w].cancelled = workers[w].cancelled
        BY <1>0, <2>2 DEF Workers
    <2> QED BY <1>0, <1>1, <2>1, <2>3
<1>3. Employed'  BY <1>1, <1>2 DEF Employed
<1>4. Closing'
    <2>1. \A s \in Stops : stop[s].pc = "join" => stop[s].worker \in 1..Len(workers)
        BY DEF Queued, Typed, Refers
    <2>2. \A x \in 1..Len(workers) :
              /\ workers'[x].cancelled = workers[x].cancelled
              /\ workers[x].pc = "ended" => workers'[x].pc = "ended"
        BY <1>2
    <2> QED BY <1>1, <1>2, <2>1, <2>2 DEF Closing, Come, Clean, NoTask
<1>5. OneStop' /\ Tasks' /\ Loops' /\ Opened' /\ Left' /\ ~leaked'
    BY <1>1 DEF OneStop, Tasks, Loops, Opened, Quiet, Left, Clean
<1> QED BY <1>3, <1>4, <1>5

\* Only the loop of the singleton runs.
LEMMA LoopAlone ==
    ASSUME Queued, Typed', Alone, NEW q \in DOMAIN objs, LoopPops(q) \/ LoopEnds(q)
    PROVE  Alone'
<1> USE DEF Alone
<1>0. /\ objs \in Seq(CallbackQueues) /\ DOMAIN objs = 1..Len(objs)
      /\ objs' \in Seq(CallbackQueues) /\ job \in [Payloads -> Callbacks]
      /\ stop \in [Stops -> Requests]
      /\ objs[q] \in CallbackQueues
      /\ \A p \in Payloads : job[p].state \in Alive => job[p].q \in 1..Len(objs)
    BY DEF Queued, Typed, Types, Refers
<1>1. objs[q].loop = "run" /\ Free  BY DEF LoopPops, LoopEnds
<1>2. q = single /\ q # 0 /\ objs[q].session
    BY <1>0, <1>1 DEF Left, Clean, Queued, Typed, Refers, Loops
<1>3. CASE LoopPops(q)
    <2> DEFINE p == Head(objs[q].line)
               kept == {o \in objs[q].active : job[o].state \in Alive} \union {p}
               new == [objs[q] EXCEPT !.line = Tail(@), !.active = kept]
    <2>1. /\ objs' = [objs EXCEPT ![q] = new] /\ job' = [job EXCEPT ![p].state = "waiting"]
          /\ UNCHANGED <<inst, queues, workers, single, stop, leaked>>
          /\ objs[q].line # <<>>
        BY <1>3 DEF LoopPops
    <2>2. p \in Payloads /\ job[p].state = "queued" /\ job[p].q = q
        <3> DEFINE s == objs[q].line
        <3>1. s \in Seq(Payloads)  BY <1>0 DEF CallbackQueues
        <3>2. Once(s) /\ (\A o \in Payloads :
                             o \in Range(s) <=> (job[o].state = "queued" /\ job[o].q = q))
            BY <1>0 DEF Queued, Deques
        <3> HIDE DEF s
        <3>3. Head(s) \in Payloads /\ Head(s) \in Range(s)
            <4>1. s # <<>>  BY <2>1 DEF s
            <4> QED BY <3>1, <3>2, <4>1, Popped
        <3> QED BY <3>2, <3>3 DEF s
    <2> HIDE DEF p
    <2>3. /\ new.event = objs[q].event /\ new.loop = objs[q].loop
          /\ new.cancelled = objs[q].cancelled /\ new.session = objs[q].session
          /\ new.active = kept
        BY <1>0 DEF CallbackQueues
    <2> HIDE DEF new
    <2>4. /\ Len(objs') = Len(objs) /\ objs'[q] = new
          /\ \A x \in 1..Len(objs) : x # q => objs'[x] = objs[x]
        <3>1. DOMAIN objs' = DOMAIN objs  BY <2>1
        <3> QED BY <1>0, <2>1, <3>1
    <2>5. /\ job'[p].state = "waiting" /\ job'[p].q = q
          /\ \A o \in Payloads \ {p} : job'[o] = job[o]
        BY <1>0, <2>1, <2>2 DEF Callbacks
    <2>6. OneStop' /\ Employed' /\ ~leaked'  BY <2>1 DEF OneStop, Employed
    <2>7. Tasks'
        <3> SUFFICES ASSUME NEW o \in Payloads, job'[o].state \in Alive
                     PROVE  o \in objs'[job'[o].q].active /\ objs'[job'[o].q].session
            BY DEF Tasks
        <3>1. CASE o = p  BY <1>2, <2>3, <2>4, <2>5, <3>1
        <3>2. CASE o # p
            <4>1. job'[o] = job[o] /\ job[o].q \in 1..Len(objs)  BY <1>0, <2>5, <3>2
            <4>2. o \in objs[job[o].q].active /\ objs[job[o].q].session  BY <4>1 DEF Tasks
            <4>3. CASE job[o].q = q  BY <2>3, <2>4, <4>1, <4>2, <4>3
            <4>4. CASE job[o].q # q  BY <2>4, <4>1, <4>2, <4>4
            <4> QED BY <4>3, <4>4
        <3> QED BY <3>1, <3>2
    <2>8. Loops'  BY <2>3, <2>4 DEF Loops
    <2>9. Opened'  BY <1>2, <2>1, <2>3, <2>4 DEF Opened, Quiet
    <2>10. Left'  BY <1>2, <2>1, <2>4, <2>5 DEF Left, Clean
    <2>11. Closing'
        <3>1. \A s \in Stops : stop[s].pc \in Busy =>
                  /\ stop[s].pc \notin {"single", "looped", "cancelling", "gather", "closing",
                                        "close", "leaving"}
                  /\ ~stop[s].last
            BY <1>1, <1>2 DEF Closing, Come, Clean
        <3> QED BY <2>1, <3>1 DEF Closing, Come
    <2> QED BY <2>6, <2>7, <2>8, <2>9, <2>10, <2>11
<1>4. CASE LoopEnds(q)
    <2> DEFINE new == [objs[q] EXCEPT !.loop = "done"]
    <2>1. /\ objs' = [objs EXCEPT ![q] = new] /\ (StopSet(q) \/ objs[q].cancelled)
          /\ stop' = [s \in Stops |-> IF stop[s].pc = "loop" /\ stop[s].q = q
                                      THEN [stop[s] EXCEPT !.pc = "looped"] ELSE stop[s]]
          /\ UNCHANGED <<inst, queues, workers, single, job, leaked>>
        BY <1>4 DEF LoopEnds
    <2>2. /\ new.session = objs[q].session /\ new.active = objs[q].active
          /\ new.loop = "done"
        BY <1>0 DEF CallbackQueues
    <2> HIDE DEF new
    <2>3. /\ Len(objs') = Len(objs) /\ objs'[q] = new
          /\ \A x \in 1..Len(objs) : x # q => objs'[x] = objs[x]
        <3>1. DOMAIN objs' = DOMAIN objs  BY <2>1
        <3> QED BY <1>0, <2>1, <3>1
    <2>4. \A s \in Stops : \/ stop'[s] = stop[s]
                           \/ /\ stop[s].pc = "loop" /\ stop'[s].pc = "looped"
                              /\ stop'[s].home = stop[s].home /\ stop'[s].q = stop[s].q
                              /\ stop'[s].last = stop[s].last
        BY <1>0, <2>1 DEF Requests
    <2>5. {"loop", "looped"} \subseteq Busy  BY DEF Busy, Suspended
    <2>6. \A s \in Stops : (stop'[s].pc \in Busy) = (stop[s].pc \in Busy)  BY <2>4, <2>5
    <2>7. ~Quiet
        <3> SUFFICES ASSUME Quiet PROVE FALSE  OBVIOUS
        <3>1. inst # 0 /\ objs[single].event = inst
            BY <1>2 DEF Opened
        <3>2. ~StopSet(q) /\ ~objs[q].cancelled  BY <1>2, <3>1 DEF Opened, StopSet
        <3> QED BY <2>1, <3>2
    <2>8. Opened'  BY <2>6, <2>7 DEF Opened, Quiet
    <2>9. OneStop' /\ Employed' /\ ~leaked'
        BY <2>1, <2>6 DEF OneStop, Employed
    <2>10. Tasks' /\ Loops'
        BY <1>0, <2>1, <2>2, <2>3 DEF Tasks, Loops
    <2>11. Left'  BY <1>2, <2>1, <2>3 DEF Left, Clean
    <2>12. Closing'
        <3>1. objs'[single].loop # "run" /\ objs'[single].session = objs[single].session
            BY <1>2, <2>2, <2>3
        <3>2. /\ Clean(single) => Clean(single)'
              /\ NoTask(single) => NoTask(single)'
            BY <2>1, <3>1 DEF Clean, NoTask
        <3> SUFFICES ASSUME NEW s \in Stops, stop[s].pc \in Busy
                     PROVE  Come(s)'
            BY <2>6 DEF Closing
        <3> QED BY <1>2, <2>1, <2>4, <2>5, <2>6, <3>1, <3>2 DEF Closing, Come, Inside
    <2> QED BY <2>8, <2>9, <2>10, <2>11, <2>12
<1> QED BY <1>3, <1>4

\* A /stop begins while no other is at work.
LEMMA StopBeginsAlone ==
    ASSUME Queued, Typed', Alone, NEW s \in Stops, StopBegins(s), ~overlapped'
    PROVE  Alone'
<1> USE DEF Alone
<1>0. /\ queues \in Seq(GenerateQueues) /\ workers \in Seq(Workers)
      /\ DOMAIN queues = 1..Len(queues) /\ DOMAIN workers = 1..Len(workers)
      /\ inst \in 1..Len(queues) /\ inst # 0
      /\ stop \in [Stops -> Requests] /\ queues[inst] \in GenerateQueues
      /\ workers' \in Seq(Workers) /\ queues[inst].task \in 0..Len(workers)
      /\ Len(workers) \in Nat
    BY DEF Queued, Typed, Types, Refers, StopBegins
<1> DEFINE task == queues[inst].task
           new == [NoStop EXCEPT !.pc = IF Staffed(inst) THEN "join" ELSE "feeding",
                                 !.home = inst, !.worker = task]
<1>1. /\ Free /\ ~Overlap /\ UNCHANGED <<inst, single, objs, job, leaked>>
      /\ queues' = [queues EXCEPT ![inst].stopped = TRUE]
      /\ workers' = IF Staffed(inst) THEN [workers EXCEPT ![task].cancelled = TRUE] ELSE workers
      /\ stop' = [stop EXCEPT ![s] = new]
    BY DEF StopBegins
<1>2. Quiet  BY <1>1 DEF Quiet, Free, Overlap, Busy
<1>3. /\ new.pc = IF Staffed(inst) THEN "join" ELSE "feeding"
      /\ new.home = inst /\ new.worker = task /\ ~new.last
    BY DEF NoStop
<1> HIDE DEF new
<1>4. /\ stop'[s] = new /\ \A t \in Stops : t # s => stop'[t] = stop[t]
    BY <1>0, <1>1
<1>5. {"join", "feeding"} \subseteq Busy  BY DEF Busy, Running, Suspended
<1>6. /\ queues'[inst].task = task /\ queues'[inst].cbq = queues[inst].cbq
    <2>1. queues'[inst] = [queues[inst] EXCEPT !.stopped = TRUE]  BY <1>0, <1>1
    <2> QED BY <1>0, <2>1 DEF GenerateQueues
<1>7. /\ Len(workers') = Len(workers)
      /\ \A w \in 1..Len(workers) :
            workers'[w].pc = workers[w].pc /\ workers'[w].home = workers[w].home
      /\ Staffed(inst) => workers'[task].cancelled
    <2>1. CASE Staffed(inst)
        <3>1. task \in 1..Len(workers)  BY <1>0, <2>1 DEF Staffed
        <3>2. workers' = [workers EXCEPT ![task] = [workers[task] EXCEPT !.cancelled = TRUE]]
            BY <1>1, <2>1
        <3>3. DOMAIN workers' = DOMAIN workers  BY <3>2
        <3>4. workers'[task].pc = workers[task].pc /\ workers'[task].cancelled
              /\ workers'[task].home = workers[task].home
            <4> DEFINE set == [workers[task] EXCEPT !.cancelled = TRUE]
            <4>1. workers[task] \in Workers  BY <1>0, <3>1
            <4>2. set.pc = workers[task].pc /\ set.cancelled /\ set.home = workers[task].home
                BY <4>1 DEF Workers
            <4>3. task \in DOMAIN workers /\ workers' = [workers EXCEPT ![task] = set]
                BY <1>0, <3>1, <3>2
            <4> HIDE DEF set, task
            <4>4. workers'[task] = set  BY <4>3
            <4> QED BY <4>2, <4>4
        <3> HIDE DEF task
        <3>6. \A w \in 1..Len(workers) : w # task => workers'[w] = workers[w]
            BY <1>0, <3>2
        <3> QED BY <1>0, <3>3, <3>4, <3>6
    <2>2. CASE ~Staffed(inst)  BY <1>1, <2>2
    <2> QED BY <2>1, <2>2
<1>8. OneStop'  BY <1>2, <1>4 DEF OneStop, Quiet
<1>9. Employed'  BY <1>1, <1>6, <1>7 DEF Employed
<1>10. Tasks' /\ Loops' /\ Left' /\ ~leaked'  BY <1>1 DEF Tasks, Loops, Left, Clean
<1>11. Opened'
    <2>1. ~Quiet'  BY <1>3, <1>4, <1>5 DEF Quiet
    <2> QED BY <2>1 DEF Opened
<1>12. Closing'
    <2>1. Come(s)'
        <3>1. ~Staffed(inst) => \A w \in 1..Len(workers) : workers'[w].pc = "ended"
            BY <1>7 DEF Staffed, Employed
        <3>2. single = queues'[inst].cbq  BY <1>0, <1>2, <1>6 DEF Opened
        <3>3. new.pc \in {"join", "feeding"}  BY <1>3
        <3> QED BY <1>1, <1>3, <1>4, <1>6, <1>7, <3>1, <3>2, <3>3 DEF Come, Inside
    <2>2. \A t \in Stops : stop'[t].pc \in Busy => t = s  BY <1>2, <1>4 DEF Quiet
    <2> QED BY <2>1, <2>2 DEF Closing
<1> QED BY <1>8, <1>9, <1>10, <1>11, <1>12

\* The steps of stop(), up to its last.
LEMMA StopGoesAlone ==
    ASSUME Queued, Typed', Alone, NEW s \in Stops, StopGoesOn(s)
    PROVE  Alone'
<1> USE DEF Alone
<1>0. /\ stop \in [Stops -> Requests] /\ stop[s] \in Requests
      /\ queues \in Seq(GenerateQueues) /\ DOMAIN queues = 1..Len(queues)
      /\ objs \in Seq(CallbackQueues) /\ DOMAIN objs = 1..Len(objs)
      /\ objs' \in Seq(CallbackQueues) /\ inst \in 0..Len(queues) /\ single \in 0..Len(objs)
      /\ job \in [Payloads -> Callbacks]
      /\ \A x \in 1..Len(objs) : objs[x] \in CallbackQueues
      /\ \A p \in Payloads :
            job[p].state \in Alive \union {"queued"} => job[p].q \in 1..Len(objs)
      /\ UNCHANGED <<workers, leaked>>
    <2>1. UNCHANGED <<workers, leaked>>
        BY DEF StopGoesOn, StopJoined, StopCalls, StopsLoop, StopsTasks, StopsSession,
               SessionClosed, StopLeaves
    <2>2. Types /\ Types' /\ Refers  BY DEF Queued, Typed
    <2>3. objs \in Seq(CallbackQueues)  BY <2>2 DEF Types
    <2>4. DOMAIN objs = 1..Len(objs) /\ \A x \in 1..Len(objs) : objs[x] \in CallbackQueues
        BY <2>3
    <2> QED BY <2>1, <2>2, <2>4 DEF Types, Refers
<1>1. stop[s].pc \in Busy
    BY DEF StopGoesOn, StopJoined, StopCalls, StopsLoop, StopsTasks, StopsSession,
           SessionClosed, StopLeaves, Busy, Running, Suspended
<1>2. /\ Come(s) /\ stop[s].home = inst
      /\ \A t \in Stops : t # s => stop[t].pc \notin Busy
    BY <1>1 DEF Closing, OneStop, Come
<1>3. inst \in 1..Len(queues) /\ inst # 0 /\ (stop[s].pc \in Inside => stop[s].q # 0)
    BY <1>1, <1>2 DEF Queued, Typed, Refers
<1>4. stop[s].pc \in Inside => stop[s].q = single /\ single # 0 /\ single \in 1..Len(objs)
    BY <1>0, <1>2, <1>3 DEF Come
\* A /stop that goes on stays the only one.
<1>5. ASSUME NEW new, stop' = [stop EXCEPT ![s] = new]
      PROVE  /\ stop'[s] = new /\ \A t \in Stops : t # s => stop'[t] = stop[t]
             /\ OneStop'
             /\ Come(s)' => Closing'
             /\ new.pc \in Busy => Opened'
             /\ new.pc \notin Busy => Quiet' /\ Closing'
    <2>1. stop'[s] = new /\ \A t \in Stops : t # s => stop'[t] = stop[t]  BY <1>0, <1>5
    <2> QED BY <1>2, <2>1 DEF OneStop, Closing, Opened, Quiet
<1>6. ASSUME NEW pc, Goes(s, pc)
      PROVE  /\ stop'[s].pc = pc /\ stop'[s].home = inst /\ stop'[s].q = stop[s].q
             /\ stop'[s].last = stop[s].last /\ OneStop'
             /\ Come(s)' => Closing'
             /\ pc \in Busy => Opened'
    <2> DEFINE new == [stop[s] EXCEPT !.pc = pc]
    <2>1. stop' = [stop EXCEPT ![s] = new]  BY <1>6 DEF Goes
    <2>2. /\ new.pc = pc /\ new.home = inst /\ new.q = stop[s].q /\ new.last = stop[s].last
        BY <1>0, <1>2 DEF Requests
    <2> HIDE DEF new
    <2> QED BY <1>5, <2>1, <2>2
<1>7. CASE StopJoined(s)
    <2>1. /\ stop[s].pc = "join" /\ workers[stop[s].worker].pc = "ended"
          /\ queues' = [queues EXCEPT ![inst].task = 0] /\ Goes(s, "feeding")
          /\ UNCHANGED <<inst, single, objs, job>>
        BY <1>2, <1>7 DEF StopJoined
    <2>2. \A w \in 1..Len(workers) : workers[w].pc = "ended"
        BY <1>2, <2>1 DEF Employed, Come
    <2>3. queues'[inst].cbq = queues[inst].cbq
        <3>1. queues'[inst] = [queues[inst] EXCEPT !.task = 0] /\ queues[inst] \in GenerateQueues
            BY <1>0, <1>3, <2>1
        <3> QED BY <3>1 DEF GenerateQueues
    <2>4. "feeding" \in Busy  BY DEF Busy, Running
    <2>5. Come(s)'
        BY <1>0, <1>2, <1>6, <2>1, <2>2, <2>3 DEF Come, Inside, Clean
    <2>6. Employed'  BY <1>0, <2>2 DEF Employed
    <2>7. Tasks' /\ Loops' /\ Left'  BY <2>1 DEF Tasks, Loops, Left, Clean
    <2> QED BY <1>0, <1>6, <2>1, <2>4, <2>5, <2>6, <2>7
<1>8. stop[s].pc # "join" => \A w \in 1..Len(workers) : workers[w].pc = "ended"
    BY <1>2 DEF Come
<1>9. stop[s].pc # "join" => Employed'  BY <1>0, <1>8 DEF Employed
<1>10. CASE StopCalls(s)
    <2> DEFINE last == stop[s].pc = "single"
               q == IF last THEN single ELSE queues[stop[s].home].cbq
               pc == IF q # 0 THEN "stopping" ELSE IF last THEN "leaving" ELSE "single"
               new == [stop[s] EXCEPT !.q = q, !.last = last, !.pc = pc]
    <2>1. /\ stop' = [stop EXCEPT ![s] = new] /\ stop[s].pc \in {"feeding", "single"}
          /\ UNCHANGED <<inst, queues, workers, single, objs, job>>
        BY <1>10 DEF StopCalls
    <2>2. q = single  BY <1>2, <2>1 DEF Come
    <2> HIDE DEF q
    <2>3. /\ new.q = single /\ new.last = last /\ new.home = inst
          /\ new.pc = IF single # 0 THEN "stopping" ELSE IF last THEN "leaving" ELSE "single"
        BY <1>0, <1>2, <2>2 DEF Requests
    <2> HIDE DEF new
    <2>4. new.pc \in Busy /\ new.pc \notin {"join", "feeding"}  BY <2>3 DEF Busy, Running
    <2>5. last /\ single # 0 => Clean(single)  BY <1>2 DEF Come
    <2>6. Come(s)'
        <3>1. stop'[s] = new  BY <1>5, <2>1
        <3>2. Clean(single)' <=> Clean(single)  BY <2>1 DEF Clean
        <3> QED BY <1>0, <1>8, <2>1, <2>3, <2>4, <2>5, <3>1, <3>2 DEF Come, Inside
    <2>7. Tasks' /\ Loops' /\ Left'  BY <2>1 DEF Tasks, Loops, Left, Clean
    <2> QED BY <1>0, <1>5, <1>9, <2>1, <2>4, <2>6, <2>7
\* What is clean stays so, unless its loop or session is opened or a callback comes to it.
<1>11. ASSUME NEW x \in 1..Len(objs), Clean(x),
              objs'[x].loop # "run", ~objs'[x].session,
              \A p \in Payloads : job'[p] = job[p] \/ job'[p].state = "over"
       PROVE  Clean(x)'
    BY <1>11 DEF Clean, Alive
<1>12. stop[s].pc \in {"gather", "closing", "close", "leaving"} =>
           \A p \in Payloads : job[p].state \notin Alive
    <2> SUFFICES ASSUME stop[s].pc \in {"gather", "closing", "close", "leaving"},
                        NEW p \in Payloads, job[p].state \in Alive
                 PROVE  FALSE
        OBVIOUS
    <2>1. job[p].q \in 1..Len(objs) /\ job[p].q # 0  BY <1>0
    <2>2. job[p].q = single  BY <2>1 DEF Left, Clean
    <2> QED BY <1>2, <2>1, <2>2 DEF Come, NoTask
\* One field of the singleton is set.
<1>13. ASSUME NEW new, objs' = [objs EXCEPT ![single] = new], single # 0
       PROVE  /\ Len(objs') = Len(objs) /\ objs'[single] = new
              /\ \A x \in 1..Len(objs) : x # single => objs'[x] = objs[x]
    <2>1. DOMAIN objs' = DOMAIN objs  BY <1>13
    <2> QED BY <1>0, <1>13, <2>1
<1>14. CASE StopsLoop(s)
    <2>1. /\ stop[s].pc = "stopping" /\ stop[s].q = single /\ single # 0
          /\ single \in 1..Len(objs) /\ UNCHANGED <<inst, queues, single, job>>
        BY <1>4, <1>14 DEF StopsLoop, Inside
    <2>2. CASE objs[single].loop = "run"
        <3> DEFINE new == [objs[single] EXCEPT !.cancelled = TRUE]
        <3>1. objs' = [objs EXCEPT ![single] = new] /\ Goes(s, "loop")
            BY <1>14, <2>1, <2>2 DEF StopsLoop
        <3>2. /\ new.session = objs[single].session /\ new.active = objs[single].active
              /\ new.loop = objs[single].loop
            BY <1>0, <2>1 DEF CallbackQueues
        <3> HIDE DEF new
        <3>3. /\ Len(objs') = Len(objs) /\ objs'[single] = new
              /\ \A x \in 1..Len(objs) : x # single => objs'[x] = objs[x]
            BY <1>13, <2>1, <3>1
        <3>4. ~stop[s].last  BY <1>2, <2>1, <2>2 DEF Come, Clean
        <3>5. Come(s)'
            <4>1. /\ stop'[s].pc = "loop" /\ stop'[s].home = inst /\ stop'[s].q = single
                  /\ ~stop'[s].last
                BY <1>6, <2>1, <3>1, <3>4
            <4>2. \A x \in 1..Len(workers) : workers'[x].pc = "ended"  BY <1>0, <1>8, <2>1
            <4> QED BY <1>0, <2>1, <4>1, <4>2 DEF Come, Inside
        <3>6. Tasks' /\ Loops'  BY <1>0, <2>1, <3>2, <3>3 DEF Tasks, Loops
        <3>7. Left'  BY <2>1, <3>3 DEF Left, Clean
        <3>8. "loop" \in Busy  BY DEF Busy, Suspended
        <3> QED BY <1>0, <1>6, <1>9, <2>1, <3>1, <3>5, <3>6, <3>7, <3>8
    <2>3. CASE objs[single].loop # "run"
        <3>1. Goes(s, "cancelling") /\ UNCHANGED objs
            BY <1>14, <2>1, <2>3 DEF StopsLoop
        <3>2. Clean(single)' <=> Clean(single)  BY <2>1, <3>1 DEF Clean
        <3>3. stop[s].last => Clean(single)  BY <1>2, <2>1 DEF Come
        <3>4. Come(s)'
            <4>1. /\ stop'[s].pc = "cancelling" /\ stop'[s].home = inst
                  /\ stop'[s].q = single /\ stop'[s].last = stop[s].last
                BY <1>6, <2>1, <3>1
            <4>2. \A x \in 1..Len(workers) : workers'[x].pc = "ended"  BY <1>0, <1>8, <2>1
            <4> QED BY <1>0, <2>1, <2>3, <3>1, <3>2, <3>3, <4>1, <4>2 DEF Come, Inside
        <3>5. Tasks' /\ Loops' /\ Left'  BY <2>1, <3>1 DEF Tasks, Loops, Left, Clean
        <3>6. "cancelling" \in Busy  BY DEF Busy, Running
        <3> QED BY <1>0, <1>6, <1>9, <2>1, <3>1, <3>4, <3>5, <3>6
    <2> QED BY <2>2, <2>3
<1>15. CASE StopsTasks(s)
    <2> DEFINE alive == {p \in objs[single].active : job[p].state \in Alive}
               pc == IF alive = {} THEN "closing" ELSE "gather"
    <2>1. /\ stop[s].pc \in {"cancelling", "looped"} /\ stop[s].q = single /\ single # 0
          /\ single \in 1..Len(objs) /\ UNCHANGED <<inst, queues, single, objs>>
        BY <1>4, <1>15 DEF StopsTasks, Inside
    <2>2. /\ job' = [p \in Payloads |-> IF p \in alive THEN Over ELSE job[p]]
          /\ Goes(s, pc)
        BY <1>15, <2>1 DEF StopsTasks
    <2>3. Over.state = "over"  BY DEF Over, New
    <2>4. \A p \in Payloads : job'[p] = job[p] \/ job'[p].state = "over"
        BY <2>2, <2>3
    <2>5. NoTask(single)'
        <3> SUFFICES ASSUME NEW p \in Payloads, job'[p].q = single, job'[p].state \in Alive
                     PROVE  FALSE
            BY <2>1 DEF NoTask
        <3>1. job'[p] = job[p] /\ p \notin alive  BY <2>2, <2>3 DEF Alive
        <3> QED BY <3>1 DEF Tasks
    <2>6. pc \in {"closing", "gather"} /\ pc \in Busy  BY DEF Busy, Running, Suspended
    <2> HIDE DEF alive, pc
    <2>7. objs[single].loop # "run" /\ (stop[s].last => Clean(single)')
        <3>1. objs[single].loop # "run" /\ (stop[s].last => Clean(single))
            BY <1>2, <2>1 DEF Come
        <3>2. Clean(single) => ~objs[single].session  BY DEF Clean
        <3>3. Clean(single) => Clean(single)'
            <4>1. objs'[single] = objs[single] /\ single' = single  BY <2>1
            <4> QED BY <2>4, <4>1 DEF Clean, Alive
        <3> QED BY <3>1, <3>3
    <2>8. Come(s)'
        <3>1. /\ stop'[s].pc = pc /\ stop'[s].home = inst /\ stop'[s].q = single
              /\ stop'[s].last = stop[s].last
            BY <1>6, <2>1, <2>2
        <3>2. \A w \in 1..Len(workers) : workers'[w].pc = "ended"  BY <1>0, <1>8, <2>1
        <3> QED BY <1>0, <2>1, <2>5, <2>6, <2>7, <3>1, <3>2 DEF Come, Inside
    <2>9. Tasks' /\ Loops'  BY <2>1, <2>4 DEF Tasks, Loops, Alive
    <2>10. Left'
        <3>1. \A x \in 1..Len(objs) : Clean(x) => Clean(x)'
            BY <2>1, <2>4 DEF Clean, Alive
        <3> QED BY <2>1, <3>1 DEF Left
    <2> QED BY <1>0, <1>6, <1>9, <2>1, <2>2, <2>6, <2>8, <2>9, <2>10
<1>16. CASE StopsSession(s)
    <2> DEFINE new == [objs[single] EXCEPT !.active = {}]
               pc == IF objs[single].session THEN "close" ELSE "leaving"
    <2>1. /\ stop[s].pc \in {"closing", "gather"} /\ stop[s].q = single /\ single # 0
          /\ single \in 1..Len(objs) /\ UNCHANGED <<inst, queues, single, job>>
        BY <1>4, <1>16 DEF StopsSession, Inside
    <2>2. objs' = [objs EXCEPT ![single] = new] /\ Goes(s, pc)
        BY <1>16, <2>1 DEF StopsSession
    <2>3. new.session = objs[single].session /\ new.loop = objs[single].loop
        BY <1>0, <2>1 DEF CallbackQueues
    <2> HIDE DEF new
    <2>4. /\ Len(objs') = Len(objs) /\ objs'[single] = new
          /\ \A x \in 1..Len(objs) : x # single => objs'[x] = objs[x]
        BY <1>13, <2>1, <2>2
    <2>5. pc \in {"close", "leaving"} /\ pc \in Busy /\ (pc = "leaving" => ~objs'[single].session)
        BY <2>3, <2>4 DEF Busy, Running, Suspended
    <2> HIDE DEF pc
    <2>6. \A p \in Payloads : job'[p].state \notin Alive  BY <1>12, <2>1
    <2>7. \A x \in 1..Len(objs) : Clean(x)' <=> Clean(x)
        <3>1. \A x \in 1..Len(objs) :
                  objs'[x].loop = objs[x].loop /\ objs'[x].session = objs[x].session
            BY <2>3, <2>4
        <3> QED BY <2>1, <3>1 DEF Clean
    <2>8. Come(s)'
        <3>1. /\ stop'[s].pc = pc /\ stop'[s].home = inst /\ stop'[s].q = single
              /\ stop'[s].last = stop[s].last
            BY <1>6, <2>1, <2>2
        <3>2. \A w \in 1..Len(workers) : workers'[w].pc = "ended"  BY <1>0, <1>8, <2>1
        <3>3. objs'[single].loop # "run"  BY <1>2, <2>1, <2>3, <2>4 DEF Come
        <3>4. stop[s].last => Clean(single)'
            <4>1. stop[s].last => Clean(single)  BY <1>2, <2>1 DEF Come
            <4>2. single' = single /\ single \in 1..Len(objs)  BY <2>1
            <4>3. \A x \in 1..Len(objs) : x = single' => (Clean(single)' <=> Clean(x)')
                BY DEF Clean
            <4> QED BY <2>7, <4>1, <4>2, <4>3
        <3>5. NoTask(single)'  BY <2>6 DEF NoTask
        <3> QED BY <1>0, <2>1, <2>5, <3>1, <3>2, <3>3, <3>4, <3>5 DEF Come, Inside
    <2>9. Tasks'  BY <2>6 DEF Tasks
    <2>10. Loops'  BY <2>3, <2>4 DEF Loops
    <2>11. Left'  BY <2>1, <2>4, <2>7 DEF Left
    <2> QED BY <1>0, <1>6, <1>9, <2>1, <2>2, <2>5, <2>8, <2>9, <2>10, <2>11
<1>17. CASE SessionClosed(s)
    <2> DEFINE new == [objs[single] EXCEPT !.session = FALSE]
    <2>1. /\ stop[s].pc = "close" /\ stop[s].q = single /\ single # 0
          /\ single \in 1..Len(objs) /\ UNCHANGED <<inst, queues, single, job>>
        BY <1>4, <1>17 DEF SessionClosed, Inside
    <2>2. objs' = [objs EXCEPT ![single] = new] /\ Goes(s, "leaving")
        BY <1>17, <2>1 DEF SessionClosed
    <2>3. ~new.session /\ new.loop = objs[single].loop
        BY <1>0, <2>1 DEF CallbackQueues
    <2> HIDE DEF new
    <2>4. /\ Len(objs') = Len(objs) /\ objs'[single] = new
          /\ \A x \in 1..Len(objs) : x # single => objs'[x] = objs[x]
        BY <1>13, <2>1, <2>2
    <2>5. "leaving" \in Busy  BY DEF Busy, Running
    <2>6. \A p \in Payloads : job'[p].state \notin Alive  BY <1>12, <2>1
    <2>7. objs'[single].loop # "run"  BY <1>2, <2>1, <2>3, <2>4 DEF Come
    <2>8. Come(s)'
        <3>1. /\ stop'[s].pc = "leaving" /\ stop'[s].home = inst /\ stop'[s].q = single
              /\ stop'[s].last = stop[s].last
            BY <1>6, <2>1, <2>2
        <3>2. \A w \in 1..Len(workers) : workers'[w].pc = "ended"  BY <1>0, <1>8, <2>1
        <3>3. stop[s].last => Clean(single)'
            <4>1. stop[s].last => Clean(single)  BY <1>2, <2>1 DEF Come
            <4> QED BY <2>1, <2>3, <2>4, <2>7, <4>1 DEF Clean
        <3>4. NoTask(single)'  BY <2>6 DEF NoTask
        <3> QED BY <1>0, <2>1, <2>3, <2>4, <2>7, <3>1, <3>2, <3>3, <3>4 DEF Come, Inside
    <2>9. Tasks'  BY <2>6 DEF Tasks
    <2>10. Loops'  BY <2>4, <2>7 DEF Loops
    <2>11. Left'  BY <2>1, <2>4 DEF Left, Clean
    <2> QED BY <1>0, <1>6, <1>9, <2>1, <2>2, <2>5, <2>8, <2>9, <2>10, <2>11
<1>18. CASE StopLeaves(s)
    <2>1. stop[s].pc = "leaving" /\ stop[s].q = single
        BY <1>2, <1>18 DEF StopLeaves, Come
    <2>2. /\ \A p \in Payloads : job[p].state \notin Alive
          /\ \A w \in 1..Len(workers) : workers[w].pc = "ended"
        BY <1>8, <1>12, <2>1
    <2>3. \A p \in Payloads : job'[p] = job[p] \/ job'[p].state = "over"
        <3>1. Over.state = "over"  BY DEF Over, New
        <3>2. CASE single = 0  BY <1>18, <2>1, <3>2 DEF StopLeaves
        <3>3. CASE single # 0
            <4>1. job' = [p \in Payloads |-> IF p \in Range(objs[single].line)
                                             THEN Over ELSE job[p]]
                BY <1>18, <2>1, <3>3 DEF StopLeaves
            <4> QED BY <3>1, <4>1
        <3> QED BY <3>2, <3>3
    <2>4. /\ Len(objs') = Len(objs)
          /\ \A x \in 1..Len(objs) :
                objs'[x].loop = objs[x].loop /\ objs'[x].session = objs[x].session
        <3>1. CASE single = 0
            <4>1. objs' = objs  BY <1>18, <2>1, <3>1 DEF StopLeaves
            <4> QED BY <4>1
        <3>2. CASE single # 0
            <4> DEFINE new == [objs[single] EXCEPT !.line = <<>>]
            <4>1. objs' = [objs EXCEPT ![single] = new]
                BY <1>18, <2>1, <3>2 DEF StopLeaves
            <4>2. single \in 1..Len(objs)  BY <1>0, <3>2
            <4>3. new.loop = objs[single].loop /\ new.session = objs[single].session
                BY <1>0, <4>2 DEF CallbackQueues
            <4> HIDE DEF new
            <4> QED BY <1>13, <3>2, <4>1, <4>3
        <3> QED BY <3>1, <3>2
    <2>5. \A x \in 1..Len(objs) : Clean(x)'
        <3>1. \A x \in 1..Len(objs) : Clean(x) => Clean(x)'
            BY <2>3, <2>4 DEF Clean, Alive
        <3>2. ASSUME single # 0 PROVE Clean(single) \/ \A x \in {single} : Clean(x)'
            <4>1. single \in 1..Len(objs) /\ objs[single].loop # "run" /\ ~objs[single].session
                BY <1>0, <1>2, <2>1, <3>2 DEF Come
            <4>2. job' = [p \in Payloads |-> IF p \in Range(objs[single].line)
                                             THEN Over ELSE job[p]]
                BY <1>18, <2>1, <3>2 DEF StopLeaves
            <4>3. \A p \in Payloads : job[p].state = "queued" /\ job[p].q = single =>
                                          p \in Range(objs[single].line)
                BY <4>1 DEF Queued, Deques
            <4>4. Over.state = "over"  BY DEF Over, New
            <4>5. \A p \in Payloads : job'[p].q = single =>
                                          job'[p].state \notin Alive \union {"queued"}
                BY <2>2, <4>2, <4>3, <4>4 DEF Alive
            <4> QED BY <2>4, <4>1, <4>5 DEF Clean
        <3> QED BY <3>1, <3>2 DEF Left
    <2>6. \A p \in Payloads : job'[p].state \notin Alive  BY <2>2, <2>3 DEF Alive
    <2>7. Tasks' /\ Loops'  BY <2>4, <2>5, <2>6 DEF Tasks, Loops, Clean
    <2>8. Left'  BY <2>4, <2>5 DEF Left
    <2>9. Employed'  BY <1>9, <2>1
    <2>10. CASE stop[s].last
        <3> DEFINE new == [NoStop EXCEPT !.pc = "done"]
        <3>1. single' = 0 /\ inst' = 0 /\ stop' = [stop EXCEPT ![s] = new]
            BY <1>18, <2>10 DEF StopLeaves
        <3>2. new.pc = "done"  BY DEF NoStop
        <3>3. new.pc \notin Busy  BY <3>2 DEF Busy, Running, Suspended
        <3> HIDE DEF new
        <3>4. OneStop' /\ Closing'  BY <1>5, <3>1, <3>3
        <3>5. Opened'  BY <3>1 DEF Opened
        <3> QED BY <1>0, <2>7, <2>8, <2>9, <3>4, <3>5
    <2>11. CASE ~stop[s].last
        <3>1. single # 0 /\ UNCHANGED <<single, inst>> /\ Goes(s, "single")
            BY <1>2, <1>18, <2>1, <2>11 DEF StopLeaves, Come
        <3>2. "single" \in Busy  BY DEF Busy, Running
        <3>3. Clean(single)'
            <4>1. single \in 1..Len(objs) /\ single' = single  BY <1>0, <3>1
            <4>2. \A x \in 1..Len(objs) : x = single' => (Clean(single)' <=> Clean(x)')
                BY DEF Clean
            <4> QED BY <2>5, <4>1, <4>2
        <3>4. Come(s)'
            BY <1>0, <1>6, <2>2, <3>1, <3>3 DEF Come, Inside
        <3> QED BY <1>0, <1>6, <2>7, <2>8, <2>9, <3>1, <3>2, <3>4
    <2> QED BY <2>10, <2>11
<1> QED BY <1>7, <1>10, <1>14, <1>15, <1>16, <1>17, <1>18 DEF StopGoesOn

\* Once calls have overlapped they have; until then every step keeps the singleton alone.
LEMMA AloneNext ==
    ASSUME DeliveryInv, [JobNext]_jobVars, ~overlapped'
    PROVE  Alone'
<1>0. Queued /\ Typed'  BY QueuedNext DEF DeliveryInv, Queued
<1>1. ~overlapped
    <2>1. overlapped \in BOOLEAN  BY <1>0 DEF Queued, Typed, Types
    <2>2. CASE Post  BY <2>2 DEF Post
    <2>3. CASE \E s \in Stops : StopBegins(s)  BY <2>3 DEF StopBegins
    <2>4. CASE UNCHANGED jobVars  BY <2>4 DEF jobVars
    <2>5. CASE WorkerStep  BY <2>5 DEF WorkerStep, WorkerBegins, WorkerEnds
    <2>6. CASE LoopStep  BY <2>6 DEF LoopStep, LoopPops, LoopEnds
    <2>7. CASE \E w \in DOMAIN workers, p \in Payloads : Finishes(w, p)
        <3>1. PICK w \in DOMAIN workers, p \in Payloads : Finishes(w, p)  BY <2>7
        <3> QED BY <3>1 DEF Finishes
    <2>8. CASE \E p \in Payloads : TaskStep(p)  BY <2>8 DEF TaskStep, Tries, PostEnds
    <2>9. CASE \E s \in Stops : StopGoesOn(s)
        BY <2>9 DEF StopGoesOn, StopJoined, StopCalls, StopsLoop, StopsTasks, StopsSession,
                    SessionClosed, StopLeaves
    <2> QED BY <2>2, <2>3, <2>4, <2>5, <2>6, <2>7, <2>8, <2>9 DEF JobNext
<1>2. Alone  BY <1>1 DEF DeliveryInv
<1>3. CASE Post  BY <1>0, <1>2, <1>3, PostAlone
<1>4. CASE WorkerStep  BY <1>0, <1>2, <1>4, BeginsAlone, EndsAlone DEF WorkerStep
<1>5. CASE LoopStep  BY <1>0, <1>2, <1>5, LoopAlone DEF LoopStep
<1>6. CASE \E w \in DOMAIN workers, p \in Payloads : Finishes(w, p)
    BY <1>0, <1>2, <1>6, FinishAlone
<1>7. CASE \E p \in Payloads : TaskStep(p)  BY <1>0, <1>2, <1>7, TaskAlone
<1>8. CASE \E s \in Stops : StopBegins(s)  BY <1>0, <1>2, <1>8, StopBeginsAlone
<1>9. CASE \E s \in Stops : StopGoesOn(s)  BY <1>0, <1>2, <1>9, StopGoesAlone
<1>10. CASE UNCHANGED jobVars
    <2>1. /\ UNCHANGED <<inst, queues, workers, single, objs, stop, leaked>>
          /\ UNCHANGED job
        BY <1>10 DEF jobVars
    <2> QED BY <1>0, <1>2, <2>1, Fade
<1> QED BY <1>3, <1>4, <1>5, <1>6, <1>7, <1>8, <1>9, <1>10 DEF JobNext

\* The inductive invariant of this module.
LEMMA DeliveryInvariant == JobSpec => []DeliveryInv
<1>1. JobInit => DeliveryInv
    <2> SUFFICES ASSUME JobInit PROVE DeliveryInv  OBVIOUS
    <2>1. Queued  BY QueuedInit
    <2>2. /\ inst = 0 /\ single = 0 /\ ~leaked /\ Len(workers) = 0 /\ Len(objs) = 0
          /\ \A p \in Payloads : job[p].state = "new"
          /\ \A s \in Stops : stop[s].pc = "idle"
        BY DEF JobInit, New, NoStop
    <2>3. "idle" \notin Busy /\ "new" \notin Alive
        BY DEF Busy, Running, Suspended, Alive
    <2>4. OneStop /\ Closing  BY <2>2, <2>3 DEF OneStop, Closing
    <2>5. Employed /\ Loops /\ Left  BY <2>2 DEF Employed, Loops, Left
    <2>6. Tasks /\ Opened  BY <2>2, <2>3 DEF Tasks, Opened
    <2> QED BY <2>1, <2>2, <2>4, <2>5, <2>6 DEF DeliveryInv, Alone
<1>2. DeliveryInv /\ [JobNext]_jobVars => DeliveryInv'
    BY QueuedNext, AloneNext DEF DeliveryInv
<1> QED BY <1>1, <1>2, PTL DEF JobSpec

----------------------------------------------------------------------------

\* For any numbers of jobs, workers and /stops and any limits: every reference points to a
\* worker or queue that exists, a deque never holds more than POC_CALLBACK_QUEUE_SIZE
\* payloads, no more than POC_CALLBACK_MAX_CONCURRENT tasks are inside the semaphore of a
\* callback queue, and none makes more attempts than POC_CALLBACK_MAX_RETRIES (callbacks.py
\* 112-160, 194-267).
THEOREM TypeCorrect == JobSpec => []JobTypeOK
<1>1. DeliveryInv => JobTypeOK
    <2> SUFFICES ASSUME DeliveryInv PROVE JobTypeOK  OBVIOUS
    <2>0. Queued /\ Typed /\ Types /\ Refers  BY DEF DeliveryInv, Queued, Typed
    <2>1. DOMAIN queues = 1..Len(queues) /\ DOMAIN objs = 1..Len(objs)  BY <2>0 DEF Types
    <2>2. \A q \in DOMAIN objs : objs[q].loop \in {"none", "run", "done"}
        <3>1. \A q \in DOMAIN objs : objs[q] \in CallbackQueues  BY <2>0 DEF Types
        <3> QED BY <3>1 DEF CallbackQueues
    <2>3. \A p \in Payloads : job[p].tries \in 0..MaxAttempts
        <3>1. \A p \in Payloads : job[p].tries \in Nat  BY <2>0 DEF Types, Callbacks
        <3>2. \A p \in Payloads : job[p].tries <= MaxAttempts
            BY <2>0 DEF Queued, Attempts
        <3>3. MaxAttempts \in Nat  BY CallbackAssumption
        <3> QED BY <3>1, <3>2, <3>3
    <2>4. \A s \in Stops : stop[s].pc \in {"idle", "done"} \union Running \union Suspended
        BY <2>0 DEF Types, Requests, Busy
    <2>5. \A q \in DOMAIN objs :
              Len(objs[q].line) <= QueueSize /\ Cardinality(Holding(q)) <= MaxConcurrent
        BY <2>0, <2>1 DEF Queued, Deques, Semaphore
    <2> QED BY <2>0, <2>1, <2>2, <2>3, <2>4, <2>5 DEF JobTypeOK, Refers
<1> QED BY <1>1, DeliveryInvariant, PTL

\* A payload is in the deque of exactly the callback queue it is queued at, and as long as
\* no call came in the middle of a /stop, every task that has not ended is in the set that
\* stop() cancels (callbacks.py 162-206).
THEOREM CallbacksKept == JobSpec => []CallbacksPlaced
<1>1. DeliveryInv => CallbacksPlaced
    <2> SUFFICES ASSUME DeliveryInv, NEW p \in Payloads, NEW q \in DOMAIN objs
                 PROVE  /\ (p \in Range(objs[q].line)) <=>
                              (job[p].state = "queued" /\ job[p].q = q)
                        /\ (job[p].state \in Alive /\ job[p].q = q) =>
                              (p \in objs[q].active \/ overlapped)
        BY DEF CallbacksPlaced
    <2>1. q \in 1..Len(objs)  BY DEF DeliveryInv, Queued, Typed, Types
    <2>2. (p \in Range(objs[q].line)) <=> (job[p].state = "queued" /\ job[p].q = q)
        BY <2>1 DEF DeliveryInv, Queued, Deques
    <2>3. ASSUME job[p].state \in Alive, job[p].q = q, ~overlapped
          PROVE  p \in objs[q].active
        BY <2>3 DEF DeliveryInv, Alone, Tasks
    <2> QED BY <2>2, <2>3
<1> QED BY <1>1, DeliveryInvariant, PTL

\* As long as no call came in the middle of a /stop, start() never replaces a session that
\* is open and no task posts through one that is closed (callbacks.py 162-192).
LEMMA DeliverySessions == DeliveryInv => SessionKept
<1> SUFFICES ASSUME DeliveryInv PROVE SessionKept  OBVIOUS
<1>1. leaked => overlapped  BY DEF DeliveryInv, Alone
<1>2. ASSUME NEW p \in Payloads, job[p].state = "posting", ~overlapped
      PROVE  objs[job[p].q].session
    BY <1>2 DEF DeliveryInv, Alone, Tasks, Alive
<1> QED BY <1>1, <1>2 DEF SessionKept

\* After /stop, if no call came in the middle of it: the singleton is gone, and no callback
\* queue there ever was has a loop that runs, a session, a queued payload or a live task
\* (callbacks.py 170-192, 254-267; generate_queue.py's clear_queue); and sessions are kept
\* until then.
THEOREM NothingLeft == JobSpec => []StopLeavesNothing
<1>1. DeliveryInv => StopLeavesNothing
    <2>s. DeliveryInv => SessionKept  BY DeliverySessions
    <2> SUFFICES ASSUME DeliveryInv, inst = 0, ~overlapped,
                        \A s \in Stops : stop[s].pc \in {"idle", "done"}
                 PROVE  /\ single = 0
                        /\ \A q \in DOMAIN objs : objs[q].loop # "run" /\ ~objs[q].session
                        /\ \A p \in Payloads : ~Pending(p)
        BY <2>s DEF StopLeavesNothing
    <2>0. Alone /\ DOMAIN objs = 1..Len(objs)
        BY DEF DeliveryInv, Queued, Typed, Types
    <2>1. Quiet  BY DEF Quiet, Busy, Running, Suspended
    <2>2. single = 0  BY <2>0, <2>1 DEF Alone, Opened
    <2>3. \A q \in 1..Len(objs) : Clean(q)
        <3>1. \A q \in 1..Len(objs) : q # 0  OBVIOUS
        <3> QED BY <2>0, <2>2, <3>1 DEF Alone, Left
    <2>4. ASSUME NEW p \in Payloads, Pending(p) PROVE FALSE
        <3>1. job[p].q \in 1..Len(objs)
            BY <2>4 DEF Pending, DeliveryInv, Queued, Typed, Refers
        <3> QED BY <2>3, <2>4, <3>1 DEF Clean, Pending
    <2> QED BY <2>0, <2>2, <2>3, <2>4 DEF Clean
<1> QED BY <1>1, DeliveryInvariant, PTL
=============================================================================
