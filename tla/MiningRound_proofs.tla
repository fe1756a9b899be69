------------------------ MODULE MiningRound_proofs ------------------------
(***************************************************************************)
(* Proofs about MiningRound for any set of operator requests, rounds and   *)
(* chat requests, and any number of calls.                                 *)
(***************************************************************************)
EXTENDS MiningRound, TLAPS

Busy(h) == pc[h] # "idle"

(* What TypeOK needs to be inductive: a suspended request that works on a
   round knows it, and an init is alone in knowing the round it creates; an
   engine forward belongs to a task that awaits it or is about to reset the
   prefix cache after it, or, where there is no reset, to one that has ended. *)
RoundKnown ==
    /\ \A h \in Handlers : pc[h] \in {"joining", "joiningCb"} => rnd[h] \in Rounds
    /\ \A h \in Handlers :
          Creating(h) => rnd[h] \in Rounds /\ task[rnd[h]] = "pending"
    /\ \A g, h \in Handlers : Creating(g) /\ Creating(h) /\ rnd[g] = rnd[h] => g = h
    /\ \A r \in fwd :
          \/ task[r] \in {"abort", "rpc", "backoff", "reset"}
          \/ ~resettable /\ task[r] \in Ended
    /\ \A r \in Rounds : task[r] \in {"reset", "resetFail"} => resettable

TypeInv == TypeOK /\ RoundKnown

(* An operator who waits for each answer has one request at work, and that
   request is the only one to know of a round that _poc_tasks does not. *)
OneAtATime == \A g, h \in Handlers : Busy(g) /\ Busy(h) => g = h

EntryTaken == \A h \in Handlers : Busy(h) => entry = None

RunningKnown ==
    \A r \in Rounds : Running(r) =>
        /\ gate
        /\ \/ entry = r
           \/ \E h \in Handlers : pc[h] = "joining" /\ rnd[h] = r

CallbackKnown ==
    \A r \in Rounds : cb[r] /\ ~stop[r] =>
        \/ entry = r
        \/ \E h \in Handlers : pc[h] = "aborting" /\ rnd[h] = r

CreatingGated == \A h \in Handlers : Creating(h) => gate

Serial ==
    OneAtATime /\ EntryTaken /\ RunningKnown /\ CallbackKnown /\ CreatingGated

SerialInv == ~overlapped => Serial
----------------------------------------------------------------------------
LEMMA NewRoundUnborn ==
    ASSUME \E r \in Rounds : task[r] = "unborn"
    PROVE  NewRound \in Rounds /\ task[NewRound] = "unborn"
BY DEF NewRound

LEMMA InitTypeInv == Init => TypeInv
<1>1. Init => RoundKnown
    BY DEF Init, RoundKnown, Creating
<1>2. Init => calls \in 0..MaxCalls
    BY CallsAssumption DEF Init
<1>3. Init => TypeOK
  <2> SUFFICES ASSUME Init PROVE TypeOK  OBVIOUS
  <2>1. /\ pc \in [Handlers -> HandlerStates] /\ task \in [Rounds -> TaskStates]
        /\ chat \in [Chats -> ChatStates]
      BY DEF Init, HandlerStates, TaskStates, ChatStates
  <2>2. /\ rnd \in [Handlers -> Rounds \union {None}]
        /\ stop \in [Rounds -> BOOLEAN] /\ cb \in [Rounds -> BOOLEAN]
      BY DEF Init
  <2>3. /\ snap \in [Procs -> SUBSET Chats] /\ beside \in [Rounds -> SUBSET Chats]
        /\ fwd \subseteq Rounds
      BY DEF Init
  <2>4. /\ supported \in BOOLEAN /\ resettable \in BOOLEAN /\ missed \in BOOLEAN
        /\ gate \in BOOLEAN /\ entry \in Rounds \union {None}
        /\ overlapped \in BOOLEAN /\ stopFailed \in BOOLEAN /\ dirty \in BOOLEAN
      BY DEF Init
  <2> QED BY <1>2, <2>1, <2>2, <2>3, <2>4 DEF TypeOK
<1> QED BY <1>1, <1>3 DEF TypeInv

(* The operator's calls keep the types. *)
LEMMA CallTypeInv ==
    ASSUME TypeInv, NEW h \in Handlers, InitCall(h) \/ StopCall(h)
    PROVE  TypeInv'
<1>k. /\ fwd \subseteq Rounds
      /\ \A q \in fwd : \/ task[q] \in {"abort", "rpc", "backoff", "reset"}
                        \/ ~resettable /\ task[q] \in Ended
      /\ \A q \in Rounds : task[q] \in {"reset", "resetFail"} => resettable
    BY DEF TypeInv, TypeOK, RoundKnown
<1> USE CallsAssumption
    DEF TypeInv, TypeOK, RoundKnown, Creating, HandlerStates, TaskStates, ChatStates, Procs,
        opVars, callVars, taskVars, engVars
<1>1. CASE InitConflict(h)
    BY <1>1, Z3 DEF InitConflict, Arrives
<1>2. CASE Reraises(h) /\ stopFailed' \in BOOLEAN
    BY <1>2, Z3 DEF Reraises, Arrives
<1>3. ASSUME NEW r \in Rounds, NEW url \in BOOLEAN, InitBegins(h, r, url)
      PROVE  TypeInv'
  <2>1. Live \subseteq Chats
      BY DEF Live
  <2>2. task' \in [Rounds -> TaskStates] /\ entry' \in Rounds \union {None}
      BY <1>3 DEF InitBegins, Unfinished, Ended
  <2>3. pc' \in [Handlers -> HandlerStates] /\ rnd' \in [Handlers -> Rounds \union {None}]
      BY <1>3 DEF InitBegins
  <2>4. snap' \in [Procs -> SUBSET Chats] /\ cb' \in [Rounds -> BOOLEAN]
      BY <1>3, <2>1 DEF InitBegins
  <2>5. calls' \in 0..MaxCalls /\ overlapped' \in BOOLEAN /\ supported' \in BOOLEAN /\ resettable' \in BOOLEAN
        /\ gate' \in BOOLEAN
      BY <1>3 DEF InitBegins, Arrives
  <2>6. RoundKnown'
    <3>1. \A g \in Handlers : pc'[g] \in {"joining", "joiningCb"} => rnd'[g] \in Rounds
        BY <1>3 DEF InitBegins, Arrives
    <3>3. \A g \in Handlers :
             Creating(g)' => rnd'[g] \in Rounds /\ task'[rnd'[g]] = "pending"
        BY <1>3 DEF InitBegins, Arrives, Creating
    <3>4. \A f, g \in Handlers :
             Creating(f)' /\ Creating(g)' /\ rnd'[f] = rnd'[g] => f = g
        BY <1>3 DEF InitBegins, Arrives, Creating
    <3>2. \A q \in fwd' : \/ task'[q] \in {"abort", "rpc", "backoff", "reset"}
                          \/ ~resettable' /\ task'[q] \in Ended
      <4>1. r \notin fwd /\ fwd' = fwd /\ resettable' = resettable
          BY <1>3 DEF InitBegins, Arrives, Ended
      <4>2. \A q \in Rounds \ {r} : task'[q] = task[q]
          BY <1>3 DEF InitBegins
      <4> HIDE DEF TypeInv, TypeOK, RoundKnown
      <4> QED BY <1>k, <4>1, <4>2
    <3>5. \A q \in Rounds : task'[q] \in {"reset", "resetFail"} => resettable'
        BY <1>3 DEF InitBegins, Arrives
    <3> QED BY <3>1, <3>2, <3>3, <3>4, <3>5
  <2>7. UNCHANGED <<stopFailed, stop, chat, fwd, beside, dirty, missed>>
      BY <1>3 DEF InitBegins
  <2> QED BY <2>2, <2>3, <2>4, <2>5, <2>6, <2>7
<1>4. ASSUME NEW r \in Rounds, NEW url \in BOOLEAN, InitFails(h, r, url)
      PROVE  TypeInv'
  <2>1. task' \in [Rounds -> TaskStates] /\ pc' \in [Handlers -> HandlerStates]
        /\ rnd' \in [Handlers -> Rounds \union {None}]
    <3>1. CASE url
      <4>1. /\ task' = [task EXCEPT ![r] = "pending"]
            /\ pc' = [pc EXCEPT ![h] = "unwinding"] /\ rnd' = [rnd EXCEPT ![h] = r]
          BY <1>4, <3>1 DEF InitFails
      <4> QED BY <4>1 DEF HandlerStates
    <3>2. CASE ~url
      <4>1. task' = [task EXCEPT ![r] = "void"] /\ pc' = pc /\ rnd' = rnd
          BY <1>4, <3>2 DEF InitFails
      <4> QED BY <4>1
    <3> QED BY <3>1, <3>2
  <2>2. cb' \in [Rounds -> BOOLEAN] /\ stop' \in [Rounds -> BOOLEAN] /\ gate' \in BOOLEAN
      BY <1>4 DEF InitFails
  <2>3. calls' \in 0..MaxCalls /\ overlapped' \in BOOLEAN /\ supported' \in BOOLEAN /\ resettable' \in BOOLEAN
      BY <1>4 DEF InitFails, Arrives
  <2>4. RoundKnown'
    <3>1. \A g \in Handlers : pc'[g] \in {"joining", "joiningCb"} => rnd'[g] \in Rounds
        BY <1>4 DEF InitFails, Arrives
    <3>3. \A g \in Handlers :
             Creating(g)' => rnd'[g] \in Rounds /\ task'[rnd'[g]] = "pending"
        BY <1>4 DEF InitFails, Arrives, Creating
    <3>4. \A f, g \in Handlers :
             Creating(f)' /\ Creating(g)' /\ rnd'[f] = rnd'[g] => f = g
        BY <1>4 DEF InitFails, Arrives, Creating
    <3>2. \A q \in fwd' : \/ task'[q] \in {"abort", "rpc", "backoff", "reset"}
                          \/ ~resettable' /\ task'[q] \in Ended
      <4>1. r \notin fwd /\ fwd' = fwd /\ resettable' = resettable
          BY <1>4 DEF InitFails, Arrives, Ended
      <4>2. \A q \in Rounds \ {r} : task'[q] = task[q]
          BY <1>4 DEF InitFails
      <4> HIDE DEF TypeInv, TypeOK, RoundKnown
      <4> QED BY <1>k, <4>1, <4>2
    <3>5. \A q \in Rounds : task'[q] \in {"reset", "resetFail"} => resettable'
        BY <1>4 DEF InitFails, Arrives
    <3> QED BY <3>1, <3>2, <3>3, <3>4, <3>5
  <2>5. UNCHANGED <<entry, stopFailed, snap, chat, fwd, beside, dirty, missed>>
      BY <1>4 DEF InitFails
  <2> QED BY <2>1, <2>2, <2>3, <2>4, <2>5
<1>5. CASE StopNothing(h)
    BY <1>5, Z3 DEF StopNothing, Arrives
<1>6. CASE StopCancels(h)
    BY <1>6, Z3 DEF StopCancels, Arrives, Active
<1>7. CASE InitReraises(h) \/ StopReraises(h)
    BY <1>2, <1>7 DEF InitReraises, StopReraises
<1> HIDE DEF TypeInv
<1> QED
    BY <1>1, <1>3, <1>4, <1>5, <1>6, <1>7, NewRoundUnborn DEF InitCall, StopCall

(* So do the resumptions of suspended requests. *)
LEMMA ResumeTypeInv ==
    ASSUME TypeInv, NEW h \in Handlers, Resumes(h)
    PROVE  TypeInv'
<1>k. /\ fwd \subseteq Rounds
      /\ \A q \in fwd : \/ task[q] \in {"abort", "rpc", "backoff", "reset"}
                        \/ ~resettable /\ task[q] \in Ended
      /\ \A q \in Rounds : task[q] \in {"reset", "resetFail"} => resettable
    BY DEF TypeInv, TypeOK, RoundKnown
<1> USE DEF TypeInv, TypeOK, RoundKnown, Creating, HandlerStates, TaskStates, Unfinished, Ended,
            callVars, taskVars, engVars
<1>1. CASE InitSpawns(h)
    BY <1>1 DEF InitSpawns
<1>2. CASE InitUnwound(h)
  <2>1. /\ cb' = [cb EXCEPT ![rnd[h]] = FALSE] /\ gate' = FALSE
        /\ task' = [task EXCEPT ![rnd[h]] = "void"] /\ task[rnd[h]] = "pending"
        /\ pc' = [pc EXCEPT ![h] = "idle"] /\ rnd' = [rnd EXCEPT ![h] = None]
        /\ UNCHANGED <<entry, supported, resettable, calls, overlapped, stopFailed, stop, snap, chat,
                       fwd, beside, dirty, missed>>
      BY <1>2 DEF InitUnwound
  <2>2. TypeOK'
      BY <2>1
  <2>3. \A g \in Handlers : Creating(g)' => g # h /\ Creating(g) /\ rnd'[g] = rnd[g]
      BY <2>1
  <2>4. \A g \in Handlers : Creating(g)' => rnd[g] # rnd[h] /\ task'[rnd[g]] = task[rnd[g]]
      BY <1>2, <2>1, <2>3 DEF InitUnwound
  <2>5. /\ \A q \in fwd' : \/ task'[q] \in {"abort", "rpc", "backoff", "reset"}
                           \/ ~resettable' /\ task'[q] \in Ended
        /\ \A q \in Rounds : task'[q] \in {"reset", "resetFail"} => resettable'
    <3>1. \A q \in fwd : q # rnd[h] /\ task'[q] = task[q]
        BY <2>1
    <3>2. \A q \in Rounds : task'[q] \in {task[q], "void"}
        BY <2>1
    <3>3. fwd' = fwd /\ resettable' = resettable
        BY <2>1
    <3> HIDE DEF TypeInv, TypeOK, RoundKnown
    <3> QED BY <1>k, <3>1, <3>2, <3>3
  <2>6. \A g \in Handlers : pc'[g] \in {"joining", "joiningCb"} => rnd'[g] \in Rounds
      BY <2>1
  <2> HIDE DEF TypeOK
  <2> QED BY <2>2, <2>3, <2>4, <2>5, <2>6
<1>3. CASE StopJoined(h)
    BY <1>3 DEF StopJoined
<1>4. CASE StopJoinedCb(h)
    BY <1>4 DEF StopJoinedCb
<1>5. CASE StopClears(h)
  <2>1. /\ gate' = FALSE /\ pc' = [pc EXCEPT ![h] = "idle"] /\ rnd' = [rnd EXCEPT ![h] = None]
        /\ UNCHANGED <<entry, supported, resettable, calls, overlapped, stopFailed, task, stop, cb, snap,
                       chat, fwd, beside, dirty, missed>>
      BY <1>5 DEF StopClears
  <2>2. TypeOK'
      BY <2>1
  <2>3. RoundKnown'
      BY <2>1
  <2> QED BY <2>2, <2>3
<1> QED BY <1>1, <1>2, <1>3, <1>4, <1>5 DEF Resumes

(* ... the steps of a round's tasks and of the engine ... *)
LEMMA RoundTypeInv ==
    ASSUME TypeInv, NEW r \in Rounds,
           Generation(r) \/ EngineDone(r) \/ CallbackExits(r)
    PROVE  TypeInv'
<1> USE DEF TypeInv, TypeOK, RoundKnown, Creating, TaskStates, Unfinished, Ended, Procs,
            opVars, callVars, taskVars, engVars
<1>1. Live \subseteq Chats
    BY DEF Live
<1>2. ASSUME BeginChunk(r), task[r] \in {"ready", "backoff", "rpc"}
      PROVE  TypeInv'
  <2>1. PICK s \in {"abort", "rpc"} :
            /\ task' = [task EXCEPT ![r] = s]
            /\ fwd' \subseteq fwd \union {r} /\ (s = "abort" => UNCHANGED <<fwd, beside, missed>>)
      BY <1>2 DEF BeginChunk, Issue
  <2>2. /\ snap' = [snap EXCEPT ![r] = Live] /\ missed' \in {missed, FALSE}
        /\ beside' \in {beside, [beside EXCEPT ![r] = Live]}
        /\ UNCHANGED <<gate, opVars, stop, cb, chat, dirty>>
      BY <1>2 DEF BeginChunk, Issue
  <2>3. TypeOK'
    <3>1. snap' \in [Procs -> SUBSET Chats] /\ beside' \in [Rounds -> SUBSET Chats]
        BY <1>1, <2>2
    <3>2. task' \in [Rounds -> TaskStates] /\ fwd' \subseteq Rounds /\ missed' \in BOOLEAN
        BY <2>1, <2>2
    <3> QED BY <2>2, <3>1, <3>2
  <2> QED BY <1>2, <2>1, <2>2, <2>3
<1>3. CASE GenForward(r)
    BY <1>1, <1>3 DEF GenForward, Issue
<1>4. CASE GenTimesOut(r)
    BY <1>4 DEF GenTimesOut
<1>5. CASE GenCrashes(r) \/ GenCancelled(r)
  <2>1. PICK s \in TaskStates :
            /\ task' = [task EXCEPT ![r] = s]
            /\ IF resettable THEN s \in {"reset", "resetFail"} ELSE s \in Ended
      BY <1>5 DEF GenCrashes, GenCancelled, Unwinds, TaskEnds
  <2>2. /\ task[r] \in {"abort", "rpc", "backoff"}
        /\ gate' \in {gate, FALSE} /\ missed' \in {missed, TRUE} /\ dirty' \in {dirty, TRUE}
        /\ snap' \in {snap, [snap EXCEPT ![r] = {}]} /\ fwd' \subseteq fwd
        /\ beside' \in {beside, [beside EXCEPT ![r] = {}]}
        /\ UNCHANGED <<opVars, stop, cb, chat>>
      BY <1>5 DEF GenCrashes, GenCancelled, Unwinds, TaskEnds
  <2>5. s = "resetFail" => r \notin fwd'
    <3>1. CASE GenCrashes(r)
        BY <3>1 DEF GenCrashes
    <3>2. CASE GenCancelled(r)
      <4>1. task'[r] \in {"reset", "done"}
          BY <3>2 DEF GenCancelled, Unwinds, TaskEnds
      <4> QED BY <2>1, <4>1
    <3> QED BY <1>5, <3>1, <3>2
  <2>3. TypeOK'
    <3>1. task' \in [Rounds -> TaskStates]
        BY <2>1
    <3>2. snap' \in [Procs -> SUBSET Chats] /\ beside' \in [Rounds -> SUBSET Chats]
        BY <2>2
    <3>3. gate' \in BOOLEAN /\ missed' \in BOOLEAN /\ dirty' \in BOOLEAN /\ fwd' \subseteq Rounds
        BY <2>2
    <3> QED BY <2>2, <3>1, <3>2, <3>3
  <2>4. RoundKnown'
    <3>1. \A q \in Rounds \ {r} : task'[q] = task[q]
        BY <2>1
    <3>2. task'[r] = s /\ task[r] # "pending"
        BY <2>1, <2>2
    <3>3. \A h \in Handlers : Creating(h) => rnd[h] # r
        BY <3>2
    <3>4. /\ \A h \in Handlers : pc'[h] \in {"joining", "joiningCb"} => rnd'[h] \in Rounds
          /\ \A h \in Handlers :
                Creating(h)' => rnd'[h] \in Rounds /\ task'[rnd'[h]] = "pending"
          /\ \A g, h \in Handlers :
                Creating(g)' /\ Creating(h)' /\ rnd'[g] = rnd'[h] => g = h
        BY <2>2, <3>1, <3>3
    <3>5. \A q \in fwd' : \/ task'[q] \in {"abort", "rpc", "backoff", "reset"}
                          \/ ~resettable' /\ task'[q] \in Ended
        BY <2>1, <2>2, <2>5, <3>1, <3>2
    <3>6. \A q \in Rounds : task'[q] \in {"reset", "resetFail"} => resettable'
        BY <2>1, <2>2, <3>1, <3>2
    <3> QED BY <3>4, <3>5, <3>6
  <2> QED BY <2>3, <2>4
<1>7. CASE GenKilled(r)
  <2>1. PICK s \in {"cancelled", "interrupted"} : task' = [task EXCEPT ![r] = s]
      BY <1>7 DEF GenKilled, TaskEnds
  <2>2. /\ task[r] \in {"ready", "resetFail"} /\ dirty' \in {dirty, FALSE} /\ gate' = FALSE
        /\ beside' = [beside EXCEPT ![r] = {}]
        /\ UNCHANGED <<opVars, stop, cb, snap, chat, fwd, missed>>
      BY <1>7 DEF GenKilled, TaskEnds
  <2> QED BY <2>1, <2>2
<1>8. CASE GenEnds(r)
  <2>1. PICK s \in {"done", "failed"} : task' = [task EXCEPT ![r] = s]
      BY <1>8 DEF GenEnds, TaskEnds
  <2>2. /\ task[r] \in {"reset", "resetFail"} /\ r \notin fwd
        /\ dirty' \in {dirty, FALSE} /\ missed' \in BOOLEAN /\ gate' = FALSE
        /\ beside' = [beside EXCEPT ![r] = {}]
        /\ UNCHANGED <<opVars, stop, cb, snap, chat, fwd>>
      BY <1>8 DEF GenEnds, TaskEnds
  <2> QED BY <2>1, <2>2
<1>9. CASE EngineDone(r)
    BY <1>9 DEF EngineDone
<1>10. CASE CallbackExits(r)
    BY <1>10 DEF CallbackExits
<1> HIDE DEF TypeInv
<1> QED
    BY <1>2, <1>3, <1>4, <1>5, <1>7, <1>8, <1>9, <1>10
    DEF Generation, GenStarts, GenSucceeds

(* ... and chat requests and their aborts. *)
LEMMA ChatTypeInv ==
    ASSUME TypeInv,
           \/ \E c \in Chats : ChatStep(c)
           \/ \E p \in Procs : Aborting(p)
    PROVE  TypeInv'
<1> USE DEF TypeInv, TypeOK, RoundKnown, Creating, ChatStates, opVars, callVars, taskVars, engVars
<1>1. ASSUME NEW c \in Chats, ChatStep(c)
      PROVE  TypeInv'
    BY <1>1 DEF ChatStep, Admit, Register, Finish
<1>2. ASSUME NEW p \in Procs, NEW c \in Chats, AbortOne(p, c) \/ AbortFails(p, c)
      PROVE  TypeInv'
    BY <1>2 DEF AbortOne, AbortFails
<1> QED BY <1>1, <1>2 DEF Aborting

LEMMA NextTypeInv == TypeInv /\ [Next]_vars => TypeInv'
<1> SUFFICES ASSUME TypeInv, [Next]_vars PROVE TypeInv'
    OBVIOUS
<1>1. CASE UNCHANGED vars
    BY <1>1 DEF vars, opVars, callVars, taskVars, engVars, TypeInv, TypeOK, RoundKnown,
               Creating
<1>2. CASE Next
    BY <1>2, CallTypeInv, ResumeTypeInv, RoundTypeInv, ChatTypeInv DEF Next
<1> QED BY <1>1, <1>2

(* Every variable keeps its type, and the round a request works on exists. *)
THEOREM TypeCorrect == Spec => []TypeOK
<1>1. Spec => []TypeInv
    BY InitTypeInv, NextTypeInv, PTL DEF Spec
<1>2. TypeInv => TypeOK
    BY DEF TypeInv
<1> QED BY <1>1, <1>2, PTL
----------------------------------------------------------------------------
(* A step of a round's tasks leaves what the operator's requests know alone,
   and either the round still runs or the gate is off. *)
LEMMA RoundStep ==
    ASSUME TypeInv, NEW r \in Rounds,
           Generation(r) \/ EngineDone(r) \/ CallbackExits(r)
    PROVE  /\ UNCHANGED <<opVars, stop>>
           /\ \A q \in Rounds : cb'[q] => cb[q]
           /\ \A q \in Rounds : Running(q)' => Running(q)
           /\ \A q \in Rounds \ {r} : Running(q) => Running(q)'
           /\ \/ gate' = gate /\ (Running(r) => Running(r)')
              \/ ~gate' /\ Running(r) /\ ~Running(r)'
<1> USE DEF TypeInv, TypeOK, Running, Unfinished, taskVars, engVars
<1>1. CASE Generation(r)
    BY <1>1 DEF Generation, GenStarts, GenForward, GenSucceeds, GenTimesOut, GenCrashes,
                GenCancelled, GenKilled, GenEnds, BeginChunk, Issue, Unwinds, TaskEnds
<1>2. CASE EngineDone(r)
    BY <1>2 DEF EngineDone
<1>3. CASE CallbackExits(r)
    BY <1>3 DEF CallbackExits
<1> QED BY <1>1, <1>2, <1>3

LEMMA ChatStepLeavesRest ==
    ASSUME \/ \E c \in Chats : ChatStep(c)
           \/ \E p \in Procs : Aborting(p)
    PROVE  UNCHANGED <<gate, opVars, taskVars, engVars>>
BY DEF ChatStep, Admit, Register, Finish, Aborting, AbortOne, AbortFails

LEMMA NextGateOwned == TypeInv /\ GateOwned /\ [Next]_vars => GateOwned'
<1> SUFFICES ASSUME TypeInv, GateOwned, [Next]_vars PROVE GateOwned'
    OBVIOUS
<1> USE DEF GateOwned
<1>1. CASE UNCHANGED vars
    BY <1>1 DEF vars, opVars, callVars, taskVars, Creating, Running
<1>2. ASSUME NEW h \in Handlers, InitCall(h) \/ StopCall(h)
      PROVE  GateOwned'
  <2> USE DEF TypeInv, TypeOK, Creating, Running, Arrives
  <2>1. CASE InitConflict(h)
      BY <2>1 DEF InitConflict, taskVars
  <2>2. CASE Reraises(h)
      BY <2>2 DEF Reraises
  <2>3. ASSUME NEW r \in Rounds, task[r] = "unborn", NEW url \in BOOLEAN,
               InitBegins(h, r, url)
        PROVE  GateOwned'
      BY <2>3 DEF InitBegins, Unfinished
  <2>4. ASSUME NEW r \in Rounds, task[r] = "unborn", NEW url \in BOOLEAN,
               InitFails(h, r, url)
        PROVE  GateOwned'
      BY <2>4 DEF InitFails
  <2>5. CASE StopNothing(h)
      BY <2>5 DEF StopNothing, taskVars
  <2>6. CASE StopCancels(h)
      BY <2>6 DEF StopCancels
  <2> HIDE DEF GateOwned
  <2> QED
      BY <1>2, <2>1, <2>2, <2>3, <2>4, <2>5, <2>6, NewRoundUnborn
      DEF InitCall, StopCall, InitReraises, StopReraises
<1>3. ASSUME NEW h \in Handlers, Resumes(h)
      PROVE  GateOwned'
  <2> USE DEF TypeInv, TypeOK, RoundKnown, Creating, Running
  <2>1. CASE InitSpawns(h)
      BY <2>1 DEF InitSpawns, Unfinished
  <2>2. CASE InitUnwound(h)
      BY <2>2 DEF InitUnwound
  <2>3. CASE StopJoined(h)
      BY <2>3 DEF StopJoined, taskVars
  <2>4. CASE StopJoinedCb(h)
      BY <2>4 DEF StopJoinedCb
  <2>5. CASE StopClears(h)
      BY <2>5 DEF StopClears
  <2> QED BY <1>3, <2>1, <2>2, <2>3, <2>4, <2>5 DEF Resumes
<1>4. ASSUME NEW r \in Rounds, Generation(r) \/ EngineDone(r) \/ CallbackExits(r)
      PROVE  GateOwned'
    BY <1>4, RoundStep DEF opVars, callVars, Creating, TypeInv, TypeOK
<1>5. CASE (\E c \in Chats : ChatStep(c)) \/ (\E p \in Procs : Aborting(p))
    BY <1>5, ChatStepLeavesRest DEF opVars, callVars, taskVars, Creating, Running
<1> QED BY <1>1, <1>2, <1>3, <1>4, <1>5 DEF Next

(* The gate never latches, whatever operators overlap. *)
THEOREM GateNeverLatches == Spec => []GateOwned
<1>1. Init => TypeInv /\ GateOwned
    BY InitTypeInv DEF Init, GateOwned
<1>2. TypeInv /\ GateOwned /\ [Next]_vars => (TypeInv /\ GateOwned)'
    BY NextTypeInv, NextGateOwned
<1> QED BY <1>1, <1>2, PTL DEF Spec
----------------------------------------------------------------------------
(* An operator request that starts while no other is served and the history
   stays clean finds every other request idle. *)
LEMMA AloneAtArrival ==
    ASSUME TypeInv, NEW h \in Handlers, Arrives(h), ~overlapped'
    PROVE  ~overlapped /\ \A g \in Handlers : pc[g] = "idle"
BY DEF Arrives, TypeInv, TypeOK

LEMMA CallSerial ==
    ASSUME TypeInv, SerialInv, NEW h \in Handlers, InitCall(h) \/ StopCall(h)
    PROVE  SerialInv'
<1> SUFFICES ASSUME ~overlapped' PROVE Serial'
    BY DEF SerialInv
<1>0. Arrives(h)
    BY DEF InitCall, StopCall, InitConflict, InitReraises, StopReraises, Reraises,
           InitBegins, InitFails, StopNothing, StopCancels
<1>1. Serial /\ \A g \in Handlers : pc[g] = "idle"
    BY <1>0, AloneAtArrival DEF SerialInv
<1> USE <1>1
    DEF Serial, OneAtATime, EntryTaken, RunningKnown, CallbackKnown, CreatingGated,
        Busy, Creating, Running, TypeInv, TypeOK
<1>2. CASE InitConflict(h)
    BY <1>2 DEF InitConflict, taskVars
<1>3. CASE Reraises(h)
    BY <1>3 DEF Reraises, Active
<1>4. ASSUME NEW r \in Rounds, task[r] = "unborn", NEW url \in BOOLEAN,
             InitBegins(h, r, url)
      PROVE  Serial'
  <2>1. \A q \in Rounds : ~Running(q) /\ ~(cb[q] /\ ~stop[q])
      BY <1>4, NoneAssumption DEF InitBegins
  <2>2. gate' /\ stop' = stop /\ \A q \in Rounds \ {r} : cb'[q] = cb[q] /\ task'[q] = task[q]
      BY <1>4 DEF InitBegins
  <2>3. CASE Live = {}
      BY <1>4, <2>1, <2>2, <2>3 DEF InitBegins
  <2>4. CASE Live # {}
    <3>1. entry' = None /\ pc' = [pc EXCEPT ![h] = "aborting"] /\ rnd'[h] = r
        BY <1>4, <2>4 DEF InitBegins
    <3>2. \A q \in Rounds : ~Running(q)'
        BY <1>4, <2>1, <2>4 DEF InitBegins, Unfinished
    <3> QED BY <2>1, <2>2, <3>1, <3>2
  <2> QED BY <2>3, <2>4
<1>5. ASSUME NEW r \in Rounds, task[r] = "unborn", NEW url \in BOOLEAN,
             InitFails(h, r, url)
      PROVE  Serial'
  <2>1. \A q \in Rounds : ~Running(q) /\ ~(cb[q] /\ ~stop[q])
      BY <1>5, NoneAssumption DEF InitFails
  <2>2. \A q \in Rounds : ~Running(q)'
      BY <1>5, <2>1 DEF InitFails, Unfinished
  <2>3. \A q \in Rounds : ~(cb'[q] /\ ~stop'[q])
      BY <1>5, <2>1 DEF InitFails
  <2>4. entry' = None /\ \A g \in Handlers \ {h} : pc'[g] = "idle"
      BY <1>5 DEF InitFails
  <2>5. pc'[h] \in {"aborting", "unwinding"} => gate'
      BY <1>5 DEF InitFails
  <2> QED BY <2>2, <2>3, <2>4, <2>5
<1>6. CASE StopNothing(h)
    BY <1>6 DEF StopNothing, taskVars
<1>7. CASE StopCancels(h)
    BY <1>7 DEF StopCancels, Active
<1> HIDE DEF Serial
<1> QED
    BY <1>2, <1>3, <1>4, <1>5, <1>6, <1>7, NewRoundUnborn
    DEF InitCall, StopCall, InitReraises, StopReraises

LEMMA ResumeSerial ==
    ASSUME TypeInv, SerialInv, NEW h \in Handlers, Resumes(h)
    PROVE  SerialInv'
<1> SUFFICES ASSUME ~overlapped' PROVE Serial'
    BY DEF SerialInv
<1>1. Serial
    BY DEF SerialInv, callVars, Resumes, InitSpawns, InitUnwound, StopJoined, StopJoinedCb, StopClears
<1> USE <1>1
    DEF Serial, OneAtATime, EntryTaken, RunningKnown, CallbackKnown, CreatingGated,
        Busy, Creating, Running, TypeInv, TypeOK, RoundKnown
<1>2. CASE InitSpawns(h)
  <2>1. OneAtATime' /\ EntryTaken' /\ CreatingGated'
      BY <1>2 DEF InitSpawns
  <2>2. RunningKnown'
      BY <1>2, NoneAssumption DEF InitSpawns
  <2>3. CallbackKnown'
      BY <1>2, NoneAssumption DEF InitSpawns
  <2> QED BY <2>1, <2>2, <2>3
<1>3. CASE InitUnwound(h)
    BY <1>3, NoneAssumption DEF InitUnwound, Unfinished
<1>4. CASE StopJoined(h)
    BY <1>4, NoneAssumption DEF StopJoined, taskVars, Unfinished, Ended
<1>5. CASE StopJoinedCb(h)
    BY <1>5, NoneAssumption DEF StopJoinedCb
<1>6. CASE StopClears(h)
    BY <1>6, NoneAssumption DEF StopClears, taskVars
<1> HIDE DEF Serial
<1> QED BY <1>2, <1>3, <1>4, <1>5, <1>6 DEF Resumes

LEMMA RoundSerial ==
    ASSUME TypeInv, SerialInv, NEW r \in Rounds,
           Generation(r) \/ EngineDone(r) \/ CallbackExits(r)
    PROVE  SerialInv'
<1> SUFFICES ASSUME ~overlapped' PROVE Serial'
    BY DEF SerialInv
<1>1. Serial
    BY RoundStep DEF SerialInv, opVars, callVars
<1>2. UNCHANGED <<entry, pc, rnd, stop>> /\ \A q \in Rounds : cb'[q] => cb[q]
    BY RoundStep DEF opVars, callVars
<1>3. OneAtATime' /\ EntryTaken' /\ CallbackKnown'
    BY <1>1, <1>2 DEF Serial, OneAtATime, EntryTaken, CallbackKnown, Busy
<1>4. \A p, q \in Rounds : Running(p) /\ Running(q) => p = q
    BY <1>1, NoneAssumption DEF Serial, OneAtATime, EntryTaken, RunningKnown, Busy
<1>5. \A h \in Handlers, q \in Rounds : ~(Creating(h) /\ Running(q))
    BY <1>1, NoneAssumption
    DEF Serial, OneAtATime, EntryTaken, RunningKnown, Busy, Creating
<1>6. RunningKnown' /\ CreatingGated'
  <2>1. CASE gate' = gate
      BY <1>1, <1>2, <2>1, RoundStep
      DEF Serial, RunningKnown, CreatingGated, Creating
  <2>2. CASE ~gate' /\ Running(r) /\ ~Running(r)'
    <3>1. \A q \in Rounds : ~Running(q)'
        BY <1>4, <2>2, RoundStep
    <3>2. \A h \in Handlers : ~Creating(h)'
        BY <1>2, <1>5, <2>2 DEF Creating
    <3> QED BY <3>1, <3>2 DEF RunningKnown, CreatingGated
  <2> QED BY <2>1, <2>2, RoundStep
<1> QED BY <1>3, <1>6 DEF Serial

LEMMA NextSerial == TypeInv /\ SerialInv /\ [Next]_vars => SerialInv'
<1> SUFFICES ASSUME TypeInv, SerialInv, [Next]_vars PROVE SerialInv'
    OBVIOUS
<1> USE DEF SerialInv, Serial, OneAtATime, EntryTaken, RunningKnown, CallbackKnown,
            CreatingGated, Busy, Creating, Running
<1>1. CASE UNCHANGED vars
    BY <1>1 DEF vars, opVars, callVars, taskVars
<1>2. CASE (\E c \in Chats : ChatStep(c)) \/ (\E p \in Procs : Aborting(p))
    BY <1>2, ChatStepLeavesRest DEF opVars, callVars, taskVars
<1> HIDE DEF SerialInv
<1> QED BY <1>1, <1>2, CallSerial, ResumeSerial, RoundSerial DEF Next

(* For an operator who waits for each answer: chat is refused while a round
   exists or a forward of one is in the engine; /stop reaches every round;
   and no callback loop is left behind. *)
THEOREM SerialOperator ==
    Spec => [](SerialGateCoversMining /\ NoOrphan)
<1>1. Init => TypeInv /\ SerialInv
    BY InitTypeInv
    DEF Init, SerialInv, Serial, OneAtATime, EntryTaken, RunningKnown, CallbackKnown,
        CreatingGated, Busy, Creating, Running, Unfinished
<1>2. TypeInv /\ SerialInv /\ [Next]_vars => (TypeInv /\ SerialInv)'
    BY NextTypeInv, NextSerial
<1>3. TypeInv /\ SerialInv => SerialGateCoversMining /\ NoOrphan
    BY DEF TypeInv, TypeOK, RoundKnown, SerialInv, Serial, RunningKnown, CallbackKnown,
           SerialGateCoversMining, GateCoversMining, NoOrphan, Running, Unfinished
<1> QED BY <1>1, <1>2, <1>3, PTL DEF Spec

(* /stop reaches every round, and no callback loop is left behind. *)
THEOREM NothingOrphaned == Spec => []NoOrphan
BY SerialOperator, PTL

----------------------------------------------------------------------------
(* What mining has overwritten is reset by the round that did it, before   *)
(* the gate opens; the exceptions are a reset that is asked for and does   *)
(* not happen, and a /stop that meets a crashed round's `finally'.         *)

(* A task that has issued forwards and not yet come to the end of its reset. *)
MustReset(r) ==
    task[r] \in {"abort", "rpc", "backoff", "reset", "resetFail", "interrupted"}

DirtyOwned == dirty \/ fwd # {} => missed \/ \E r \in Rounds : MustReset(r)

(* Operators and chats neither dirty the cache nor take a task out of its way. *)
LEMMA RestKeepsMustReset ==
    ASSUME TypeInv,
           \/ \E h \in Handlers : InitCall(h) \/ StopCall(h) \/ Resumes(h)
           \/ \E c \in Chats : ChatStep(c)
           \/ \E p \in Procs : Aborting(p)
           \/ UNCHANGED vars
    PROVE  /\ UNCHANGED <<fwd, dirty, missed>>
           /\ \A r \in Rounds : MustReset(r) => MustReset(r)'
<1> USE DEF MustReset
<1>1. CASE \E c \in Chats : ChatStep(c)
    BY <1>1, ChatStepLeavesRest DEF taskVars, engVars
<1>2. CASE \E p \in Procs : Aborting(p)
    BY <1>2, ChatStepLeavesRest DEF taskVars, engVars
<1>3. CASE UNCHANGED vars
    BY <1>3 DEF vars, taskVars, engVars
<1>4. ASSUME NEW h \in Handlers, InitCall(h)
      PROVE  /\ UNCHANGED <<fwd, dirty, missed>>
             /\ \A r \in Rounds : MustReset(r) => MustReset(r)'
    BY <1>4, NewRoundUnborn
    DEF TypeInv, TypeOK, InitCall, InitConflict, InitReraises, Reraises, InitBegins, InitFails,
        taskVars, engVars
<1>5. ASSUME NEW h \in Handlers, StopCall(h)
      PROVE  /\ UNCHANGED <<fwd, dirty, missed>>
             /\ \A r \in Rounds : MustReset(r) => MustReset(r)'
    BY <1>5
    DEF StopCall, StopNothing, StopReraises, Reraises, StopCancels, taskVars, engVars
<1>6. ASSUME NEW h \in Handlers, Resumes(h)
      PROVE  /\ UNCHANGED <<fwd, dirty, missed>>
             /\ \A r \in Rounds : MustReset(r) => MustReset(r)'
    <2>1. CASE InitSpawns(h)
        BY <2>1 DEF TypeInv, TypeOK, RoundKnown, Creating, InitSpawns, engVars
    <2>2. CASE InitUnwound(h)
        BY <2>2 DEF TypeInv, TypeOK, RoundKnown, Creating, InitUnwound, engVars
    <2>3. CASE StopJoined(h) \/ StopJoinedCb(h) \/ StopClears(h)
        BY <2>3 DEF StopJoined, StopJoinedCb, StopClears, taskVars, engVars
    <2> QED BY <1>6, <2>1, <2>2, <2>3 DEF Resumes
<1> QED BY <1>1, <1>2, <1>3, <1>4, <1>5, <1>6

LEMMA NextDirtyOwned == TypeInv /\ DirtyOwned /\ [Next]_vars => DirtyOwned'
<1> SUFFICES ASSUME TypeInv, DirtyOwned, [Next]_vars PROVE DirtyOwned'
    OBVIOUS
<1>1. ASSUME NEW r \in Rounds, Generation(r)
      PROVE  DirtyOwned'
    <2> USE DEF TypeInv, TypeOK, DirtyOwned, MustReset
    <2>1. CASE GenStarts(r) \/ GenForward(r) \/ GenSucceeds(r)
        BY <2>1 DEF GenStarts, GenForward, GenSucceeds, BeginChunk, Issue
    <2>2. CASE GenTimesOut(r) \/ GenCrashes(r) \/ GenCancelled(r)
        BY <2>2 DEF GenTimesOut, GenCrashes, GenCancelled, Unwinds, TaskEnds, engVars
    <2>3. CASE GenKilled(r)
        <3>1. fwd' = fwd /\ missed' = missed /\ dirty' \in {dirty, FALSE}
            BY <2>3 DEF GenKilled
        <3>2. \A q \in Rounds : MustReset(q) => MustReset(q)'
            BY <2>3 DEF GenKilled, TaskEnds
        <3> QED BY <3>1, <3>2
    <2>4. CASE GenEnds(r)
        <3>1. /\ resettable /\ fwd' = fwd /\ r \notin fwd
              /\ missed' \/ (~dirty' /\ \A q \in Rounds \ {r} : MustReset(q) => MustReset(q)')
            BY <2>4 DEF RoundKnown, GenEnds, TaskEnds
        <3>2. \A q \in fwd : q \in Rounds \ {r} /\ MustReset(q)
            BY <3>1 DEF RoundKnown
        <3> QED BY <3>1, <3>2
    <2> QED BY <1>1, <2>1, <2>2, <2>3, <2>4 DEF Generation
<1>2. ASSUME NEW r \in Rounds, EngineDone(r)
      PROVE  DirtyOwned'
    BY <1>2 DEF EngineDone, taskVars, TypeInv, TypeOK, RoundKnown, DirtyOwned, MustReset
<1>3. ASSUME NEW r \in Rounds, CallbackExits(r)
      PROVE  DirtyOwned'
    BY <1>3 DEF CallbackExits, engVars, DirtyOwned, MustReset
<1>4. CASE \/ \E h \in Handlers : InitCall(h) \/ StopCall(h) \/ Resumes(h)
           \/ \E c \in Chats : ChatStep(c)
           \/ \E p \in Procs : Aborting(p)
           \/ UNCHANGED vars
    <2>1. /\ UNCHANGED <<fwd, dirty, missed>>
          /\ \A r \in Rounds : MustReset(r) => MustReset(r)'
        BY <1>4, RestKeepsMustReset
    <2> QED BY <2>1 DEF DirtyOwned
<1> QED BY <1>1, <1>2, <1>3, <1>4 DEF Next

(* For one operator at a time: chat is admitted to overwritten blocks only after a reset
   that was asked for behind the last forward and did not happen, or after a round was
   cancelled inside the `finally' of its crash. *)
THEOREM CleanHandover == Spec => []NoPoisonedHandover
<1>1. Init => TypeInv /\ DirtyOwned
    BY InitTypeInv DEF Init, DirtyOwned
<1>2. TypeInv /\ DirtyOwned /\ [Next]_vars => (TypeInv /\ DirtyOwned)'
    BY NextTypeInv, NextDirtyOwned
<1>3. DirtyOwned /\ SerialGateCoversMining => NoPoisonedHandover
    BY DEF DirtyOwned, MustReset, SerialGateCoversMining, GateCoversMining, Running,
           Unfinished, NoPoisonedHandover
<1> QED BY <1>1, <1>2, <1>3, SerialOperator, PTL DEF Spec
----------------------------------------------------------------------------
(* A chat that slipped past the gate and shared a forward is listed by the *)
(* next abort of the round, and leaves that list ended or stuck.           *)

Seen(c) == chat[c] \notin {"new", "admitted"}

SlipInv ==
    \A r \in Rounds : \A c \in beside[r] :
        /\ Seen(c)
        /\ task[r] = "abort" /\ chat[c] = "live" => c \in snap[r]

(* Operators neither issue forwards nor touch the list of a round. *)
LEMMA OperatorKeepsSlips ==
    ASSUME TypeInv, NEW h \in Handlers, InitCall(h) \/ StopCall(h) \/ Resumes(h)
    PROVE  /\ UNCHANGED <<chat, fwd, beside>>
           /\ \A r \in Rounds :
                 /\ snap'[r] = snap[r]
                 /\ task'[r] \in {"abort", "rpc"} => task'[r] = task[r]
<1> USE ProcAssumption DEF TypeInv, TypeOK, Procs, callVars, taskVars, engVars
<1>1. ASSUME NEW r \in Rounds, NEW url \in BOOLEAN,
             InitBegins(h, r, url) \/ InitFails(h, r, url)
      PROVE  /\ UNCHANGED <<chat, fwd, beside>>
             /\ \A q \in Rounds :
                   /\ snap'[q] = snap[q]
                   /\ task'[q] \in {"abort", "rpc"} => task'[q] = task[q]
    BY <1>1 DEF InitBegins, InitFails
<1>2. CASE InitConflict(h) \/ Reraises(h)
    BY <1>2 DEF InitConflict, Reraises
<1>3. CASE StopNothing(h) \/ StopCancels(h)
    BY <1>3 DEF StopNothing, StopCancels
<1>4. CASE InitSpawns(h) \/ InitUnwound(h)
    BY <1>4 DEF InitSpawns, InitUnwound
<1>5. CASE StopJoined(h) \/ StopJoinedCb(h) \/ StopClears(h)
    BY <1>5 DEF StopJoined, StopJoinedCb, StopClears
<1> QED
    BY <1>1, <1>2, <1>3, <1>4, <1>5, NewRoundUnborn
    DEF InitCall, StopCall, Resumes, InitReraises, StopReraises

(* A round's step issues nothing, or a forward beside chats it could not abort. *)
Issues(r) ==
    /\ fwd' = fwd \union {r}
    /\ \A q \in Rounds \ {r} : task'[q] = task[q]
    /\ \A c \in beside'[r] : Seen(c)
    /\ \A c \in beside[r] \intersect beside'[r] : chat[c] = "stuck"

LEMMA RoundSlips ==
    ASSUME TypeInv, SlipInv, NEW r \in Rounds,
           Generation(r) \/ EngineDone(r) \/ CallbackExits(r)
    PROVE  /\ SlipInv'
           /\ \/ Issues(r)
              \/ fwd' \subseteq fwd /\ \A q \in Rounds : task'[q] = "rpc" => task[q] = "rpc"
<1> DEFINE Goal ==
        /\ SlipInv'
        /\ \/ Issues(r)
           \/ fwd' \subseteq fwd /\ \A q \in Rounds : task'[q] = "rpc" => task[q] = "rpc"
<1> USE ProcAssumption DEF TypeInv, TypeOK, Procs
<1>1. \A c \in Live : c \in Chats /\ Seen(c) /\ chat[c] \in {"live", "stuck"}
    BY DEF Live, Seen
<1>2. ASSUME Issue(r), chat' = chat, snap' = snap \/ snap' = [snap EXCEPT ![r] = Live],
             \A c \in beside[r] \intersect Live : chat[c] = "stuck"
      PROVE  Goal
  <2>1. /\ task' = [task EXCEPT ![r] = "rpc"] /\ fwd' = fwd \union {r}
        /\ beside' = [beside EXCEPT ![r] = Live]
      BY <1>2 DEF Issue
  <2>2. Issues(r)
      BY <1>1, <1>2, <2>1 DEF Issues
  <2>3. ASSUME NEW q \in Rounds, NEW c \in beside'[q]
        PROVE  /\ Seen(c)'
               /\ task'[q] = "abort" /\ chat'[c] = "live" => c \in snap'[q]
    <3>1. CASE q = r
        BY <1>1, <1>2, <2>1, <2>3, <3>1 DEF Seen
    <3>2. CASE q # r
      <4>1. beside'[q] = beside[q] /\ task'[q] = task[q] /\ snap'[q] = snap[q]
          BY <1>2, <2>1, <3>2
      <4> QED BY <1>2, <2>3, <4>1 DEF SlipInv, Seen
    <3> QED BY <3>1, <3>2
  <2> QED BY <2>2, <2>3 DEF SlipInv
<1>3. ASSUME BeginChunk(r)
      PROVE  Goal
  <2>1. snap' = [snap EXCEPT ![r] = Live] /\ chat' = chat
      BY <1>3 DEF BeginChunk
  <2>2. CASE Live = {}
      BY <1>2, <1>3, <2>1, <2>2 DEF BeginChunk
  <2>3. CASE Live # {}
    <3>1. /\ task' = [task EXCEPT ![r] = "abort"] /\ fwd' = fwd /\ beside' = beside
        BY <1>3, <2>3 DEF BeginChunk
    <3>2. ASSUME NEW q \in Rounds, NEW c \in beside'[q]
          PROVE  /\ Seen(c)'
                 /\ task'[q] = "abort" /\ chat'[c] = "live" => c \in snap'[q]
      <4>1. CASE q = r
        <5>1. Seen(c) /\ c \in Chats /\ snap'[q] = Live
            BY <2>1, <3>1, <3>2, <4>1 DEF SlipInv
        <5> QED BY <2>1, <5>1 DEF Seen, Live
      <4>2. CASE q # r
        <5>1. beside'[q] = beside[q] /\ task'[q] = task[q] /\ snap'[q] = snap[q]
            BY <2>1, <3>1, <4>2
        <5> QED BY <2>1, <3>2, <5>1 DEF SlipInv, Seen
      <4> QED BY <4>1, <4>2
    <3> QED BY <3>1, <3>2 DEF SlipInv
  <2> QED BY <2>2, <2>3
<1>4. CASE GenForward(r)
  <2>1. task[r] = "abort" /\ snap[r] = {} /\ Issue(r) /\ chat' = chat /\ snap' = snap
      BY <1>4 DEF GenForward
  <2>2. \A c \in beside[r] \intersect Live : chat[c] = "stuck"
      BY <1>1, <2>1 DEF SlipInv
  <2> QED BY <1>2, <2>1, <2>2
<1>5. ASSUME chat' = chat, \A q \in Rounds : beside'[q] \subseteq beside[q],
             fwd' \subseteq fwd, \A q \in Rounds : task'[q] \in {"abort", "rpc"} => task'[q] = task[q],
             \A q \in Rounds : snap'[q] = snap[q] \/ task'[q] # "abort"
      PROVE  Goal
    BY <1>5 DEF SlipInv, Seen
<1>6. CASE GenTimesOut(r) \/ GenCrashes(r)
    BY <1>5, <1>6 DEF GenTimesOut, GenCrashes, Unwinds, TaskEnds, Ended, engVars
<1>7. CASE GenCancelled(r)
    BY <1>5, <1>7 DEF GenCancelled, Unwinds, TaskEnds, Ended
<1>8. CASE GenKilled(r) \/ GenEnds(r)
  <2>1. PICK s \in Ended : task' = [task EXCEPT ![r] = s]
      BY <1>8 DEF GenKilled, GenEnds, TaskEnds, Ended
  <2>2. /\ beside' = [beside EXCEPT ![r] = {}] /\ chat' = chat /\ snap' = snap /\ fwd' = fwd
      BY <1>8 DEF GenKilled, GenEnds, TaskEnds
  <2> QED BY <1>5, <2>1, <2>2 DEF Ended
<1>9. CASE EngineDone(r) \/ CallbackExits(r)
    BY <1>5, <1>9 DEF EngineDone, CallbackExits, taskVars, engVars
<1> HIDE DEF TypeInv, TypeOK, Procs
<1>10. CASE GenStarts(r) \/ GenSucceeds(r)
    BY <1>3, <1>10 DEF GenStarts, GenSucceeds
<1> QED BY <1>4, <1>6, <1>7, <1>8, <1>9, <1>10 DEF Generation

LEMMA ChatSlips ==
    ASSUME TypeInv, SlipInv,
           \/ \E c \in Chats : ChatStep(c)
           \/ \E p \in Procs : Aborting(p)
    PROVE  SlipInv'
<1> USE DEF TypeInv, TypeOK
<1>1. task' = task /\ beside' = beside
    BY ChatStepLeavesRest DEF taskVars, engVars
<1>2. ASSUME NEW c \in Chats, ChatStep(c)
      PROVE  SlipInv'
  <2>1. snap' = snap /\ \A d \in Chats \ {c} : chat'[d] = chat[d]
      BY <1>2 DEF ChatStep, Admit, Register, Finish
  <2>2. Seen(c) => chat'[c] = "gone"
      BY <1>2 DEF ChatStep, Admit, Register, Finish, Seen, Live
  <2>3. ASSUME NEW r \in Rounds, NEW d \in beside[r]
        PROVE  /\ Seen(d)'
               /\ task'[r] = "abort" /\ chat'[d] = "live" => d \in snap'[r]
    <3>1. d \in Chats
        OBVIOUS
    <3> QED BY <1>1, <2>1, <2>2, <2>3, <3>1 DEF SlipInv, Seen
  <2> QED BY <1>1, <2>3 DEF SlipInv
<1>3. ASSUME NEW p \in Procs, NEW c \in Chats, AbortOne(p, c) \/ AbortFails(p, c)
      PROVE  SlipInv'
  <2>1. /\ snap' = [snap EXCEPT ![p] = @ \ {c}]
        /\ \A d \in Chats \ {c} : chat'[d] = chat[d]
      BY <1>3 DEF AbortOne, AbortFails
  <2>2. chat'[c] # "live" /\ (Seen(c) => Seen(c)')
      BY <1>3 DEF AbortOne, AbortFails, Seen, Live
  <2>3. \A r \in Rounds : snap[r] \ {c} \subseteq snap'[r]
      BY <2>1 DEF Procs
  <2>4. ASSUME NEW r \in Rounds, NEW d \in beside[r]
        PROVE  /\ Seen(d)'
               /\ task'[r] = "abort" /\ chat'[d] = "live" => d \in snap'[r]
    <3>1. d \in Chats
        OBVIOUS
    <3>2. CASE d = c
        BY <2>2, <3>2 DEF SlipInv
    <3>3. CASE d # c
        BY <1>1, <2>1, <2>3, <3>1, <3>3 DEF SlipInv, Seen
    <3> QED BY <3>2, <3>3
  <2> QED BY <1>1, <2>4 DEF SlipInv
<1> QED BY <1>2, <1>3 DEF Aborting

LEMMA NextSlips ==
    TypeInv /\ SlipInv /\ [Next]_vars =>
        /\ SlipInv'
        /\ \/ \E r \in Rounds : Issues(r)
           \/ fwd' \subseteq fwd /\ \A q \in Rounds : task'[q] = "rpc" => task[q] = "rpc"
<1> SUFFICES ASSUME TypeInv, SlipInv, [Next]_vars
             PROVE  /\ SlipInv'
                    /\ \/ \E r \in Rounds : Issues(r)
                       \/ /\ fwd' \subseteq fwd
                          /\ \A q \in Rounds : task'[q] = "rpc" => task[q] = "rpc"
    OBVIOUS
<1>1. CASE UNCHANGED vars
    BY <1>1 DEF vars, taskVars, engVars, SlipInv, Seen
<1>2. ASSUME NEW h \in Handlers, InitCall(h) \/ StopCall(h) \/ Resumes(h)
      PROVE  /\ SlipInv'
             /\ fwd' \subseteq fwd /\ \A q \in Rounds : task'[q] = "rpc" => task[q] = "rpc"
    BY <1>2, OperatorKeepsSlips DEF SlipInv, Seen
<1>3. CASE (\E c \in Chats : ChatStep(c)) \/ (\E p \in Procs : Aborting(p))
    BY <1>3, ChatSlips, ChatStepLeavesRest DEF taskVars, engVars
<1> QED BY <1>1, <1>2, <1>3, RoundSlips DEF Next

(* A chat that slipped past the gate shares the engine with at most one forward
   of a round, unless the abort that should have ended it failed -- for any number
   of chats, rounds and overlapping operators. *)
THEOREM OneSlip == Spec => SlipsAtMostOnce
<1>1. Init => TypeInv /\ SlipInv
    BY InitTypeInv DEF Init, SlipInv
<1>2. TypeInv /\ SlipInv /\ [Next]_vars => (TypeInv /\ SlipInv)'
    BY NextTypeInv, NextSlips
<1>3. TypeInv /\ SlipInv /\ [Next]_vars =>
          [\A r \in Rounds :
              r \in fwd' \ fwd \/ (task[r] # "rpc" /\ task'[r] = "rpc") =>
                  \A c \in beside[r] \intersect beside'[r] : chat[c] = "stuck"]_vars
    BY NextSlips DEF Issues
<1> QED BY <1>1, <1>2, <1>3, PTL DEF Spec, SlipsAtMostOnce
----------------------------------------------------------------------------
(* What /stop leaves behind, for any operators.  An idle request knows no  *)
(* round, and one that is past its wait knows a round that has ended: no   *)
(* step takes a task out of its end or gives it its callback loop back,    *)
(* and RoundKnown keeps its forwards out of the engine, if a reset could   *)
(* wait for them.                                                          *)

StopInv ==
    \A h \in Handlers :
        /\ pc[h] = "idle" => rnd[h] = None
        /\ pc[h] = "joiningCb" => task[rnd[h]] \in Ended
        /\ pc[h] = "clearing" /\ rnd[h] # None =>
              rnd[h] \in Rounds /\ task[rnd[h]] \in Ended /\ ~cb[rnd[h]]

(* The end of a task is final. *)
EndsStay == \A r \in Rounds : task[r] \in Ended => task'[r] \in Ended /\ (cb'[r] => cb[r])

LEMMA EndIsFinal == TypeInv /\ [Next]_vars => EndsStay
<1> SUFFICES ASSUME TypeInv, [Next]_vars PROVE EndsStay
    OBVIOUS
<1> USE DEF EndsStay, TypeInv, TypeOK, Ended
<1>1. ASSUME NEW h \in Handlers, InitCall(h)
      PROVE  EndsStay
    BY <1>1, NewRoundUnborn
    DEF InitCall, InitConflict, InitReraises, Reraises, InitBegins, InitFails, taskVars
<1>2. ASSUME NEW h \in Handlers, StopCall(h)
      PROVE  EndsStay
    BY <1>2 DEF StopCall, StopNothing, StopReraises, Reraises, StopCancels, taskVars
<1>3. ASSUME NEW h \in Handlers, Resumes(h)
      PROVE  EndsStay
    <2>1. CASE InitSpawns(h)
        BY <2>1 DEF RoundKnown, Creating, InitSpawns
    <2>2. CASE InitUnwound(h)
        BY <2>2 DEF RoundKnown, Creating, InitUnwound
    <2>3. CASE StopJoined(h) \/ StopJoinedCb(h) \/ StopClears(h)
        BY <2>3 DEF StopJoined, StopJoinedCb, StopClears, taskVars
    <2> QED BY <1>3, <2>1, <2>2, <2>3 DEF Resumes
<1>4. ASSUME NEW r \in Rounds, Generation(r) \/ EngineDone(r) \/ CallbackExits(r)
      PROVE  EndsStay
    BY <1>4
    DEF Generation, GenStarts, GenForward, GenSucceeds, GenTimesOut, GenCrashes, GenCancelled,
        GenKilled, GenEnds, Unwinds, TaskEnds, BeginChunk, Issue, EngineDone, CallbackExits,
        taskVars
<1>5. CASE (\E c \in Chats : ChatStep(c)) \/ (\E p \in Procs : Aborting(p))
    BY <1>5, ChatStepLeavesRest DEF taskVars
<1>6. CASE UNCHANGED vars
    BY <1>6 DEF vars, taskVars
<1> QED BY <1>1, <1>2, <1>3, <1>4, <1>5, <1>6 DEF Next

(* A request that knows nothing new keeps its part of StopInv. *)
LEMMA NextStopInv == TypeInv /\ StopInv /\ [Next]_vars => StopInv'
<1> SUFFICES ASSUME TypeInv, StopInv, [Next]_vars PROVE StopInv'
    OBVIOUS
<1>e. EndsStay
    BY EndIsFinal
<1>r. \A h \in Handlers : pc[h] = "joiningCb" => rnd[h] \in Rounds
    BY DEF TypeInv, RoundKnown
<1>1. CASE UNCHANGED <<pc, rnd>>
    BY <1>e, <1>r, <1>1 DEF StopInv, EndsStay
<1>2. ASSUME NEW h \in Handlers, InitCall(h) \/ StopCall(h)
      PROVE  StopInv'
    <2> USE DEF TypeInv, TypeOK
    <2>1. CASE UNCHANGED <<pc, rnd>>
        BY <1>1, <2>1
    <2>2. ASSUME NEW s \in HandlerStates, NEW r \in Rounds \union {None},
                 pc[h] = "idle", pc' = [pc EXCEPT ![h] = s],
                 \/ s = "clearing" /\ rnd' = rnd
                 \/ s \in {"aborting", "unwinding", "joining"} /\ rnd' = [rnd EXCEPT ![h] = r]
          PROVE  StopInv'
        BY <1>e, <1>r, <2>2 DEF StopInv, EndsStay
    <2>3. ASSUME NEW r \in Rounds, NEW url \in BOOLEAN,
                 InitBegins(h, r, url) \/ InitFails(h, r, url)
          PROVE  StopInv'
        <3> HIDE DEF TypeInv, TypeOK
        <3> QED BY <2>1, <2>2, <2>3 DEF InitBegins, InitFails, Arrives, HandlerStates
    <2>4. CASE StopNothing(h) \/ StopCancels(h)
        BY <2>2, <2>4 DEF StopNothing, StopCancels, Arrives, HandlerStates
    <2>5. CASE InitConflict(h) \/ Reraises(h)
        BY <2>1, <2>5 DEF InitConflict, Reraises
    <2> HIDE DEF TypeInv, TypeOK
    <2> QED
        BY <1>2, <2>3, <2>4, <2>5, NewRoundUnborn
        DEF InitCall, StopCall, InitReraises, StopReraises
<1>3. ASSUME NEW h \in Handlers, Resumes(h)
      PROVE  StopInv'
    <2> USE DEF TypeInv, TypeOK
    <2>1. CASE InitSpawns(h) \/ InitUnwound(h) \/ StopClears(h)
        BY <1>e, <1>r, <2>1 DEF InitSpawns, InitUnwound, StopClears, StopInv, EndsStay
    <2>2. CASE StopJoined(h)
        BY <1>e, <1>r, <2>2 DEF StopJoined, StopInv, EndsStay, RoundKnown, taskVars
    <2>3. CASE StopJoinedCb(h)
        BY <1>e, <1>r, <2>3 DEF StopJoinedCb, StopInv, EndsStay
    <2> QED BY <1>3, <2>1, <2>2, <2>3 DEF Resumes
<1>4. ASSUME NEW r \in Rounds, Generation(r) \/ EngineDone(r) \/ CallbackExits(r)
      PROVE  StopInv'
    BY <1>1, <1>4, RoundStep DEF opVars
<1>5. CASE (\E c \in Chats : ChatStep(c)) \/ (\E p \in Procs : Aborting(p))
    BY <1>1, <1>5, ChatStepLeavesRest DEF opVars
<1>6. CASE UNCHANGED vars
    BY <1>1, <1>6 DEF vars, opVars
<1> QED BY <1>2, <1>3, <1>4, <1>5, <1>6 DEF Next

(* Once a /stop answers, the round it cancelled is over: no task, no callback loop and
   no forward of it are left, for any number of overlapping operators. *)
THEOREM StopIsComplete == Spec => []StopLeavesNoRound
<1>1. Init => TypeInv /\ StopInv
    BY InitTypeInv DEF Init, StopInv
<1>2. TypeInv /\ StopInv /\ [Next]_vars => (TypeInv /\ StopInv)'
    BY NextTypeInv, NextStopInv
<1>3. TypeInv /\ StopInv => StopLeavesNoRound
    BY DEF TypeInv, RoundKnown, StopInv, StopLeavesNoRound, Ended
<1> QED BY <1>1, <1>2, <1>3, PTL DEF Spec
----------------------------------------------------------------------------
(* The argument behind StopReturns, up to fairness: a waiting /stop has    *)
(* cancelled its round, and such a round only goes on towards its end.     *)
(* GenCancelled and GenKilled are open to it in every state but "reset",   *)
(* where GenEnds is, or EngineDone while a forward is still in the engine. *)

Waits ==
    \A h \in Handlers :
        pc[h] = "joining" => stop[rnd[h]] /\ task[rnd[h]] \in Unfinished \union Ended

\* The steps that a cancelled task has yet to take.
StepsLeft(s) == IF s \in {"abort", "rpc", "backoff"} THEN 2 ELSE IF s \in Ended THEN 0 ELSE 1

RoundCloses(r) ==
    /\ stop'[r]
    /\ task'[r] \in Unfinished \union Ended
    /\ task'[r] = task[r] \/ StepsLeft(task'[r]) < StepsLeft(task[r])
    /\ r \in fwd' => r \in fwd

Closes ==
    \A r \in Rounds : stop[r] /\ task[r] \in Unfinished \union Ended => RoundCloses(r)

LEMMA CancelledCloses == TypeInv /\ [Next]_vars => Closes
<1> SUFFICES ASSUME TypeInv, [Next]_vars PROVE Closes
    OBVIOUS
<1> USE DEF Closes, RoundCloses, TypeInv, TypeOK, Unfinished, Ended
<1>1. ASSUME NEW h \in Handlers, InitCall(h)
      PROVE  Closes
    BY <1>1, NewRoundUnborn
    DEF InitCall, InitConflict, InitReraises, Reraises, InitBegins, InitFails, taskVars, engVars
<1>2. ASSUME NEW h \in Handlers, StopCall(h)
      PROVE  Closes
    BY <1>2 DEF StopCall, StopNothing, StopReraises, Reraises, StopCancels, taskVars, engVars
<1>3. ASSUME NEW h \in Handlers, Resumes(h)
      PROVE  Closes
    <2>1. CASE InitSpawns(h)
        BY <2>1 DEF RoundKnown, Creating, InitSpawns, engVars
    <2>2. CASE InitUnwound(h)
        BY <2>2 DEF RoundKnown, Creating, InitUnwound, engVars
    <2>3. CASE StopJoined(h) \/ StopJoinedCb(h) \/ StopClears(h)
        BY <2>3 DEF StopJoined, StopJoinedCb, StopClears, taskVars, engVars
    <2> QED BY <1>3, <2>1, <2>2, <2>3 DEF Resumes
<1>4. ASSUME NEW r \in Rounds, Generation(r)
      PROVE  Closes
    <2>1. CASE GenStarts(r) \/ GenForward(r) \/ GenSucceeds(r)
        BY <2>1 DEF GenStarts, GenForward, GenSucceeds, BeginChunk, Issue
    <2>2. CASE GenTimesOut(r) \/ GenCrashes(r)
        BY <2>2 DEF GenTimesOut, GenCrashes, Unwinds, TaskEnds, engVars
    <2>3. ASSUME NEW s \in TaskStates, task' = [task EXCEPT ![r] = s], stop' = stop, fwd' = fwd,
                 s \in Unfinished \union Ended, StepsLeft(s) < StepsLeft(task[r])
          PROVE  Closes
        BY <2>3
    <2>4. CASE GenCancelled(r)
        <3>1. PICK s \in {"reset", "done"} : task' = [task EXCEPT ![r] = s]
            BY <2>4 DEF GenCancelled, Unwinds, TaskEnds
        <3>2. StepsLeft(s) \in {0, 1} /\ StepsLeft(task[r]) = 2
            BY <2>4 DEF GenCancelled, StepsLeft
        <3> QED BY <2>3, <2>4, <3>1, <3>2 DEF GenCancelled, TaskStates
    <2>5. CASE GenKilled(r) \/ GenEnds(r)
        <3>1. PICK s \in Ended : task' = [task EXCEPT ![r] = s]
            BY <2>5 DEF GenKilled, GenEnds, TaskEnds
        <3>2. task[r] \in {"ready", "reset", "resetFail"} /\ stop' = stop /\ fwd' = fwd
            BY <2>5 DEF GenKilled, GenEnds
        <3>3. StepsLeft(s) = 0 /\ StepsLeft(task[r]) = 1
            BY <3>2 DEF StepsLeft
        <3> QED BY <2>3, <3>1, <3>2, <3>3 DEF TaskStates
    <2> QED BY <1>4, <2>1, <2>2, <2>4, <2>5 DEF Generation
<1>5. ASSUME NEW r \in Rounds, EngineDone(r) \/ CallbackExits(r)
      PROVE  Closes
    BY <1>5 DEF EngineDone, CallbackExits, taskVars, engVars
<1>6. CASE (\E c \in Chats : ChatStep(c)) \/ (\E p \in Procs : Aborting(p))
    BY <1>6, ChatStepLeavesRest DEF taskVars, engVars
<1>7. CASE UNCHANGED vars
    BY <1>7 DEF vars, taskVars, engVars
<1> QED BY <1>1, <1>2, <1>3, <1>4, <1>5, <1>6, <1>7 DEF Next

LEMMA NextWaits == TypeInv /\ Waits /\ [Next]_vars => Waits'
<1> SUFFICES ASSUME TypeInv, Waits, [Next]_vars PROVE Waits'
    OBVIOUS
<1>c. Closes
    BY CancelledCloses
<1>1. ASSUME NEW h \in Handlers, pc[h] = "joining", rnd'[h] = rnd[h]
      PROVE  stop'[rnd'[h]] /\ task'[rnd'[h]] \in Unfinished \union Ended
    BY <1>c, <1>1 DEF Waits, Closes, RoundCloses, TypeInv, RoundKnown
<1>2. ASSUME NEW h \in Handlers, pc'[h] = "joining"
      PROVE  \/ pc[h] = "joining" /\ rnd'[h] = rnd[h]
             \/ stop'[rnd'[h]] /\ task'[rnd'[h]] \in Unfinished \union Ended
    <2> USE DEF TypeInv, TypeOK
    <2>1. ASSUME NEW g \in Handlers, InitCall(g)
          PROVE  pc[h] = "joining" /\ rnd'[h] = rnd[h]
        BY <1>2, <2>1
        DEF InitCall, InitConflict, InitReraises, Reraises, InitBegins, InitFails, Arrives
    <2>2. ASSUME NEW g \in Handlers, StopCall(g), ~StopCancels(g)
          PROVE  pc[h] = "joining" /\ rnd'[h] = rnd[h]
        BY <1>2, <2>2 DEF StopCall, StopNothing, StopReraises, Reraises
    <2>3. ASSUME NEW g \in Handlers, StopCancels(g)
          PROVE  \/ pc[h] = "joining" /\ rnd'[h] = rnd[h]
                 \/ stop'[rnd'[h]] /\ task'[rnd'[h]] \in Unfinished \union Ended
        BY <1>2, <2>3 DEF StopCancels, Active
    <2>4. ASSUME NEW g \in Handlers, Resumes(g)
          PROVE  pc[h] = "joining" /\ rnd'[h] = rnd[h]
        BY <1>2, <2>4
        DEF Resumes, InitSpawns, InitUnwound, StopJoined, StopJoinedCb, StopClears
    <2>5. ASSUME NEW r \in Rounds, Generation(r) \/ EngineDone(r) \/ CallbackExits(r)
          PROVE  pc[h] = "joining" /\ rnd'[h] = rnd[h]
        <3> HIDE DEF TypeInv, TypeOK
        <3> QED BY <1>2, <2>5, RoundStep DEF opVars
    <2>6. CASE (\E c \in Chats : ChatStep(c)) \/ (\E p \in Procs : Aborting(p))
        BY <1>2, <2>6, ChatStepLeavesRest DEF opVars
    <2>7. CASE UNCHANGED vars
        BY <1>2, <2>7 DEF vars, opVars
    <2> QED BY <2>1, <2>2, <2>3, <2>4, <2>5, <2>6, <2>7 DEF Next
<1> QED BY <1>1, <1>2 DEF Waits

(* While a /stop waits, its round's task goes at most two steps on, each towards its end,
   and issues no forward, for any operators, chats and rounds. *)
THEOREM StopClosesIn == Spec => [][Closes]_vars /\ []Waits
<1>1. Init => TypeInv /\ Waits
    BY InitTypeInv DEF Init, Waits
<1>2. TypeInv /\ Waits /\ [Next]_vars => (TypeInv /\ Waits)'
    BY NextTypeInv, NextWaits
<1>3. TypeInv /\ [Next]_vars => [Closes]_vars
    BY CancelledCloses
<1> QED BY <1>1, <1>2, <1>3, PTL DEF Spec
============================================================================
