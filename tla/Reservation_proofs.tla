------------------------ MODULE Reservation_proofs ------------------------
(***************************************************************************)
(* Proofs about Reservation for any validators, chat requests and blocks,  *)
(* any lease size and any number of jobs, chunks, rounds and cancels.      *)
(***************************************************************************)
EXTENDS Reservation, SequenceTheorems, TLAPS

Busy(v) == pc[v] \notin {"idle", "waiting"}

(* Whoever is past the lock is at its head. *)
Locked == \A v \in Validators : Busy(v) => Holds(v)

(* Chunks and attempts left where the next step counts them down. *)
Counted ==
    /\ \A v \in Validators : pc[v] \in {"drained", "rpc"} => left[v] > 0
    /\ \A v \in Validators : pc[v] # "idle" => att[v] < ReturnAttempts

(* A lease and a pending forward belong to the stretch of the job in between. *)
LeaseScope ==
    /\ \A v \in Validators :
          pc[v] \in {"idle", "waiting", "probe", "borrow", "poll", "abort", "reset"}
              => lease[v] = {}
    /\ \A v \in Validators : pc[v] \notin {"rpc", "return", "reset"} => writes[v] = {}

(* A running chat that the next forward without a lease will find is unhurt. *)
Unhurt ==
    \A v \in Validators :
        pc[v] = "drained" \/ (writes[v] # {} /\ lease[v] = {})
            => \A c \in Live : hits[c] = 0

ChatBlocks == \A b \in Blocks : owner[b] \in Chats => owner[b] \in Live

NewUnhurt == \A c \in Chats : chat[c] = "new" => hits[c] = 0

(* There is something to return where a job is about to return it. *)
Returning == \A v \in Validators : pc[v] = "return" => lease[v] # {}

(* A job that computes without a lease and is yet to reset the prefix cache. *)
Owing(v) == pc[v] \in {"chunk", "drained", "rpc", "reset"} /\ lease[v] = {}

IInv ==
    /\ TypeOK /\ Locked /\ Counted /\ LeaseScope /\ LeaseHeld /\ LeakExplained
    /\ Unhurt /\ ChatBlocks /\ NewUnhurt /\ HitOnce
    /\ Returning /\ PoisonExplained
----------------------------------------------------------------------------
LEMMA RemoveAtProperties ==
    ASSUME NEW S, NEW s \in Seq(S), NEW i \in 1..Len(s)
    PROVE  /\ RemoveAt(s, i) \in Seq(S)
           /\ i # 1 => RemoveAt(s, i) # <<>> /\ RemoveAt(s, i)[1] = s[1]
<1>1. PICK front : front = SubSeq(s, 1, i - 1)
    OBVIOUS
<1>2. PICK back : back = SubSeq(s, i + 1, Len(s))
    OBVIOUS
<1>3. \A j \in 1..Len(s) : s[j] \in S
    BY ElementOfSeq
<1>4. /\ front \in Seq(S) /\ Len(front) = (IF 1 <= i - 1 THEN i - 1 ELSE 0)
      /\ \A j \in 1..(i - 1) : front[j] = s[j]
    BY <1>1, <1>3, SubSeqProperties
<1>5. back \in Seq(S)
    BY <1>2, <1>3, SubSeqProperties
<1>6. /\ front \o back \in Seq(S) /\ Len(front \o back) = Len(front) + Len(back)
      /\ \A j \in 1..(Len(front) + Len(back)) :
            (front \o back)[j] = IF j <= Len(front) THEN front[j] ELSE back[j - Len(front)]
    BY <1>4, <1>5, ConcatProperties
<1>7. Len(back) \in Nat
    BY <1>5, LenProperties
<1>8. ASSUME i # 1 PROVE front \o back # <<>> /\ (front \o back)[1] = s[1]
  <2>1. Len(front) >= 1 /\ Len(front) = i - 1
      BY <1>4, <1>8
  <2>2. (front \o back)[1] = front[1] /\ front[1] = s[1]
      BY <1>4, <1>6, <1>7, <2>1
  <2>3. Len(front \o back) # 0
      BY <1>6, <1>7, <2>1
  <2> QED BY <2>2, <2>3
<1>9. RemoveAt(s, i) = front \o back
    BY <1>1, <1>2 DEF RemoveAt
<1> QED BY <1>6, <1>8, <1>9

LEMMA AppendKeepsHead ==
    ASSUME NEW S, NEW s \in Seq(S), NEW e \in S
    PROVE  /\ Append(s, e) \in Seq(S) /\ Append(s, e) # <<>>
           /\ s # <<>> => Head(Append(s, e)) = Head(s)
BY AppendProperties, HeadTailAppend

(* A release lets nobody else lose the lock. *)
LEMMA ReleaseProperties ==
    ASSUME fifo \in Seq(Validators), NEW v \in Validators, Release(v)
    PROVE  /\ fifo' \in Seq(Validators)
           /\ \A u \in Validators : u # v /\ Holds(u) => Holds(u)'
<1>1. PICK i \in 1..Len(fifo) : fifo[i] = v /\ fifo' = RemoveAt(fifo, i)
    BY DEF Release
<1>2. fifo' \in Seq(Validators)
    BY <1>1, RemoveAtProperties
<1>3. ASSUME NEW u \in Validators, u # v, Holds(u) PROVE Holds(u)'
  <2>1. fifo[1] = u
      BY <1>3 DEF Holds
  <2>2. i # 1
      BY <1>1, <1>3, <2>1
  <2>3. fifo' # <<>> /\ fifo'[1] = u
      BY <1>1, <2>1, <2>2, RemoveAtProperties
  <2> QED BY <1>2, <2>3 DEF Holds
<1> QED BY <1>2, <1>3

LEMMA InitIInv == Init => IInv
<1> SUFFICES ASSUME Init PROVE IInv
    OBVIOUS
<1>1. fifo \in Seq(Validators)
    BY EmptySeq DEF Init
<1>2. /\ jobs \in 0..MaxJobs /\ rounds \in 0..MaxRounds /\ cancels \in 0..MaxCancels
      /\ left \in [Validators -> 0..MaxChunks] /\ att \in [Validators -> 0..ReturnAttempts]
    BY BoundsAssumption DEF Init
<1>3. TypeOK
    BY <1>1, <1>2 DEF Init, TypeOK, States
<1>4. Locked /\ LeaseScope /\ LeaseHeld
    BY DEF Init, Locked, Busy, LeaseScope, LeaseHeld
<1>5. Counted
    BY BoundsAssumption DEF Init, Counted
<1>6. LeakExplained /\ ChatBlocks
    BY OwnersDisjoint DEF Init, LeakExplained, ChatBlocks
<1>7. Unhurt /\ NewUnhurt /\ HitOnce
    BY DEF Init, Unhurt, NewUnhurt, HitOnce
<1>8. Returning /\ PoisonExplained
    BY DEF Init, Returning, PoisonExplained
<1> QED BY <1>3, <1>4, <1>5, <1>6, <1>7, <1>8 DEF IInv

(* The steps of a job that keep the lock, those that leave it, and those of the
   world around the jobs. *)
Keeps(v) ==
    \/ Acquire(v) \/ Probe(v) \/ EngineLends(v) \/ EngineRefuses(v) \/ BorrowBreaks(v)
    \/ GetsLease(v) \/ PollsAgain(v) \/ Deadline(v) \/ Aborts(v)
    \/ Drains(v) \/ Forwards(v) \/ EngineForwards(v) \/ ForwardDone(v) \/ Leaves(v)
    \/ CancelledComputing(v)

Ends(v) ==
    \/ EngineReturns(v) \/ ReturnFails(v) \/ Resets(v) \/ CancelledEarly(v)
    \/ CancelledBorrowing(v) \/ CancelledReturning(v) \/ CancelledResetting(v)

World ==
    \/ \E c \in Chats : ChatStarts(c) \/ ChatEnds(c)
    \/ MiningStarts \/ MiningForwards \/ MiningEnds

LEMMA NextSteps ==
    ASSUME Next
    PROVE  World \/ \E v \in Validators : Call(v) \/ Keeps(v) \/ Ends(v)
BY DEF Next, World, Keeps, Ends, Borrowing, Computing, Failing, Cancelled

(* A job that keeps the lock holds it; nobody else moves. *)
LEMMA KeepsLock ==
    ASSUME TypeOK, Locked, LeaseScope, NEW v \in Validators, Keeps(v)
    PROVE  /\ fifo' = fifo /\ Holds(v)
           /\ \A u \in Validators : u # v => pc'[u] = pc[u]
           /\ pc' \in [Validators -> States]
<1>1. fifo' = fifo
    BY DEF Keeps, Goes, Acquire, Starts, Probe, EngineLends, EngineRefuses,
        BorrowBreaks, GetsLease, PollsAgain, Deadline, Aborts, Drains, Forwards,
        EngineForwards, ForwardDone, Leaves, CancelledComputing, Cancels
<1>2. \A u \in Validators : u # v => pc'[u] = pc[u]
    BY DEF Keeps, Goes, Acquire, Starts, Probe, EngineLends, EngineRefuses,
        BorrowBreaks, GetsLease, PollsAgain, Deadline, Aborts, Drains, Forwards,
        EngineForwards, ForwardDone, Leaves, CancelledComputing, Cancels, TypeOK
<1>3. Holds(v)
    BY DEF Keeps, Goes, Acquire, Starts, Probe, EngineLends, EngineRefuses,
        BorrowBreaks, GetsLease, PollsAgain, Deadline, Aborts, Drains, Forwards,
        EngineForwards, ForwardDone, Leaves, CancelledComputing, Cancels, TypeOK,
        Locked, Busy, LeaseScope, MayCompute
<1>4. pc' \in [Validators -> States]
    BY DEF Keeps, Goes, Acquire, Starts, Probe, EngineLends, EngineRefuses,
        BorrowBreaks, GetsLease, PollsAgain, Deadline, Aborts, Drains, Forwards,
        EngineForwards, ForwardDone, Leaves, CancelledComputing, Cancels, TypeOK,
        States, WayOut
<1> QED BY <1>1, <1>2, <1>3, <1>4

(* One that ends leaves the lock to the others; a retried return keeps it. *)
LEMMA EndsLock ==
    ASSUME TypeOK, NEW v \in Validators, Ends(v)
    PROVE  /\ \/ fifo' = fifo /\ pc' = pc
              \/ Release(v) /\ pc' = [pc EXCEPT ![v] = "idle"]
           /\ pc[v] # "idle"
<1>1. CASE ReturnFails(v)
    BY <1>1 DEF ReturnFails
<1>2. CASE EngineReturns(v) \/ Resets(v)
    BY <1>2 DEF EngineReturns, Resets, Goes
<1>3. CASE CancelledEarly(v) \/ CancelledBorrowing(v)
    BY <1>3 DEF CancelledEarly, CancelledBorrowing, Cancels, Exits
<1>4. CASE CancelledReturning(v) \/ CancelledResetting(v)
    BY <1>4 DEF CancelledReturning, CancelledResetting, Cancels, Exits
<1> QED BY <1>1, <1>2, <1>3, <1>4 DEF Ends

LEMMA WorldLock ==
    ASSUME World PROVE UNCHANGED <<fifo, jobVars>>
BY DEF World, ChatStarts, ChatEnds, MiningStarts, MiningForwards, MiningEnds,
    poolVars, jobVars, countVars, histVars

LEMMA LockedStep ==
    ASSUME IInv, Next
    PROVE  Locked' /\ fifo' \in Seq(Validators) /\ pc' \in [Validators -> States]
<1> USE DEF IInv
<1>1. CASE World
    BY <1>1, WorldLock DEF jobVars, Locked, Busy, Holds, TypeOK
<1>2. ASSUME NEW v \in Validators, Call(v)
      PROVE  Locked' /\ fifo' \in Seq(Validators) /\ pc' \in [Validators -> States]
  <2>1. fifo' = Append(fifo, v) /\ pc' = [pc EXCEPT ![v] = "waiting"]
      BY <1>2 DEF Call, Goes
  <2>2. fifo \in Seq(Validators)
      BY DEF TypeOK
  <2> HIDE DEF IInv
  <2>3. /\ fifo' \in Seq(Validators) /\ fifo' # <<>>
        /\ fifo # <<>> => Head(fifo') = Head(fifo)
      BY <2>1, <2>2, AppendKeepsHead
  <2> USE DEF IInv
  <2> QED BY <2>1, <2>2, <2>3 DEF Locked, Busy, Holds, TypeOK, States
<1>3. ASSUME NEW v \in Validators, Keeps(v)
      PROVE  Locked' /\ fifo' \in Seq(Validators) /\ pc' \in [Validators -> States]
    BY <1>3, KeepsLock DEF Locked, Busy, Holds, TypeOK
<1>4. ASSUME NEW v \in Validators, Ends(v)
      PROVE  Locked' /\ fifo' \in Seq(Validators) /\ pc' \in [Validators -> States]
  <2>1. CASE fifo' = fifo /\ pc' = pc
      BY <2>1 DEF Locked, Busy, Holds, TypeOK
  <2>2. CASE Release(v) /\ pc' = [pc EXCEPT ![v] = "idle"]
    <3>1. /\ fifo' \in Seq(Validators)
          /\ \A u \in Validators : u # v /\ Holds(u) => Holds(u)'
        BY <2>2, ReleaseProperties DEF TypeOK
    <3> QED BY <2>2, <3>1 DEF Locked, Busy, TypeOK, States
  <2> QED BY <1>4, <2>1, <2>2, EndsLock
<1> QED BY <1>1, <1>2, <1>3, <1>4, NextSteps

LEMMA CountedStep ==
    ASSUME IInv, Next
    PROVE  /\ Counted'
           /\ left' \in [Validators -> 0..MaxChunks] /\ att' \in [Validators -> 0..ReturnAttempts]
<1> USE BoundsAssumption DEF IInv
<1>1. CASE World
    BY <1>1, WorldLock DEF jobVars, Counted, TypeOK
<1>2. ASSUME NEW v \in Validators, Call(v)
      PROVE  /\ Counted'
             /\ left' \in [Validators -> 0..MaxChunks]
             /\ att' \in [Validators -> 0..ReturnAttempts]
    BY <1>2 DEF Call, Goes, Counted, TypeOK
<1>3. ASSUME NEW v \in Validators, Keeps(v)
      PROVE  /\ Counted'
             /\ left' \in [Validators -> 0..MaxChunks]
             /\ att' \in [Validators -> 0..ReturnAttempts]
  <2>1. CASE ForwardDone(v)
      BY <2>1 DEF ForwardDone, Goes, Counted, TypeOK
  <2>2. CASE Drains(v) \/ Forwards(v)
      BY <2>2 DEF Drains, Forwards, MayCompute, Counted, TypeOK
  <2>3. ASSUME ~(ForwardDone(v) \/ Drains(v) \/ Forwards(v))
        PROVE  left' = left /\ att' = att
      BY <1>3, <2>3 DEF Keeps, Goes, Acquire, Starts, Probe, EngineLends,
          EngineRefuses, BorrowBreaks, GetsLease, PollsAgain, Deadline, Aborts,
          Drains, Forwards, EngineForwards, ForwardDone, Leaves, CancelledComputing,
          Cancels
  <2>4. ASSUME ~(ForwardDone(v) \/ Drains(v) \/ Forwards(v))
        PROVE  /\ pc[v] # "idle"
               /\ pc'[v] \in {"drained", "rpc"} => pc[v] = pc'[v]
      BY <1>3, <2>4 DEF Keeps, Goes, Acquire, Starts, Probe, EngineLends,
          EngineRefuses, BorrowBreaks, GetsLease, PollsAgain, Deadline, Aborts,
          Drains, Forwards, EngineForwards, ForwardDone, Leaves, CancelledComputing,
          Cancels, TypeOK, LeaseScope, WayOut
  <2>5. \A u \in Validators : u # v => pc'[u] = pc[u]
      BY <1>3, KeepsLock
  <2> QED BY <2>1, <2>2, <2>3, <2>4, <2>5 DEF Counted, TypeOK
<1>4. ASSUME NEW v \in Validators, Ends(v)
      PROVE  /\ Counted'
             /\ left' \in [Validators -> 0..MaxChunks]
             /\ att' \in [Validators -> 0..ReturnAttempts]
  <2>1. CASE ReturnFails(v)
      BY <2>1 DEF ReturnFails, Counted, TypeOK
  <2>2. CASE ~ReturnFails(v)
    <3>1. left' = left /\ att' = att
        BY <1>4, <2>2 DEF Ends, Goes, EngineReturns, ReturnFails, Resets,
            CancelledEarly, CancelledBorrowing, CancelledReturning,
            CancelledResetting, Cancels, Exits
    <3> QED BY <1>4, <3>1, EndsLock DEF Counted, TypeOK
  <2> QED BY <2>1, <2>2
<1> QED BY <1>1, <1>2, <1>3, <1>4, NextSteps

LEMMA LeaseScopeStep ==
    ASSUME IInv, Next
    PROVE  /\ LeaseScope'
           /\ lease' \in [Validators -> SUBSET Blocks]
           /\ writes' \in [Validators -> SUBSET Blocks]
<1> USE InPlaceAssumption DEF IInv
<1> DEFINE Goal == /\ LeaseScope'
                   /\ lease' \in [Validators -> SUBSET Blocks]
                   /\ writes' \in [Validators -> SUBSET Blocks]
<1>1. CASE World
    BY <1>1, WorldLock DEF jobVars, LeaseScope, TypeOK
<1>2. ASSUME NEW v \in Validators, Call(v)
      PROVE  Goal
    BY <1>2 DEF Call, Goes, LeaseScope, TypeOK
<1>3. ASSUME NEW v \in Validators, Keeps(v)
      PROVE  Goal
  <2>1. CASE EngineLends(v)
      BY <2>1 DEF EngineLends, Goes, FreeBlocks, LeaseScope, TypeOK
  <2>2. CASE Forwards(v) \/ EngineForwards(v) \/ ForwardDone(v)
    <3>1. CASE Forwards(v)
        BY <3>1 DEF Forwards, MayCompute, LeaseScope, TypeOK
    <3>2. CASE EngineForwards(v)
        BY <3>2 DEF EngineForwards, LeaseScope, TypeOK
    <3>3. CASE ForwardDone(v)
        BY <3>3 DEF ForwardDone, Goes, LeaseScope, TypeOK
    <3> QED BY <2>2, <3>1, <3>2, <3>3
  <2>3. ASSUME ~(EngineLends(v) \/ Forwards(v) \/ EngineForwards(v) \/ ForwardDone(v))
        PROVE  /\ lease' = lease /\ writes' = writes
               /\ pc[v] \notin {"return", "reset"}
               /\ pc[v] = "rpc" => pc'[v] \in {"return", "reset"}
               /\ pc'[v] \in {"probe", "borrow", "poll", "abort", "reset"}
                      => lease[v] = {}
               /\ pc'[v] \notin {"idle", "waiting"}
      BY <1>3, <2>3 DEF Keeps, Goes, Acquire, Starts, Probe, EngineLends,
          EngineRefuses, BorrowBreaks, GetsLease, PollsAgain, Deadline, Aborts,
          Drains, Forwards, EngineForwards, ForwardDone, Leaves, CancelledComputing,
          Cancels, TypeOK, LeaseScope, WayOut, MayCompute
  <2>4. \A u \in Validators : u # v => pc'[u] = pc[u]
      BY <1>3, KeepsLock
  <2>5. CASE ~(EngineLends(v) \/ Forwards(v) \/ EngineForwards(v) \/ ForwardDone(v))
      BY <2>3, <2>4, <2>5 DEF LeaseScope, TypeOK
  <2> QED BY <2>1, <2>2, <2>5
<1>4. ASSUME NEW v \in Validators, Ends(v)
      PROVE  Goal
  <2>1. writes' = writes /\ writes[v] = {}
      BY <1>4 DEF Ends, Goes, EngineReturns, ReturnFails, Resets, CancelledEarly,
          CancelledBorrowing, CancelledReturning, CancelledResetting, Cancels, Exits,
          LeaseScope
  <2>2. \/ pc' = pc /\ lease' = lease
        \/ /\ pc' = [pc EXCEPT ![v] = "idle"]
           /\ \/ lease' = [lease EXCEPT ![v] = {}]
              \/ lease' = lease /\ lease[v] = {}
    <3>1. CASE EngineReturns(v) \/ ReturnFails(v)
        BY <3>1 DEF EngineReturns, ReturnFails, Goes
    <3>2. CASE Resets(v)
      <4>1. pc[v] = "reset" /\ pc' = [pc EXCEPT ![v] = "idle"] /\ lease' = lease
          BY <3>2 DEF Resets, Goes
      <4> QED BY <4>1 DEF LeaseScope
    <3>5. CASE CancelledEarly(v)
      <4>1. /\ pc[v] \in {"waiting", "probe", "poll", "abort"}
            /\ pc' = [pc EXCEPT ![v] = "idle"] /\ lease' = lease
          BY <3>5 DEF CancelledEarly, Exits
      <4> QED BY <4>1 DEF LeaseScope
    <3>3. CASE CancelledBorrowing(v) \/ CancelledReturning(v)
        BY <3>3 DEF CancelledBorrowing, CancelledReturning, Exits
    <3>4. CASE CancelledResetting(v)
      <4>1. pc[v] = "reset" /\ pc' = [pc EXCEPT ![v] = "idle"] /\ lease' = lease
          BY <3>4 DEF CancelledResetting, Exits
      <4> QED BY <4>1 DEF LeaseScope
    <3> QED BY <1>4, <3>1, <3>2, <3>3, <3>4, <3>5 DEF Ends
  <2> QED BY <2>1, <2>2 DEF LeaseScope, TypeOK
<1> QED BY <1>1, <1>2, <1>3, <1>4, NextSteps

(* What frees or grants blocks, or rewrites the prefix cache, spares leases. *)
Spared(W) ==
    \A u \in W : \A b \in lease[u] : owner'[b] = u /\ b \notin cached'

LEMMA AbortSpares ==
    ASSUME TypeOK, LeaseHeld, AbortAll
    PROVE  Spared(Validators)
<1> SUFFICES ASSUME NEW u \in Validators, NEW b \in lease[u]
             PROVE  owner'[b] = u /\ b \notin cached'
    BY DEF Spared
<1>1. b \in Blocks /\ owner[b] = u /\ b \notin cached
    BY DEF LeaseHeld, TypeOK
<1>2. owner[b] \notin Live
    BY <1>1, OwnersDisjoint DEF Live
<1> QED BY <1>1, <1>2 DEF AbortAll, Freed

LEMMA ResetSpares ==
    ASSUME TypeOK, LeaseHeld, ResetCache, owner' = owner
    PROVE  Spared(Validators)
<1> SUFFICES ASSUME NEW u \in Validators, NEW b \in lease[u]
             PROVE  owner'[b] = u /\ b \notin cached'
    BY DEF Spared
<1>1. b \in Blocks /\ owner[b] = u /\ b \notin cached
    BY DEF LeaseHeld, TypeOK
<1>2. cached' = cached \/ cached' = {d \in Blocks : owner[d] \in Chats}
    BY DEF ResetCache
<1> QED BY <1>1, <1>2, OwnersDisjoint

LEMMA LendSpares ==
    ASSUME TypeOK, LeaseHeld, NEW v \in Validators, NEW S \in SUBSET FreeBlocks, Lends(v, S)
    PROVE  Spared(Validators) /\ \A b \in S : owner'[b] = v /\ b \notin cached'
<1>1. ASSUME NEW u \in Validators, NEW b \in lease[u]
      PROVE  owner'[b] = u /\ b \notin cached'
  <2>1. b \in Blocks /\ owner[b] = u /\ b \notin cached
      BY <1>1 DEF LeaseHeld, TypeOK
  <2>2. b \notin S
      BY <2>1, OwnersDisjoint DEF FreeBlocks
  <2> QED BY <2>1, <2>2 DEF Lends
<1>2. \A b \in S : owner'[b] = v /\ b \notin cached'
    BY DEF Lends, FreeBlocks
<1> QED BY <1>1, <1>2 DEF Spared

LEMMA ReturnSpares ==
    ASSUME TypeOK, LeaseHeld, NEW v \in Validators, owner' = Freed(lease[v]), cached' = cached
    PROVE  Spared(Validators \ {v})
<1> SUFFICES ASSUME NEW u \in Validators \ {v}, NEW b \in lease[u]
             PROVE  owner'[b] = u /\ b \notin cached'
    BY DEF Spared
<1>1. b \in Blocks /\ owner[b] = u /\ b \notin cached
    BY DEF LeaseHeld, TypeOK
<1>2. b \notin lease[v]
    BY <1>1 DEF LeaseHeld
<1> QED BY <1>1, <1>2 DEF Freed

LEMMA ChatSpares ==
    ASSUME TypeOK, LeaseHeld, NEW c \in Chats, ChatStarts(c) \/ ChatEnds(c)
    PROVE  Spared(Validators)
<1> SUFFICES ASSUME NEW u \in Validators, NEW b \in lease[u]
             PROVE  owner'[b] = u /\ b \notin cached'
    BY DEF Spared
<1>1. b \in Blocks /\ owner[b] = u /\ b \notin cached
    BY DEF LeaseHeld, TypeOK
<1>2. u # c /\ u # Free
    BY OwnersDisjoint
<1>3. CASE ChatStarts(c)
  <2>1. PICK d \in FreeBlocks : owner' = [owner EXCEPT ![d] = c] /\ cached' = cached \union {d}
      BY <1>3 DEF ChatStarts
  <2>2. d # b
      BY <1>1, <1>2, <2>1 DEF FreeBlocks
  <2> QED BY <1>1, <2>1, <2>2 DEF TypeOK
<1>4. CASE ChatEnds(c)
    BY <1>1, <1>2, <1>4 DEF ChatEnds, Freed
<1> QED BY <1>3, <1>4

(* LeaseHeld survives where leases are spared, kept or dropped, and a forward
   is none, an old one or one on the whole lease. *)
LEMMA LeaseFrame ==
    ASSUME LeaseHeld,
           \A u \in Validators :
              \/ lease'[u] = {}
              \/ /\ lease'[u] = lease[u] /\ Spared({u})
                 /\ lease[u] # {} => writes'[u] \in {writes[u], lease[u], {}}
    PROVE  LeaseHeld'
<1>1. ASSUME NEW u \in Validators, NEW b \in lease'[u]
      PROVE  owner'[b] = u /\ b \notin cached'
    BY <1>1 DEF Spared
<1>2. ASSUME NEW u \in Validators, lease'[u] # {}
      PROVE  writes'[u] \subseteq lease'[u]
  <2>1. lease'[u] = lease[u] /\ writes'[u] \in {writes[u], lease[u], {}}
      BY <1>2
  <2>2. writes[u] \subseteq lease[u]
      BY <1>2, <2>1 DEF LeaseHeld
  <2> QED BY <2>1, <2>2
<1> QED BY <1>1, <1>2 DEF LeaseHeld

LEMMA LeaseHeldStep ==
    ASSUME IInv, Next
    PROVE  LeaseHeld'
<1> USE DEF IInv
<1>1. ASSUME Spared(Validators), UNCHANGED <<lease, writes>>
      PROVE  LeaseHeld'
    BY <1>1, LeaseFrame DEF Spared
<1>2. ASSUME UNCHANGED <<lease, writes, owner, cached>>
      PROVE  LeaseHeld'
    BY <1>2 DEF LeaseHeld
<1>3. CASE World
  <2>1. UNCHANGED <<lease, writes>>
      BY <1>3, WorldLock DEF jobVars
  <2>2. ASSUME NEW c \in Chats, ChatStarts(c) \/ ChatEnds(c)
        PROVE  LeaseHeld'
      BY <1>1, <2>1, <2>2, ChatSpares
  <2>3. CASE MiningStarts
      BY <1>1, <2>1, <2>3, AbortSpares DEF MiningStarts
  <2>4. CASE MiningForwards
      BY <1>2, <2>1, <2>4 DEF MiningForwards
  <2>5. CASE MiningEnds
      BY <1>1, <2>1, <2>5, ResetSpares DEF MiningEnds
  <2> QED BY <1>3, <2>2, <2>3, <2>4, <2>5 DEF World
<1>4. ASSUME NEW v \in Validators, Call(v)
      PROVE  LeaseHeld'
    BY <1>2, <1>4 DEF Call, poolVars
<1>5. ASSUME NEW v \in Validators, Keeps(v)
      PROVE  LeaseHeld'
  <2>1. CASE EngineLends(v)
    <3>1. PICK S \in SUBSET FreeBlocks : Lends(v, S) /\ lease' = [lease EXCEPT ![v] = S]
        BY <2>1 DEF EngineLends
    <3>2. Spared(Validators) /\ \A b \in S : owner'[b] = v /\ b \notin cached'
        BY <3>1, LendSpares
    <3>3. writes' = writes /\ writes[v] = {}
        BY <2>1 DEF EngineLends, Goes, LeaseScope
    <3>4. lease'[v] = S /\ \A u \in Validators \ {v} : lease'[u] = lease[u]
        BY <3>1 DEF TypeOK
    <3>5. \A u \in Validators : \A b \in lease'[u] : owner'[b] = u /\ b \notin cached'
        BY <3>2, <3>4 DEF Spared
    <3>6. ASSUME NEW u \in Validators, lease'[u] # {}
          PROVE  writes'[u] \subseteq lease'[u]
      <4>1. CASE u = v
          BY <3>3, <4>1
      <4>2. CASE u # v
          BY <3>3, <3>4, <3>6, <4>2 DEF LeaseHeld
      <4> QED BY <4>1, <4>2
    <3> QED BY <3>5, <3>6 DEF LeaseHeld
  <2>2. CASE Forwards(v) \/ EngineForwards(v)
    <3>1. UNCHANGED <<lease, owner, cached>>
        BY <2>2 DEF Forwards, EngineForwards, poolVars
    <3>2. \A u \in Validators : lease[u] # {} => writes'[u] \in {writes[u], lease[u], {}}
        BY <2>2 DEF Forwards, EngineForwards, TypeOK
    <3>3. Spared(Validators)
        BY <3>1 DEF Spared, LeaseHeld
    <3> QED BY <3>1, <3>2, <3>3, LeaseFrame DEF Spared
  <2>3. CASE Aborts(v) \/ Drains(v)
      BY <1>1, <2>3, AbortSpares DEF Aborts, Drains
  <2>4. CASE ~(EngineLends(v) \/ Forwards(v) \/ EngineForwards(v) \/ Aborts(v) \/ Drains(v))
    <3>1. UNCHANGED <<lease, writes, owner, cached>>
        BY <1>5, <2>4 DEF Keeps, Goes, Acquire, Starts, Probe, EngineLends,
            EngineRefuses, BorrowBreaks, GetsLease, PollsAgain, Deadline, Aborts,
            Drains, Forwards, EngineForwards, ForwardDone, Leaves, CancelledComputing,
            Cancels, poolVars
    <3> QED BY <1>2, <3>1
  <2> QED BY <2>1, <2>2, <2>3, <2>4
<1>6. ASSUME NEW v \in Validators, Ends(v)
      PROVE  LeaseHeld'
  <2>1. CASE EngineReturns(v) \/ CancelledReturning(v)
    <3>1. /\ lease' = [lease EXCEPT ![v] = {}] /\ writes' = writes
          /\ cached' = cached
          /\ owner' = Freed(lease[v]) \/ owner' = owner
        BY <2>1 DEF EngineReturns, CancelledReturning, Cancels
    <3>2. Spared(Validators \ {v})
        BY <3>1, ReturnSpares DEF Spared, LeaseHeld
    <3>3. lease'[v] = {} /\ \A u \in Validators \ {v} : lease'[u] = lease[u]
        BY <3>1 DEF TypeOK
    <3> QED BY <3>1, <3>2, <3>3, LeaseFrame DEF Spared
  <2>2. CASE ReturnFails(v)
    <3>1. /\ lease' = lease \/ lease' = [lease EXCEPT ![v] = {}]
          /\ UNCHANGED <<writes, owner, cached>>
        BY <2>2 DEF ReturnFails, poolVars
    <3>2. Spared(Validators)
        BY <3>1 DEF Spared, LeaseHeld
    <3>3. \A u \in Validators : lease'[u] \in {lease[u], {}}
        BY <3>1 DEF TypeOK
    <3> QED BY <3>1, <3>2, <3>3, LeaseFrame DEF Spared
  <2>3. CASE Resets(v)
      BY <1>1, <2>3, ResetSpares DEF Resets
  <2>4. CASE CancelledResetting(v)
    <3>1. UNCHANGED <<lease, writes, owner>> /\ (ResetCache \/ cached' = cached)
        BY <2>4 DEF CancelledResetting, Cancels
    <3> QED BY <1>1, <1>2, <3>1, ResetSpares
  <2>5. CASE CancelledEarly(v)
      BY <1>2, <2>5 DEF CancelledEarly, Cancels, poolVars
  <2>6. CASE CancelledBorrowing(v)
    <3>1. lease' = [lease EXCEPT ![v] = {}] /\ writes' = writes
        BY <2>6 DEF CancelledBorrowing, Cancels
    <3>2. (\E S \in SUBSET FreeBlocks : Lends(v, S)) \/ UNCHANGED <<owner, cached>>
        BY <2>6 DEF CancelledBorrowing
    <3>3. Spared(Validators)
        BY <3>2, LendSpares DEF Spared, LeaseHeld
    <3>4. \A u \in Validators : lease'[u] \in {lease[u], {}}
        BY <3>1 DEF TypeOK
    <3> QED BY <3>1, <3>3, <3>4, LeaseFrame DEF Spared
  <2> QED BY <1>6, <2>1, <2>2, <2>3, <2>4, <2>5, <2>6 DEF Ends
<1> QED BY <1>3, <1>4, <1>5, <1>6, NextSteps

(* A block of a validator stays in its lease, unless leases are lost. *)
LEMMA LeakFrame ==
    ASSUME LeakExplained, lost => lost',
           \/ lost'
           \/ \A b \in Blocks : owner'[b] \in Validators =>
                 \/ b \in lease'[owner'[b]]
                 \/ owner'[b] = owner[b] /\ lease'[owner[b]] = lease[owner[b]]
    PROVE  LeakExplained'
BY DEF LeakExplained

(* Leaks, and the types of the pool. *)
LEMMA LeakStep ==
    ASSUME IInv, Next
    PROVE  /\ LeakExplained'
           /\ owner' \in [Blocks -> Validators \union Chats \union {Free}]
           /\ lost' \in BOOLEAN
<1> USE OwnersDisjoint DEF IInv
<1> DEFINE Goal == /\ LeakExplained'
                   /\ owner' \in [Blocks -> Validators \union Chats \union {Free}]
                   /\ lost' \in BOOLEAN
<1>1. CASE World
  <2>1. lease' = lease
      BY <1>1, WorldLock DEF jobVars
  <2>2. ASSUME NEW c \in Chats, ChatStarts(c) \/ ChatEnds(c)
        PROVE  Goal
    <3>1. CASE ChatStarts(c)
      <4>1. lost' = lost
          BY <3>1 DEF ChatStarts, histVars
      <4>2. \E b \in Blocks : owner' = [owner EXCEPT ![b] = c]
          BY <3>1 DEF ChatStarts, FreeBlocks
      <4> QED BY <2>1, <4>1, <4>2, LeakFrame DEF TypeOK
    <3>2. CASE ChatEnds(c)
        BY <2>1, <3>2 DEF ChatEnds, Freed, histVars, LeakExplained, TypeOK
    <3> QED BY <2>2, <3>1, <3>2
  <2>3. CASE MiningStarts
      BY <2>1, <2>3 DEF MiningStarts, AbortAll, Freed, histVars, LeakExplained, TypeOK
  <2>4. CASE MiningForwards \/ MiningEnds
      BY <2>1, <2>4 DEF MiningForwards, MiningEnds, histVars, LeakExplained, TypeOK
  <2> QED BY <1>1, <2>2, <2>3, <2>4 DEF World
<1>2. ASSUME NEW v \in Validators, Call(v)
      PROVE  Goal
    BY <1>2 DEF Call, poolVars, histVars, LeakExplained, TypeOK
<1>3. ASSUME NEW v \in Validators, Keeps(v)
      PROVE  Goal
  <2>1. CASE EngineLends(v)
    <3>1. PICK S \in SUBSET FreeBlocks : Lends(v, S) /\ lease' = [lease EXCEPT ![v] = S]
        BY <2>1 DEF EngineLends
    <3>2. lost' = lost /\ lease[v] = {}
        BY <2>1 DEF EngineLends, Goes, histVars, LeaseScope
    <3>3. lease'[v] = S /\ \A u \in Validators \ {v} : lease'[u] = lease[u]
        BY <3>1 DEF TypeOK
    <3>4. /\ \A b \in S : owner'[b] = v
          /\ \A b \in Blocks \ S : owner'[b] = owner[b]
        BY <3>1 DEF Lends, FreeBlocks
    <3>5. ASSUME NEW b \in Blocks, owner'[b] \in Validators
          PROVE  b \in lease'[owner'[b]] \/ lost'
        BY <3>2, <3>3, <3>4, <3>5 DEF LeakExplained
    <3>6. owner' \in [Blocks -> Validators \union Chats \union {Free}]
        BY <3>1 DEF Lends, TypeOK
    <3> QED BY <3>2, <3>5, <3>6 DEF LeakExplained, TypeOK
  <2>2. CASE Aborts(v) \/ Drains(v)
    <3>1. /\ \E S \in SUBSET Live : owner' = Freed({b \in Blocks : owner[b] \in S})
          /\ lease' = lease /\ lost' = lost
        BY <2>2 DEF Aborts, Drains, AbortAll
    <3>2. /\ owner' \in [Blocks -> Validators \union Chats \union {Free}]
          /\ \A b \in Blocks : owner'[b] \in {owner[b], Free}
        BY <3>1 DEF Freed, TypeOK
    <3>3. \A b \in Blocks : owner'[b] \in Validators => owner'[b] = owner[b]
        BY <3>2, OwnersDisjoint
    <3> QED BY <3>1, <3>2, <3>3 DEF LeakExplained, TypeOK
  <2>3. CASE ~(EngineLends(v) \/ Aborts(v) \/ Drains(v))
    <3>1. UNCHANGED <<lease, owner, lost>>
        BY <1>3, <2>3 DEF Keeps, Goes, Acquire, Starts, Probe, EngineLends,
            EngineRefuses, BorrowBreaks, GetsLease, PollsAgain, Deadline, Aborts,
            Drains, Forwards, EngineForwards, ForwardDone, Leaves, CancelledComputing,
            Cancels, poolVars, histVars
    <3> QED BY <3>1 DEF LeakExplained, TypeOK
  <2> QED BY <2>1, <2>2, <2>3
<1>4. ASSUME NEW v \in Validators, Ends(v)
      PROVE  Goal
  <2>1. CASE EngineReturns(v)
      BY <2>1 DEF EngineReturns, Freed, histVars, LeakExplained, TypeOK
  <2>2. CASE ReturnFails(v)
      BY <2>2 DEF ReturnFails, poolVars, LeakExplained, TypeOK
  <2>3. CASE Resets(v) \/ CancelledResetting(v) \/ CancelledEarly(v)
      BY <2>3 DEF Resets, CancelledResetting, CancelledEarly, Cancels, poolVars,
                  LeakExplained, TypeOK
  <2>4. CASE CancelledBorrowing(v)
    <3>1. lease[v] = {} \/ lost'
        BY <2>4 DEF CancelledBorrowing, LeaseScope
    <3>2. ASSUME NEW S \in SUBSET FreeBlocks, Lends(v, S), lost' = TRUE
          PROVE  Goal
        BY <3>2 DEF Lends, FreeBlocks, LeakExplained, TypeOK
    <3>3. CASE owner' = owner /\ (lost' = lost \/ lost' = TRUE)
      <4>1. lease' = [lease EXCEPT ![v] = {}]
          BY <2>4 DEF CancelledBorrowing
      <4>2. lost' \/ \A u \in Validators : lease'[u] = lease[u]
          BY <3>1, <4>1 DEF TypeOK
      <4> QED BY <3>3, <4>2, LeakFrame DEF TypeOK
    <3> QED BY <2>4, <3>2, <3>3 DEF CancelledBorrowing
  <2>5. CASE CancelledReturning(v)
    <3>1. lease' = [lease EXCEPT ![v] = {}]
        BY <2>5 DEF CancelledReturning
    <3>2. CASE owner' = Freed(lease[v]) /\ lost' = lost
        BY <3>1, <3>2 DEF Freed, LeakExplained, TypeOK
    <3>3. CASE owner' = owner /\ lost' = TRUE
        BY <3>3 DEF LeakExplained, TypeOK
    <3> QED BY <2>5, <3>2, <3>3 DEF CancelledReturning
  <2> QED BY <1>4, <2>1, <2>2, <2>3, <2>4, <2>5 DEF Ends
<1> QED BY <1>1, <1>2, <1>3, <1>4, NextSteps

(* The types that no other invariant is about. *)
Others ==
    /\ esc \in [Validators -> {"no", "yes", "legacy"}]
    /\ available \in {"unknown", "yes", "no"}
    /\ capable \in BOOLEAN
    /\ cached \subseteq Blocks
    /\ bad \subseteq Blocks
    /\ chat \in [Chats -> {"new", "live", "gone"}]
    /\ mining \in BOOLEAN
    /\ jobs \in 0..MaxJobs /\ rounds \in 0..MaxRounds /\ cancels \in 0..MaxCancels
    /\ missed \in BOOLEAN
    /\ hits \in [Chats -> Nat]

(* What an abort does to chats: it ends some, and leaves the others unhurt. *)
LEMMA AbortLeaves ==
    ASSUME TypeOK, AbortAll
    PROVE  /\ chat' \in [Chats -> {"new", "live", "gone"}] /\ hits' \in [Chats -> Nat]
           /\ UNCHANGED <<cached, bad, lost, missed>>
           /\ \A c \in Chats : chat'[c] = "new" => chat[c] = "new"
           /\ \A c \in Chats : hits'[c] \in {0, hits[c]}
           /\ \A c \in Live' : hits'[c] = 0
<1>1. PICK S \in SUBSET Live :
          /\ chat' = [c \in Chats |-> IF c \in S THEN "gone" ELSE chat[c]]
          /\ hits' = [c \in Chats |-> IF c \in Live \ S THEN 0 ELSE hits[c]]
          /\ UNCHANGED <<cached, bad, lost, missed>>
    BY DEF AbortAll
<1> QED BY <1>1 DEF TypeOK, Live

LEMMA OthersStep ==
    ASSUME TypeOK, Next
    PROVE  Others'
<1> USE BoundsAssumption, InPlaceAssumption DEF TypeOK
<1>1. CASE World
  <2>1. ASSUME NEW c \in Chats, ChatStarts(c) \/ ChatEnds(c)
        PROVE  Others'
      BY <2>1 DEF ChatStarts, ChatEnds, FreeBlocks, jobVars, countVars, histVars, Others
  <2>2. CASE MiningStarts
      BY <2>2, AbortLeaves DEF MiningStarts, jobVars, Others
  <2>3. CASE MiningForwards \/ MiningEnds
      BY <2>3 DEF MiningForwards, MiningEnds, ResetCache, jobVars, countVars, histVars, Others
  <2> QED BY <1>1, <2>1, <2>2, <2>3 DEF World
<1>2. ASSUME NEW v \in Validators, Call(v)
      PROVE  Others'
    BY <1>2 DEF Call, poolVars, histVars, Others
<1>3. ASSUME NEW v \in Validators, Keeps(v)
      PROVE  Others'
  <2>1. CASE Acquire(v) \/ Probe(v) \/ BorrowBreaks(v)
      BY <2>1 DEF Acquire, Probe, Starts, BorrowBreaks, poolVars, countVars, histVars, Others
  <2>2. CASE EngineLends(v)
      BY <2>2 DEF EngineLends, Lends, countVars, histVars, Others
  <2>3. CASE EngineRefuses(v) \/ GetsLease(v) \/ PollsAgain(v) \/ Deadline(v)
      BY <2>3 DEF EngineRefuses, GetsLease, PollsAgain, Deadline, poolVars, countVars,
                  histVars, Others
  <2>4. CASE Aborts(v) \/ Drains(v)
      BY <2>4, AbortLeaves DEF Aborts, Drains, countVars, Others
  <2>5. CASE Forwards(v) \/ ForwardDone(v) \/ Leaves(v) \/ CancelledComputing(v)
      BY <2>5, SMTT(20) DEF Forwards, ForwardDone, Leaves, CancelledComputing, Cancels, poolVars,
                  countVars, histVars, Others
  <2>6. CASE EngineForwards(v)
      BY <2>6 DEF EngineForwards, countVars, Others
  <2> QED BY <1>3, <2>1, <2>2, <2>3, <2>4, <2>5, <2>6 DEF Keeps
<1>4. ASSUME NEW v \in Validators, Ends(v)
      PROVE  Others'
  <2>1. CASE EngineReturns(v) \/ ReturnFails(v)
      BY <2>1 DEF EngineReturns, ReturnFails, poolVars, countVars, histVars, Others
  <2>2. CASE Resets(v) \/ CancelledResetting(v)
    <3>1. ASSUME ResetCache
          PROVE  missed' \in BOOLEAN /\ cached' \subseteq Blocks /\ bad' \subseteq Blocks
        BY <3>1 DEF ResetCache
    <3>2. missed' \in BOOLEAN /\ cached' \subseteq Blocks /\ bad' \subseteq Blocks
        BY <2>2, <3>1 DEF Resets, CancelledResetting
    <3> QED BY <2>2, <3>2, SMTT(20) DEF Resets, CancelledResetting, Cancels, countVars, Others
  <2>3. CASE CancelledEarly(v) \/ CancelledReturning(v)
      BY <2>3 DEF CancelledEarly, CancelledReturning, Cancels, poolVars, Others
  <2>4. CASE CancelledBorrowing(v)
      BY <2>4 DEF CancelledBorrowing, Cancels, Lends, Others
  <2> QED BY <1>4, <2>1, <2>2, <2>3, <2>4 DEF Ends
<1> QED BY <1>1, <1>2, <1>3, <1>4, NextSteps

LEMMA ChatBlocksStep ==
    ASSUME TypeOK, ChatBlocks, Next
    PROVE  ChatBlocks'
<1> USE OwnersDisjoint DEF TypeOK, ChatBlocks, Live
<1>1. ASSUME AbortAll PROVE ChatBlocks'
    BY <1>1 DEF AbortAll, Freed
<1>2. ASSUME owner' = owner, chat' = chat PROVE ChatBlocks'
    BY <1>2
<1>3. ASSUME NEW S \in SUBSET Blocks, owner' = Freed(S), chat' = chat PROVE ChatBlocks'
    BY <1>3 DEF Freed
<1>4. ASSUME NEW v \in Validators, NEW S \in SUBSET FreeBlocks, Lends(v, S), chat' = chat
      PROVE  ChatBlocks'
    BY <1>4 DEF Lends
<1>5. CASE World
  <2>1. ASSUME NEW c \in Chats, ChatStarts(c)
        PROVE  ChatBlocks'
      BY <2>1 DEF ChatStarts, FreeBlocks
  <2>2. ASSUME NEW c \in Chats, ChatEnds(c)
        PROVE  ChatBlocks'
      BY <2>2 DEF ChatEnds, Freed
  <2>3. CASE MiningStarts
      BY <1>1, <2>3 DEF MiningStarts
  <2>4. CASE MiningForwards \/ MiningEnds
      BY <1>2, <2>4 DEF MiningForwards, MiningEnds
  <2> QED BY <1>5, <2>1, <2>2, <2>3, <2>4 DEF World
<1>6. ASSUME NEW v \in Validators, Call(v)
      PROVE  ChatBlocks'
    BY <1>2, <1>6 DEF Call, poolVars
<1>7. ASSUME NEW v \in Validators, Keeps(v)
      PROVE  ChatBlocks'
  <2>1. CASE EngineLends(v)
      BY <1>4, <2>1 DEF EngineLends
  <2>2. CASE Aborts(v) \/ Drains(v)
      BY <1>1, <2>2 DEF Aborts, Drains
  <2>3. CASE ~(EngineLends(v) \/ Aborts(v) \/ Drains(v))
    <3>1. owner' = owner /\ chat' = chat
        BY <1>7, <2>3 DEF Keeps, Goes, Acquire, Starts, Probe, EngineLends,
            EngineRefuses, BorrowBreaks, GetsLease, PollsAgain, Deadline, Aborts,
            Drains, Forwards, EngineForwards, ForwardDone, Leaves, CancelledComputing,
            Cancels, poolVars
    <3> QED BY <1>2, <3>1
  <2> QED BY <2>1, <2>2, <2>3
<1>8. ASSUME NEW v \in Validators, Ends(v)
      PROVE  ChatBlocks'
  <2>1. chat' = chat
      BY <1>8 DEF Ends, Goes, EngineReturns, ReturnFails, Resets, CancelledEarly,
          CancelledBorrowing, CancelledReturning, CancelledResetting, Cancels, Exits
  <2>2. CASE EngineReturns(v) \/ CancelledReturning(v)
      BY <1>2, <1>3, <2>1, <2>2 DEF EngineReturns, CancelledReturning
  <2>3. CASE CancelledBorrowing(v)
      BY <1>2, <1>4, <2>1, <2>3 DEF CancelledBorrowing
  <2>4. CASE ReturnFails(v) \/ Resets(v) \/ CancelledEarly(v) \/ CancelledResetting(v)
      BY <1>2, <2>1, <2>4 DEF ReturnFails, Resets, CancelledEarly, CancelledResetting, poolVars
  <2> QED BY <1>8, <2>2, <2>3, <2>4 DEF Ends
<1> QED BY <1>5, <1>6, <1>7, <1>8, NextSteps

(* Who overwrites a chat: a forward without a lease, once since the last abort. *)
LEMMA OnlyForwardsHit ==
    ASSUME Next, \A v \in Validators : ~EngineForwards(v)
    PROVE  hits' = hits \/ AbortAll
<1>1. CASE World
    BY <1>1 DEF World, ChatStarts, ChatEnds, MiningStarts, MiningForwards, MiningEnds, histVars
<1>2. ASSUME NEW v \in Validators, Call(v)
      PROVE  hits' = hits
    BY <1>2 DEF Call, histVars
<1>3. ASSUME NEW v \in Validators, Keeps(v)
      PROVE  hits' = hits \/ AbortAll
    BY <1>3 DEF Keeps, Goes, Acquire, Starts, Probe, EngineLends, EngineRefuses,
        BorrowBreaks, GetsLease, PollsAgain, Deadline, Aborts, Drains, Forwards,
        EngineForwards, ForwardDone, Leaves, CancelledComputing, Cancels, histVars
<1>4. ASSUME NEW v \in Validators, Ends(v)
      PROVE  hits' = hits
    BY <1>4 DEF Ends, Goes, EngineReturns, ReturnFails, Resets, CancelledEarly,
        CancelledBorrowing, CancelledReturning, CancelledResetting, Cancels, Exits,
        histVars
<1> QED BY <1>1, <1>2, <1>3, <1>4, NextSteps

LEMMA ForwardHits ==
    ASSUME IInv, NEW v \in Validators, EngineForwards(v), NEW c \in Chats
    PROVE  \/ hits'[c] = hits[c]
           \/ c \in Live /\ hits[c] = 0 /\ hits'[c] = 1
<1> USE DEF IInv
<1>1. CASE \A b \in writes[v] : owner[b] # c
    BY <1>1 DEF EngineForwards, TypeOK
<1>2. ASSUME NEW b \in writes[v], owner[b] = c
      PROVE  c \in Live /\ hits[c] = 0 /\ hits'[c] = 1
  <2>1. b \in Blocks
      BY DEF TypeOK
  <2>2. c \in Live
      BY <1>2, <2>1 DEF ChatBlocks
  <2>3. lease[v] = {}
      BY <1>2, OwnersDisjoint DEF LeaseHeld
  <2>4. hits[c] = 0
      BY <2>2, <2>3 DEF Unhurt
  <2> QED BY <1>2, <2>2, <2>4 DEF EngineForwards, TypeOK
<1> QED BY <1>1, <1>2

LEMMA HitStep ==
    ASSUME IInv, Next
    PROVE  HitOnce' /\ NewUnhurt'
<1> USE DEF IInv
<1>1. HitOnce'
  <2>1. ASSUME NEW v \in Validators, EngineForwards(v)
        PROVE  HitOnce'
      BY <2>1, ForwardHits DEF HitOnce
  <2>2. CASE hits' = hits
      BY <2>2 DEF HitOnce
  <2>3. CASE AbortAll
      BY <2>3, AbortLeaves DEF HitOnce
  <2> QED BY <2>1, <2>2, <2>3, OnlyForwardsHit
<1>2. NewUnhurt'
  <2>1. \A c \in Chats : chat'[c] = "new" => chat[c] = "new"
    <3>1. CASE World
        BY <3>1 DEF World, ChatStarts, ChatEnds, MiningStarts, MiningForwards, MiningEnds,
                    AbortAll, TypeOK
    <3>2. ASSUME NEW v \in Validators, Call(v)
          PROVE  chat' = chat
        BY <3>2 DEF Call
    <3>3. ASSUME NEW v \in Validators, Keeps(v)
          PROVE  chat' = chat \/ AbortAll
        BY <3>3 DEF Keeps, Goes, Acquire, Starts, Probe, EngineLends, EngineRefuses,
            BorrowBreaks, GetsLease, PollsAgain, Deadline, Aborts, Drains, Forwards,
            EngineForwards, ForwardDone, Leaves, CancelledComputing, Cancels
    <3>4. ASSUME NEW v \in Validators, Ends(v)
          PROVE  chat' = chat
        BY <3>4 DEF Ends, Goes, EngineReturns, ReturnFails, Resets, CancelledEarly,
            CancelledBorrowing, CancelledReturning, CancelledResetting, Cancels, Exits
    <3> QED BY <3>1, <3>2, <3>3, <3>4, NextSteps DEF AbortAll
  <2>2. ASSUME NEW v \in Validators, EngineForwards(v)
        PROVE  NewUnhurt'
      BY <2>1, <2>2, ForwardHits DEF NewUnhurt, Live
  <2>3. CASE hits' = hits
      BY <2>1, <2>3 DEF NewUnhurt
  <2>4. CASE AbortAll
      BY <2>1, <2>4, AbortLeaves DEF NewUnhurt
  <2> QED BY <2>2, <2>3, <2>4, OnlyForwardsHit
<1> QED BY <1>1, <1>2

LEMMA UnhurtStep ==
    ASSUME IInv, Next
    PROVE  Unhurt'
<1> USE DEF IInv
<1>1. ASSUME UNCHANGED <<pc, lease, writes, hits>>, \A c \in Live' : c \in Live \/ hits[c] = 0
      PROVE  Unhurt'
    BY <1>1 DEF Unhurt
<1>2. ASSUME AbortAll
      PROVE  Unhurt'
    BY <1>2, AbortLeaves DEF Unhurt
<1>3. CASE World
  <2>1. UNCHANGED <<pc, lease, writes>>
      BY <1>3, WorldLock DEF jobVars
  <2>2. CASE MiningStarts
      BY <1>2, <2>2 DEF MiningStarts
  <2>3. CASE ~MiningStarts
    <3>1. hits' = hits
        BY <1>3, <2>3 DEF World, ChatStarts, ChatEnds, MiningForwards, MiningEnds, histVars
    <3>2. \A c \in Live' : c \in Live \/ hits[c] = 0
        BY <1>3, <2>3 DEF World, ChatStarts, ChatEnds, MiningForwards, MiningEnds, Live,
                          NewUnhurt, TypeOK
    <3> QED BY <1>1, <2>1, <3>1, <3>2
  <2> QED BY <2>2, <2>3
<1>4. ASSUME NEW v \in Validators, Call(v)
      PROVE  Unhurt'
    BY <1>4 DEF Call, Goes, histVars, Unhurt, Live, TypeOK
<1>5. ASSUME NEW v \in Validators, Keeps(v)
      PROVE  Unhurt'
  <2>1. \A u \in Validators \ {v} : writes[u] = {} /\ pc'[u] # "drained"
    <3>1. Holds(v) /\ \A u \in Validators : u # v => pc'[u] = pc[u]
        BY <1>5, KeepsLock
    <3> QED BY <3>1 DEF Holds, Locked, Busy, LeaseScope
  <2>2. CASE Aborts(v) \/ Drains(v)
      BY <1>2, <2>2 DEF Aborts, Drains
  <2>3. CASE Forwards(v)
    <3>1. /\ UNCHANGED <<lease, chat, hits>>
          /\ \A u \in Validators \ {v} : writes'[u] = writes[u]
        BY <2>3 DEF Forwards, histVars, TypeOK
    <3>2. lease[v] = {} => Live = {} \/ pc[v] = "drained"
        BY <2>3 DEF Forwards
    <3>3. pc'[v] = "rpc"
        BY <2>3 DEF Forwards, TypeOK
    <3> QED BY <2>1, <3>1, <3>2, <3>3 DEF Unhurt, Live
  <2>4. CASE EngineForwards(v)
    <3>1. writes'[v] = {} /\ pc'[v] # "drained"
        BY <2>4 DEF EngineForwards, LeaseScope, TypeOK
    <3>2. \A u \in Validators \ {v} : writes'[u] = writes[u]
        BY <2>4 DEF EngineForwards, TypeOK
    <3> QED BY <2>1, <3>1, <3>2 DEF Unhurt
  <2>5. CASE ~(Aborts(v) \/ Drains(v) \/ Forwards(v) \/ EngineForwards(v))
    <3>1. UNCHANGED <<writes, chat, hits>>
        BY <1>5, <2>5 DEF Keeps, Goes, Acquire, Starts, Probe, EngineLends,
            EngineRefuses, BorrowBreaks, GetsLease, PollsAgain, Deadline, Aborts,
            Drains, Forwards, EngineForwards, ForwardDone, Leaves, CancelledComputing,
            Cancels, histVars
    <3>2. pc'[v] # "drained"
        BY <1>5, <2>5 DEF Keeps, Goes, Acquire, Starts, Probe, EngineLends,
            EngineRefuses, BorrowBreaks, GetsLease, PollsAgain, Deadline, Aborts,
            Drains, Forwards, EngineForwards, ForwardDone, Leaves, CancelledComputing,
            Cancels, WayOut, TypeOK
    <3>3. lease' = lease \/ writes[v] = {}
        BY <1>5, <2>5 DEF Keeps, Goes, Acquire, Starts, Probe, EngineLends,
            EngineRefuses, BorrowBreaks, GetsLease, PollsAgain, Deadline, Aborts,
            Drains, Forwards, EngineForwards, ForwardDone, Leaves, CancelledComputing,
            Cancels, LeaseScope
    <3> QED BY <2>1, <3>1, <3>2, <3>3 DEF Unhurt, Live
  <2> QED BY <2>2, <2>3, <2>4, <2>5
<1>6. ASSUME NEW v \in Validators, Ends(v)
      PROVE  Unhurt'
  <2>1. UNCHANGED <<writes, chat, hits>> /\ writes[v] = {}
      BY <1>6 DEF Ends, Goes, EngineReturns, ReturnFails, Resets, CancelledEarly,
          CancelledBorrowing, CancelledReturning, CancelledResetting, Cancels, Exits,
          histVars, LeaseScope
  <2>2. \A u \in Validators : u # v => lease'[u] = lease[u]
      BY <1>6 DEF Ends, Goes, EngineReturns, ReturnFails, Resets, CancelledEarly,
          CancelledBorrowing, CancelledReturning, CancelledResetting, Cancels, Exits,
          TypeOK
  <2>3. pc' = pc \/ pc' = [pc EXCEPT ![v] = "idle"]
      BY <1>6, EndsLock
  <2> QED BY <2>1, <2>2, <2>3 DEF Unhurt, Live, TypeOK
<1> QED BY <1>3, <1>4, <1>5, <1>6, NextSteps

(* A lease is dropped by a job that ends, and granted to one that borrows. *)
LEMMA ReturningStep ==
    ASSUME IInv, Next
    PROVE  Returning'
<1> USE DEF IInv
<1>1. CASE World
    BY <1>1, WorldLock DEF jobVars, Returning
<1>2. ASSUME NEW v \in Validators, Call(v)
      PROVE  Returning'
    BY <1>2 DEF Call, Goes, Returning, TypeOK
<1>3. ASSUME NEW v \in Validators, Keeps(v)
      PROVE  Returning'
  <2>1. \A u \in Validators : u # v => pc'[u] = pc[u]
      BY <1>3, KeepsLock
  <2>2. CASE EngineLends(v)
    <3>1. pc'[v] = "borrowed"
        BY <2>2 DEF EngineLends, Goes, TypeOK
    <3>2. \A u \in Validators : u # v => lease'[u] = lease[u]
        BY <2>2 DEF EngineLends, TypeOK
    <3> QED BY <2>1, <3>1, <3>2 DEF Returning
  <2>3. CASE ~EngineLends(v)
    <3>1. lease' = lease
        BY <1>3, <2>3 DEF Keeps, Goes, Acquire, Starts, Probe, EngineLends,
            EngineRefuses, BorrowBreaks, GetsLease, PollsAgain, Deadline, Aborts,
            Drains, Forwards, EngineForwards, ForwardDone, Leaves, CancelledComputing,
            Cancels
    <3>2. pc'[v] = "return" => pc[v] = "return" \/ lease[v] # {}
        BY <1>3, <2>3 DEF Keeps, Goes, Acquire, Starts, Probe, EngineLends,
            EngineRefuses, BorrowBreaks, GetsLease, PollsAgain, Deadline, Aborts,
            Drains, Forwards, EngineForwards, ForwardDone, Leaves, CancelledComputing,
            Cancels, WayOut, TypeOK
    <3> QED BY <2>1, <3>1, <3>2 DEF Returning
  <2> QED BY <2>2, <2>3
<1>4. ASSUME NEW v \in Validators, Ends(v)
      PROVE  Returning'
  <2>1. \A u \in Validators : u # v => lease'[u] = lease[u]
      BY <1>4 DEF Ends, Goes, EngineReturns, ReturnFails, Resets, CancelledEarly,
          CancelledBorrowing, CancelledReturning, CancelledResetting, Cancels, Exits,
          TypeOK
  <2>2. CASE pc' = [pc EXCEPT ![v] = "idle"]
      BY <2>1, <2>2 DEF Returning, TypeOK
  <2>3. CASE fifo' = fifo /\ pc' = pc
    <3>1. CASE lease' = lease
        BY <2>3, <3>1 DEF Returning
    <3>2. CASE lease' # lease
      <4>1. pc' = [pc EXCEPT ![v] = "idle"]
          BY <1>4, <3>2 DEF Ends, Goes, EngineReturns, ReturnFails, Resets,
              CancelledEarly, CancelledBorrowing, CancelledReturning,
              CancelledResetting, Cancels, Exits
      <4> QED BY <2>2, <4>1
    <3> QED BY <3>1, <3>2
  <2> QED BY <1>4, <2>2, <2>3, EndsLock
<1> QED BY <1>1, <1>2, <1>3, <1>4, NextSteps

(* No block becomes poisoned, and whoever is to reset the cache still is. *)
LEMMA PoisonFrame ==
    ASSUME PoisonExplained,
           bad' \intersect cached' \subseteq bad \intersect cached,
           mining => mining', missed => missed',
           \A u \in Validators : Owing(u) => Owing(u)'
    PROVE  PoisonExplained'
<1> SUFFICES ASSUME bad' \intersect cached' # {}
             PROVE  mining' \/ missed' \/ \E v \in Validators : Owing(v)'
    BY DEF PoisonExplained, Owing
<1>1. mining \/ missed \/ \E v \in Validators : Owing(v)
    BY DEF PoisonExplained, Owing
<1> QED BY <1>1

(* A reset leaves nothing poisoned behind, or is missed. *)
LEMMA ResetExplains ==
    ASSUME ResetCache \/ missed' = TRUE
    PROVE  PoisonExplained'
BY DEF ResetCache, PoisonExplained

LEMMA PoisonStep ==
    ASSUME IInv, Next
    PROVE  PoisonExplained'
<1> USE DEF IInv
<1>1. CASE World
  <2>1. \A u \in Validators : Owing(u) => Owing(u)'
      BY <1>1, WorldLock DEF jobVars, Owing
  <2>2. ASSUME NEW c \in Chats, ChatStarts(c) \/ ChatEnds(c)
        PROVE  PoisonExplained'
    <3>1. /\ bad' \intersect cached' \subseteq bad \intersect cached
          /\ mining' = mining /\ missed' = missed
        BY <2>2 DEF ChatStarts, ChatEnds, histVars
    <3> QED BY <2>1, <3>1, PoisonFrame
  <2>3. CASE MiningStarts \/ MiningForwards
    <3>1. mining'
        BY <2>3 DEF MiningStarts, MiningForwards
    <3> QED BY <3>1 DEF PoisonExplained
  <2>4. CASE MiningEnds
      BY <2>4, ResetExplains DEF MiningEnds
  <2> QED BY <1>1, <2>2, <2>3, <2>4 DEF World
<1>2. ASSUME NEW v \in Validators, Call(v)
      PROVE  PoisonExplained'
  <2>1. UNCHANGED <<bad, cached, mining, missed, lease>>
      BY <1>2 DEF Call, poolVars, histVars
  <2>2. pc[v] = "idle" /\ \A u \in Validators : u # v => pc'[u] = pc[u]
      BY <1>2 DEF Call, Goes, TypeOK
  <2>3. \A u \in Validators : Owing(u) => Owing(u)'
      BY <2>1, <2>2 DEF Owing
  <2> QED BY <2>1, <2>3, PoisonFrame
<1>3. ASSUME NEW v \in Validators, Keeps(v)
      PROVE  PoisonExplained'
  <2>1. \A u \in Validators : u # v => pc'[u] = pc[u]
      BY <1>3, KeepsLock
  <2>2. CASE EngineLends(v)
    <3>1. /\ bad' \intersect cached' \subseteq bad \intersect cached
          /\ mining' = mining /\ missed' = missed
        BY <2>2 DEF EngineLends, Lends, histVars
    <3>2. pc[v] = "borrow" /\ \A u \in Validators : u # v => lease'[u] = lease[u]
        BY <2>2 DEF EngineLends, Goes, TypeOK
    <3>3. \A u \in Validators : Owing(u) => Owing(u)'
        BY <2>1, <3>2 DEF Owing
    <3> QED BY <3>1, <3>3, PoisonFrame
  <2>3. CASE EngineForwards(v)
    <3>1. UNCHANGED <<pc, lease, cached, mining, missed>>
        BY <2>3 DEF EngineForwards
    <3>2. bad' = bad \union writes[v] /\ writes[v] # {}
        BY <2>3 DEF EngineForwards
    <3>3. CASE lease[v] = {}
      <4>1. Owing(v)'
          BY <3>1, <3>2, <3>3 DEF Owing, LeaseScope, Returning, TypeOK
      <4> QED BY <4>1 DEF PoisonExplained, Owing
    <3>4. CASE lease[v] # {}
      <4>1. writes[v] \intersect cached = {}
          BY <3>4 DEF LeaseHeld
      <4>2. bad' \intersect cached' \subseteq bad \intersect cached
          BY <3>1, <3>2, <4>1
      <4> QED BY <3>1, <4>2, PoisonFrame DEF Owing
    <3> QED BY <3>3, <3>4
  <2>4. CASE ~(EngineLends(v) \/ EngineForwards(v))
    <3>1. UNCHANGED <<bad, cached, mining, missed, lease>>
        BY <1>3, <2>4 DEF Keeps, Goes, Acquire, Starts, Probe, EngineLends,
            EngineRefuses, BorrowBreaks, GetsLease, PollsAgain, Deadline, Aborts,
            AbortAll, Drains, Forwards, EngineForwards, ForwardDone, Leaves,
            CancelledComputing, Cancels, poolVars, histVars
    <3>2. Owing(v) => pc'[v] \in {"chunk", "drained", "rpc", "reset"}
        BY <1>3, <2>4 DEF Keeps, Goes, Acquire, Starts, Probe, EngineLends,
            EngineRefuses, BorrowBreaks, GetsLease, PollsAgain, Deadline, Aborts,
            Drains, Forwards, EngineForwards, ForwardDone, Leaves,
            CancelledComputing, Cancels, WayOut, Owing, TypeOK
    <3>3. \A u \in Validators : Owing(u) => Owing(u)'
        BY <2>1, <3>1, <3>2 DEF Owing
    <3> QED BY <3>1, <3>3, PoisonFrame
  <2> QED BY <2>2, <2>3, <2>4
<1>4. ASSUME NEW v \in Validators, Ends(v)
      PROVE  PoisonExplained'
  <2>1. CASE Resets(v) \/ CancelledResetting(v)
      BY <2>1, ResetExplains DEF Resets, CancelledResetting
  <2>2. CASE ~(Resets(v) \/ CancelledResetting(v))
    <3>1. /\ bad' \intersect cached' \subseteq bad \intersect cached
          /\ mining' = mining /\ missed' = missed
        BY <1>4, <2>2 DEF Ends, EngineReturns, ReturnFails, CancelledEarly,
            CancelledBorrowing, CancelledReturning, Cancels, Lends, poolVars, histVars
    <3>2. ~Owing(v)
        BY <1>4, <2>2 DEF Ends, Goes, EngineReturns, ReturnFails, CancelledEarly,
            CancelledBorrowing, CancelledReturning, Owing
    <3>3. \A u \in Validators : u # v => lease'[u] = lease[u] /\ pc'[u] = pc[u]
        BY <1>4, <2>2 DEF Ends, Goes, EngineReturns, ReturnFails, CancelledEarly,
            CancelledBorrowing, CancelledReturning, Cancels, Exits, TypeOK
    <3>4. \A u \in Validators : Owing(u) => Owing(u)'
        BY <3>2, <3>3 DEF Owing
    <3> QED BY <3>1, <3>4, PoisonFrame
  <2> QED BY <2>1, <2>2
<1> QED BY <1>1, <1>2, <1>3, <1>4, NextSteps

----------------------------------------------------------------------------
LEMMA NextIInv == IInv /\ [Next]_vars => IInv'
<1> SUFFICES ASSUME IInv, [Next]_vars PROVE IInv'
    OBVIOUS
<1>1. CASE Next
  <2>1. TypeOK'
      BY <1>1, LockedStep, CountedStep, LeaseScopeStep, LeakStep, OthersStep
      DEF IInv, Others, TypeOK
  <2>2. Locked' /\ Counted' /\ LeaseScope' /\ LeaseHeld' /\ LeakExplained'
      BY <1>1, LockedStep, CountedStep, LeaseScopeStep, LeaseHeldStep, LeakStep
  <2>3. Unhurt' /\ ChatBlocks' /\ NewUnhurt' /\ HitOnce'
      BY <1>1, UnhurtStep, ChatBlocksStep, HitStep DEF IInv
  <2>4. Returning' /\ PoisonExplained'
      BY <1>1, ReturningStep, PoisonStep
  <2> QED BY <2>1, <2>2, <2>3, <2>4 DEF IInv
<1>2. CASE UNCHANGED vars
  <2> USE <1>2 DEF vars, jobVars, poolVars, countVars, histVars
  <2>1. TypeOK'
      BY DEF IInv, TypeOK
  <2>2. Locked' /\ Counted' /\ LeaseScope' /\ LeaseHeld' /\ LeakExplained'
      BY DEF IInv, Locked, Busy, Holds, Counted, LeaseScope, LeaseHeld, LeakExplained
  <2>3. Unhurt' /\ ChatBlocks' /\ NewUnhurt' /\ HitOnce'
      BY DEF IInv, Unhurt, Live, ChatBlocks, NewUnhurt, HitOnce
  <2>4. Returning' /\ PoisonExplained'
      BY DEF IInv, Returning, PoisonExplained
  <2> QED BY <2>1, <2>2, <2>3, <2>4 DEF IInv
<1> QED BY <1>1, <1>2

THEOREM Invariance == Spec => []IInv
BY InitIInv, NextIInv, PTL DEF Spec

(* The variables keep their types: no count runs past its bound, no return is
   tried more than ReturnAttempts times. *)
THEOREM TypeCorrect == Spec => []TypeOK
<1>1. IInv => TypeOK
    BY DEF IInv
<1> QED BY <1>1, Invariance, PTL

(* Leased blocks are the lessee's and outside the prefix cache until they are
   returned, and its forwards write nothing else -- for any number of jobs
   and whatever the size of the pool and of the leases. *)
THEOREM LeasesHeld == Spec => []LeaseHeld
<1>1. IInv => LeaseHeld
    BY DEF IInv
<1> QED BY <1>1, Invariance, PTL

(* One validation at a time is past the lock, with every cancel and failure
   the code can meet on the way. *)
THEOREM Serialized == Spec => []OneAtATime
<1>1. IInv => OneAtATime
  <2> SUFFICES ASSUME IInv, NEW u \in Validators, NEW v \in Validators
               PROVE  /\ ~(pc[u] \in {"idle", "waiting"}) /\ ~(pc[v] \in {"idle", "waiting"})
                            => u = v
                      /\ pc[u] \in {"idle", "waiting"} => lease[u] = {} /\ writes[u] = {}
      BY DEF OneAtATime
  <2> QED BY DEF IInv, Locked, Busy, Holds, LeaseScope
<1> QED BY <1>1, Invariance, PTL

(* Blocks leave the pool for good only where a lease was lost: a cancel of a
   borrow or of a return to retry, or the last attempt of a return. *)
THEOREM LeaksExplained == Spec => []LeakExplained
<1>1. IInv => LeakExplained
    BY DEF IInv
<1> QED BY <1>1, Invariance, PTL

(* No forward overwrites a chat that another has overwritten, unless an abort in between
   failed to end it. *)
THEOREM OneHit == Spec => []HitOnce
<1>1. IInv => HitOnce
    BY DEF IInv
<1> QED BY <1>1, Invariance, PTL

(* The prefix cache serves overwritten blocks only while somebody is about to
   reset it: a round, or a job that computes without a lease -- or after a reset
   that was refused or cut short. *)
THEOREM PoisonsExplained == Spec => []PoisonExplained
<1>1. IInv => PoisonExplained
    BY DEF IInv
<1> QED BY <1>1, Invariance, PTL
============================================================================
