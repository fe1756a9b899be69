---------------------------- MODULE Reservation ----------------------------
(***************************************************************************)
(* Validation jobs and the engine's KV blocks: poc_reservation             *)
(* (poc/reservation.py), the borrow and return methods installed on        *)
(* EngineCore (_compat/v0_25.py), the per-chunk loops of /generate and of  *)
(* the queue worker (poc/routes.py, poc/generate_queue.py), and, around    *)
(* them, chat requests and mining rounds.                                  *)
(*                                                                         *)
(* The engine executes calls one at a time in the order they were sent, so *)
(* a return or a reset takes effect after the forwards of the same job.    *)
(* A chat request holds one block.  Mining is reduced to its effect here:  *)
(* chat is refused and drained, blocks InPlace are overwritten, the prefix *)
(* cache is reset at the end (module MiningRound has the details).         *)
(***************************************************************************)
EXTENDS Naturals, FiniteSets, SequencesExt

CONSTANTS
    Validators,     \* callers of poc_reservation: wait=True requests, the worker
    Worker,         \* the queue worker, the one that /stop cancels
    Chats,          \* chat requests
    Blocks,         \* the engine's BlockPool
    InPlace,        \* blocks 0..N, which a forward without a lease writes
    Need,           \* batch_size * blocks_per_seq, the blocks of a lease
    ReturnAttempts, \* attempts of _return_lease_with_retry
    MaxJobs, MaxChunks, MaxRounds, MaxCancels,  \* bounds
    Free            \* the owner of a block in the free queue

ASSUME OwnersDisjoint ==
    /\ Worker \in Validators
    /\ Validators \intersect Chats = {}
    /\ Free \notin Validators \union Chats
ASSUME InPlaceAssumption == InPlace \subseteq Blocks
ASSUME BoundsAssumption ==
    /\ Need \in Nat \ {0}
    /\ ReturnAttempts \in Nat \ {0}
    /\ MaxJobs \in Nat /\ MaxChunks \in Nat /\ MaxRounds \in Nat /\ MaxCancels \in Nat

VARIABLES
    fifo,       \* holder of the reservation lock and those waiting, in order
    pc,         \* where each validator is
    left,       \* chunks it has yet to compute
    esc,        \* "no": may escalate; "yes": has aborted once; "legacy": no lease
    lease,      \* blocks the engine granted it
    att,        \* failed attempts to return them
    writes,     \* blocks its forward, sent to the engine, has yet to write
    available,  \* cached answer of poc_validation_available
    capable,    \* the configuration supports borrowing; never changes
    owner,      \* BlockPool: who holds each block
    cached,     \* blocks whose hash serves prefix hits
    bad,        \* blocks whose bytes are not those of their hash or owner
    chat,       \* state of each chat request
    mining,     \* a round is active
    jobs, rounds, cancels,  \* counted against their bounds
    lost,       \* history: a lease was abandoned without being returned
    missed,     \* the last prefix-cache reset did not happen
    hits        \* history: forwards that overwrote each running chat, since an
                \* abort last failed to end it

poolVars  == <<owner, cached, bad>>
countVars == <<jobs, rounds, cancels>>
histVars  == <<lost, missed, hits>>
jobVars   == <<pc, left, esc, lease, att, writes>>
vars == <<fifo, jobVars, available, capable, poolVars, chat, mining, countVars, histVars>>

States == {"idle", "waiting", "probe", "borrow", "borrowed", "poll", "abort",
           "chunk", "drained", "rpc", "return", "reset"}

TypeOK ==
    /\ fifo \in Seq(Validators)
    /\ pc \in [Validators -> States]
    /\ left \in [Validators -> 0..MaxChunks]
    /\ esc \in [Validators -> {"no", "yes", "legacy"}]
    /\ lease \in [Validators -> SUBSET Blocks]
    /\ att \in [Validators -> 0..ReturnAttempts]
    /\ writes \in [Validators -> SUBSET Blocks]
    /\ available \in {"unknown", "yes", "no"}
    /\ capable \in BOOLEAN
    /\ owner \in [Blocks -> Validators \union Chats \union {Free}]
    /\ cached \subseteq Blocks
    /\ bad \subseteq Blocks
    /\ chat \in [Chats -> {"new", "live", "gone"}]
    /\ mining \in BOOLEAN
    /\ jobs \in 0..MaxJobs /\ rounds \in 0..MaxRounds /\ cancels \in 0..MaxCancels
    /\ lost \in BOOLEAN
    /\ missed \in BOOLEAN
    /\ hits \in [Chats -> Nat]

Init ==
    /\ fifo = <<>>
    /\ pc = [v \in Validators |-> "idle"]
    /\ left = [v \in Validators |-> 0]
    /\ esc = [v \in Validators |-> "no"]
    /\ lease = [v \in Validators |-> {}]
    /\ att = [v \in Validators |-> 0]
    /\ writes = [v \in Validators |-> {}]
    /\ available = "unknown"
    /\ capable \in BOOLEAN
    /\ owner = [b \in Blocks |-> Free]
    /\ cached = {}
    /\ bad = {}
    /\ chat = [c \in Chats |-> "new"]
    /\ mining = FALSE
    /\ jobs = 0 /\ rounds = 0 /\ cancels = 0
    /\ lost = FALSE
    /\ missed = FALSE
    /\ hits = [c \in Chats |-> 0]

----------------------------------------------------------------------------
(* The engine.                                                             *)

FreeBlocks == {b \in Blocks : owner[b] = Free}
Live == {c \in Chats : chat[c] = "live"}

\* free_blocks: the hash of a freed block survives.
Freed(S) == [b \in Blocks |-> IF b \in S THEN Free ELSE owner[b]]

\* abort_all_requests: the requests in flight end, except those whose abort
\* fails or, where they cannot be listed or aborted at all, none of them.  That
\* is logged, and the caller goes on.
AbortAll ==
    \E S \in SUBSET Live :
        /\ chat' = [c \in Chats |-> IF c \in S THEN "gone" ELSE chat[c]]
        /\ owner' = Freed({b \in Blocks : owner[b] \in S})
        /\ hits' = [c \in Chats |-> IF c \in Live \ S THEN 0 ELSE hits[c]]
        /\ UNCHANGED <<cached, bad, lost, missed>>

\* BlockPool.reset_prefix_cache refuses while a lease, live or leaked, holds a
\* block; running requests are preempted and compute their KV anew.  The call may
\* also raise, and none of this reaches the caller.
ResetCache ==
    \/ /\ \A b \in Blocks : owner[b] \notin Validators
       /\ missed' = FALSE
       /\ cached' = {b \in Blocks : owner[b] \in Chats}
       /\ bad' = {}
    \/ missed' = TRUE /\ UNCHANGED <<cached, bad>>

ChatStarts(c) ==
    /\ chat[c] = "new"
    /\ ~mining
    /\ \E b \in FreeBlocks :
          /\ owner' = [owner EXCEPT ![b] = c]
          /\ cached' = cached \union {b}
          /\ bad' = bad \ {b}
    /\ chat' = [chat EXCEPT ![c] = "live"]
    /\ UNCHANGED <<fifo, jobVars, available, capable, mining, countVars, histVars>>

ChatEnds(c) ==
    /\ c \in Live
    /\ owner' = Freed({b \in Blocks : owner[b] = c})
    /\ chat' = [chat EXCEPT ![c] = "gone"]
    /\ UNCHANGED <<fifo, jobVars, available, capable, cached, bad, mining, countVars,
                   histVars>>

MiningStarts ==
    /\ ~mining
    /\ rounds < MaxRounds
    /\ rounds' = rounds + 1
    /\ mining' = TRUE
    /\ AbortAll
    /\ UNCHANGED <<fifo, jobVars, available, capable, jobs, cancels>>

\* A mining forward overwrites blocks 0..N, whoever holds them.
MiningForwards ==
    /\ mining
    /\ bad' = bad \union InPlace
    /\ UNCHANGED <<fifo, jobVars, available, capable, owner, cached, chat, mining,
                   countVars, histVars>>

MiningEnds ==
    /\ mining
    /\ mining' = FALSE
    /\ ResetCache
    /\ UNCHANGED <<fifo, jobVars, available, capable, owner, chat, countVars, lost, hits>>

----------------------------------------------------------------------------
(* A validation job up to its lease.                                       *)

Holds(v) == fifo # <<>> /\ Head(fifo) = v

\* asyncio.Lock: FIFO; a cancelled waiter leaves the queue.
Release(v) == \E i \in 1..Len(fifo) : fifo[i] = v /\ fifo' = RemoveAt(fifo, i)

Goes(v, from, to) == pc[v] = from /\ pc' = [pc EXCEPT ![v] = to]

\* A job of n chunks; the caller has spun until no round is active.
Call(v) ==
    /\ Goes(v, "idle", "waiting")
    /\ ~mining
    /\ jobs < MaxJobs
    /\ jobs' = jobs + 1
    /\ fifo' = Append(fifo, v)
    /\ \E n \in 0..MaxChunks : left' = [left EXCEPT ![v] = n]
    /\ esc' = [esc EXCEPT ![v] = "no"]
    /\ att' = [att EXCEPT ![v] = 0]
    /\ UNCHANGED <<lease, writes, available, capable, poolVars, chat, mining, rounds,
                   cancels, histVars>>

\* What the job does once it knows whether borrowing is available.
Starts(v, answer) ==
    IF answer = "yes"
      THEN pc' = [pc EXCEPT ![v] = "borrow"] /\ UNCHANGED esc
      ELSE /\ pc' = [pc EXCEPT ![v] = "abort"]
           /\ esc' = [esc EXCEPT ![v] = "legacy"]

Acquire(v) ==
    /\ pc[v] = "waiting"
    /\ Holds(v)
    /\ IF available = "unknown"
         THEN pc' = [pc EXCEPT ![v] = "probe"] /\ UNCHANGED esc
         ELSE Starts(v, available)
    /\ UNCHANGED <<fifo, left, lease, att, writes, available, capable, poolVars, chat,
                   mining, countVars, histVars>>

\* The probe fails or answers; either way the answer is cached for good.
Probe(v) ==
    /\ pc[v] = "probe"
    /\ \E answer \in (IF capable THEN {"yes", "no"} ELSE {"no"}) :
          available' = answer /\ Starts(v, answer)
    /\ UNCHANGED <<fifo, left, lease, att, writes, capable, poolVars, chat, mining,
                   countVars, histVars>>

\* Mutant: granted blocks keep their hashes.
BugLends(v, S) ==
    /\ Cardinality(S) = Need
    /\ owner' = [b \in Blocks |-> IF b \in S THEN v ELSE owner[b]]
    /\ UNCHANGED cached

\* gonka_poc_borrow_blocks: get_new_blocks evicts the hashes of what it grants.
Lends(v, S) ==
    /\ Cardinality(S) = Need
    /\ owner' = [b \in Blocks |-> IF b \in S THEN v ELSE owner[b]]
    /\ cached' = cached \ S

EngineLends(v) ==
    /\ Goes(v, "borrow", "borrowed")
    /\ \E S \in SUBSET FreeBlocks :
          Lends(v, S) /\ lease' = [lease EXCEPT ![v] = S]
    /\ UNCHANGED <<fifo, left, esc, att, writes, available, capable, bad, chat, mining,
                   countVars, histVars>>

EngineRefuses(v) ==
    /\ Goes(v, "borrow", "poll")
    /\ Cardinality(FreeBlocks) < Need
    /\ UNCHANGED <<fifo, left, esc, lease, att, writes, available, capable, poolVars,
                   chat, mining, countVars, histVars>>

\* The borrow RPC raises: no further borrow; abort unless already done.
BorrowBreaks(v) ==
    /\ Goes(v, "borrow", IF esc[v] = "no" THEN "abort" ELSE "chunk")
    /\ esc' = [esc EXCEPT ![v] = "legacy"]
    /\ UNCHANGED <<fifo, left, lease, att, writes, available, capable, poolVars, chat,
                   mining, countVars, histVars>>

\* Mutant: the lock covers the borrow only.
BugGetsLease(v) ==
    /\ Goes(v, "borrowed", "chunk")
    /\ Release(v)
    /\ UNCHANGED <<left, esc, lease, att, writes, available, capable, poolVars,
                   chat, mining, countVars, histVars>>

GetsLease(v) ==
    /\ Goes(v, "borrowed", "chunk")
    /\ UNCHANGED <<fifo, left, esc, lease, att, writes, available, capable, poolVars,
                   chat, mining, countVars, histVars>>

PollsAgain(v) ==
    /\ Goes(v, "poll", "borrow")
    /\ UNCHANGED <<fifo, left, esc, lease, att, writes, available, capable, poolVars,
                   chat, mining, countVars, histVars>>

Deadline(v) ==
    /\ Goes(v, "poll", IF esc[v] = "no" THEN "abort" ELSE "chunk")
    /\ esc' = [esc EXCEPT ![v] = IF @ = "no" THEN "no" ELSE "legacy"]
    /\ UNCHANGED <<fifo, left, lease, att, writes, available, capable, poolVars, chat,
                   mining, countVars, histVars>>

\* The escalation, or the abort with which the legacy path starts.
Aborts(v) ==
    /\ Goes(v, "abort", IF esc[v] = "no" THEN "borrow" ELSE "chunk")
    /\ esc' = [esc EXCEPT ![v] = IF @ = "no" THEN "yes" ELSE @]
    /\ AbortAll
    /\ UNCHANGED <<fifo, left, lease, att, writes, available, capable, mining, countVars>>

----------------------------------------------------------------------------
(* Its chunks, and the way out.                                            *)

\* A chunk waits, lease in hand, while a round is active.
MayCompute(v) == pc[v] = "chunk" /\ left[v] > 0 /\ ~mining

\* Without a lease, requests in flight are aborted first, which suspends.
Drains(v) ==
    /\ MayCompute(v)
    /\ lease[v] = {} /\ Live # {}
    /\ pc' = [pc EXCEPT ![v] = "drained"]
    /\ AbortAll
    /\ UNCHANGED <<fifo, left, esc, lease, att, writes, available, capable, mining,
                   countVars>>

\* Mutant: a job without a lease aborts once, not before every chunk.
BugForwards(v) ==
    /\ MayCompute(v) \/ pc[v] = "drained"
    /\ pc' = [pc EXCEPT ![v] = "rpc"]
    /\ writes' = [writes EXCEPT ![v] = IF lease[v] = {} THEN InPlace ELSE lease[v]]
    /\ UNCHANGED <<fifo, left, esc, lease, att, available, capable, poolVars, chat,
                   mining, countVars, histVars>>

Forwards(v) ==
    /\ \/ MayCompute(v) /\ (lease[v] # {} \/ Live = {})
       \/ pc[v] = "drained"
    /\ pc' = [pc EXCEPT ![v] = "rpc"]
    /\ writes' = [writes EXCEPT ![v] = IF lease[v] = {} THEN InPlace ELSE lease[v]]
    /\ UNCHANGED <<fifo, left, esc, lease, att, available, capable, poolVars, chat,
                   mining, countVars, histVars>>

EngineForwards(v) ==
    /\ writes[v] # {}
    /\ writes' = [writes EXCEPT ![v] = {}]
    /\ bad' = bad \union writes[v]
    /\ hits' = [c \in Chats |->
                  IF \E b \in writes[v] : owner[b] = c THEN hits[c] + 1 ELSE hits[c]]
    /\ UNCHANGED <<fifo, pc, left, esc, lease, att, available, capable, owner, cached,
                   chat, mining, countVars, lost, missed>>

ForwardDone(v) ==
    /\ Goes(v, "rpc", "chunk")
    /\ writes[v] = {}
    /\ left' = [left EXCEPT ![v] = @ - 1]
    /\ UNCHANGED <<fifo, esc, lease, att, writes, available, capable, poolVars, chat,
                   mining, countVars, histVars>>

WayOut(v) == IF lease[v] = {} THEN "reset" ELSE "return"

\* No chunk left, or the RPC failed or timed out, its forward perhaps still to run.
Leaves(v) ==
    /\ \/ pc[v] = "chunk" /\ left[v] = 0
       \/ pc[v] = "rpc"
    /\ pc' = [pc EXCEPT ![v] = WayOut(v)]
    /\ UNCHANGED <<fifo, left, esc, lease, att, writes, available, capable, poolVars,
                   chat, mining, countVars, histVars>>

EngineReturns(v) ==
    /\ Goes(v, "return", "idle")
    /\ writes[v] = {}
    /\ owner' = Freed(lease[v])
    /\ lease' = [lease EXCEPT ![v] = {}]
    /\ Release(v)
    /\ UNCHANGED <<left, esc, att, writes, available, capable, cached, bad, chat, mining,
                   countVars, histVars>>

\* Mutant: one attempt too many.
BugReturnFails(v) ==
    /\ pc[v] = "return"
    /\ writes[v] = {}
    /\ att' = [att EXCEPT ![v] = @ + 1]
    /\ IF att[v] < ReturnAttempts
         THEN UNCHANGED <<fifo, pc, lease, lost>>
         ELSE /\ pc' = [pc EXCEPT ![v] = "idle"]
              /\ lease' = [lease EXCEPT ![v] = {}]
              /\ lost' = TRUE
              /\ Release(v)
    /\ UNCHANGED <<left, esc, writes, available, capable, poolVars, chat, mining,
                   countVars, missed, hits>>

ReturnFails(v) ==
    /\ pc[v] = "return"
    /\ writes[v] = {}
    /\ att' = [att EXCEPT ![v] = @ + 1]
    /\ IF att[v] + 1 < ReturnAttempts
         THEN UNCHANGED <<fifo, pc, lease, lost>>
         ELSE /\ pc' = [pc EXCEPT ![v] = "idle"]
              /\ lease' = [lease EXCEPT ![v] = {}]
              /\ lost' = TRUE
              /\ Release(v)
    /\ UNCHANGED <<left, esc, writes, available, capable, poolVars, chat, mining,
                   countVars, missed, hits>>

\* Mutant: no reset after a job without a lease.
BugResets(v) ==
    /\ Goes(v, "reset", "idle")
    /\ writes[v] = {}
    /\ Release(v)
    /\ UNCHANGED <<left, esc, lease, att, writes, available, capable, poolVars, chat,
                   mining, countVars, histVars>>

Resets(v) ==
    /\ Goes(v, "reset", "idle")
    /\ writes[v] = {}
    /\ ResetCache
    /\ Release(v)
    /\ UNCHANGED <<left, esc, lease, att, writes, available, capable, owner, chat, mining,
                   countVars, lost, hits>>

----------------------------------------------------------------------------
(* /stop cancels the worker: CancelledError at whatever it awaits.         *)

Cancels(v) ==
    /\ v = Worker
    /\ pc[v] # "idle"
    /\ cancels < MaxCancels
    /\ cancels' = cancels + 1
    /\ UNCHANGED <<left, esc, att, writes, available, capable, chat, mining, jobs,
                   rounds, hits>>

Exits(v) == pc' = [pc EXCEPT ![v] = "idle"] /\ Release(v)

\* Mutant: acquire and release without `async with'.
BugCancelledEarly(v) ==
    /\ Cancels(v)
    /\ pc[v] \in {"waiting", "probe", "poll", "abort"}
    /\ pc' = [pc EXCEPT ![v] = "idle"]
    /\ UNCHANGED <<fifo, lease, poolVars, lost, missed>>

\* No lease yet: the lock is released and nothing else happens.
CancelledEarly(v) ==
    /\ Cancels(v)
    /\ pc[v] \in {"waiting", "probe", "poll", "abort"}
    /\ Exits(v)
    /\ UNCHANGED <<lease, poolVars, lost, missed>>

\* A borrow in flight is executed all the same; its lease reaches nobody.
CancelledBorrowing(v) ==
    /\ Cancels(v)
    /\ \/ /\ pc[v] = "borrow"
          /\ \/ \E S \in SUBSET FreeBlocks : Lends(v, S) /\ lost' = TRUE
             \/ Cardinality(FreeBlocks) < Need /\ UNCHANGED <<owner, cached, lost>>
       \/ pc[v] = "borrowed" /\ lost' = TRUE /\ UNCHANGED <<owner, cached>>
    /\ lease' = [lease EXCEPT ![v] = {}]
    /\ Exits(v)
    /\ UNCHANGED <<bad, missed>>

\* Mutant: the return is not in a `finally'.
BugCancelledComputing(v) ==
    /\ Cancels(v)
    /\ pc[v] \in {"chunk", "drained", "rpc"}
    /\ lease' = [lease EXCEPT ![v] = {}]
    /\ Exits(v)
    /\ UNCHANGED <<poolVars, lost, missed>>

\* Between chunks or in one: the context manager's `finally' runs.
CancelledComputing(v) ==
    /\ Cancels(v)
    /\ pc[v] \in {"chunk", "drained", "rpc"}
    /\ pc' = [pc EXCEPT ![v] = WayOut(v)]
    /\ UNCHANGED <<fifo, lease, poolVars, lost, missed>>

\* In the `finally': a return that was sent is executed, one that waited for
\* its retry is not.
CancelledReturning(v) ==
    /\ Cancels(v)
    /\ pc[v] = "return"
    /\ writes[v] = {}
    /\ lease' = [lease EXCEPT ![v] = {}]
    /\ \/ owner' = Freed(lease[v]) /\ UNCHANGED lost
       \/ att[v] > 0 /\ lost' = TRUE /\ UNCHANGED owner
    /\ Exits(v)
    /\ UNCHANGED <<cached, bad, missed>>

\* The reset in flight is executed; a plain one that fails is not escalated.
CancelledResetting(v) ==
    /\ Cancels(v)
    /\ pc[v] = "reset"
    /\ writes[v] = {}
    /\ ResetCache
    /\ Exits(v)
    /\ UNCHANGED <<lease, owner, lost>>

----------------------------------------------------------------------------
Borrowing(v) ==
    \/ Acquire(v) \/ Probe(v) \/ EngineLends(v) \/ EngineRefuses(v)
    \/ GetsLease(v) \/ PollsAgain(v) \/ Deadline(v) \/ Aborts(v)

Computing(v) ==
    \/ Drains(v) \/ Forwards(v) \/ ForwardDone(v) \/ Leaves(v)
    \/ EngineReturns(v) \/ Resets(v)

Failing(v) == BorrowBreaks(v) \/ ReturnFails(v)

Cancelled(v) ==
    \/ CancelledEarly(v) \/ CancelledBorrowing(v) \/ CancelledComputing(v)
    \/ CancelledReturning(v) \/ CancelledResetting(v)

Next ==
    \/ \E v \in Validators :
          Call(v) \/ Borrowing(v) \/ Computing(v) \/ EngineForwards(v) \/ Failing(v)
              \/ Cancelled(v)
    \/ \E c \in Chats : ChatStarts(c) \/ ChatEnds(c)
    \/ MiningStarts \/ MiningForwards \/ MiningEnds

Spec == Init /\ [][Next]_vars

\* The event loop and the engine go on; the borrow deadline is reached even
\* though polls keep coming in between; a round ends.
FairSpec ==
    /\ Spec
    /\ \A v \in Validators :
          /\ WF_vars(Borrowing(v)) /\ WF_vars(Computing(v)) /\ WF_vars(EngineForwards(v))
          /\ SF_vars(Deadline(v))
    /\ WF_vars(MiningEnds)
----------------------------------------------------------------------------
(* Properties.                                                             *)

(* What a job holds as its lease is held for it in the engine, and a forward
   under a lease writes only such blocks, none of which serves prefix hits --
   through retried returns, timeouts that leave a forward running, cancels
   and mining rounds (reservation.py:14-16). *)
LeaseHeld ==
    \A v \in Validators :
        /\ \A b \in lease[v] : owner[b] = v /\ b \notin cached
        /\ lease[v] # {} => writes[v] \subseteq lease[v]

(* Queued validations wait, neither leasing blocks nor aborting inference, until
   the one before them has returned its lease, reset the cache or been cancelled
   (reservation.py:24-27): one at a time is past the lock, and leases with it. *)
OneAtATime ==
    \A u, v \in Validators :
        /\ pc[u] \notin {"idle", "waiting"} /\ pc[v] \notin {"idle", "waiting"} => u = v
        /\ pc[u] \in {"idle", "waiting"} => lease[u] = {} /\ writes[u] = {}

(* Blocks leave the pool for good only by a cancel that meets a borrow or a
   return, or by a return that fails each time (reservation.py:219-234). *)
LeakExplained ==
    \A b \in Blocks : owner[b] \in Validators => b \in lease[owner[b]] \/ lost

(* Whenever the prefix cache serves blocks that a forward overwrote, a job
   without a lease or a round is about to reset it, or the last reset was
   refused or cut short (reservation.py:237-277). *)
PoisonExplained ==
    bad \intersect cached # {} =>
        \/ mining \/ missed
        \/ \E v \in Validators :
              pc[v] \in {"chunk", "drained", "rpc", "reset"} /\ lease[v] = {}

(* Every job gets the lock, a lease or the legacy path, and ends, though jobs
   before it wait out mining rounds, poll for blocks, fail and are cancelled. *)
JobsEnd == \A v \in Validators : pc[v] = "waiting" ~> pc[v] = "idle"

(* reservation.py:194: "Block return is structurally guaranteed (`finally')"
   -- even if every return that is tried succeeds. *)
NoLeak ==
    \A b \in Blocks : owner[b] \in Validators => pc[owner[b]] # "idle"

(* A running chat is overwritten by at most one forward between two aborts that
   failed to end it: each one without a lease, of the same job or another, comes
   behind an abort of its own of what is in flight (routes.py:78-88). *)
HitOnce == \A c \in Chats : hits[c] <= 1
============================================================================
