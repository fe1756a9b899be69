# A TLA+ model of gonka-poc

gonka-poc is a plugin for the vLLM inference server. It adds proof-of-compute (PoC)
endpoints to the OpenAI-compatible API server: *mining rounds*, which take the GPU
for themselves and stream artifacts to a chain orchestrator, and *validation jobs*,
which recompute given nonces, if possible beside live inference. This directory
holds TLA+ specifications of the parts of it that are hard to test, TLC
configurations that check them, and proofs checked by TLAPS.

Paths below are relative to `src/src/gonka_poc/` of the repository unless they start
with `src/`.

## 1. Inventory

The API server is one asyncio process: coroutines interleave at `await`, and nowhere
else. The engine core is a second process that executes calls one at a time, in the
order they were sent. The GPU workers are further processes that the engine drives.

| Component | State | Operations | Interacts with | What is hard | What makes it correct |
|---|---|---|---|---|---|
| Mining lifecycle (`poc/routes.py`) | `_poc_tasks[app_id]`: generation task, callback task, stop event | `/init/generate`, `/stop`, `/status`, the generation loop and its done callback | gate, engine, sender, queue | two operators at once; a crash between two awaits; a cancel anywhere; a timeout with the forward still running | the gate covers the round, no round or sender that nobody can stop, `/stop` returns, the prefix cache is clean when chat comes back |
| Chat gate (`entrypoint/gating.py`) | `PoCGate._active` | `activate`, `deactivate`, one test per chat request | mining lifecycle, chat | the test is made once, long before the request reaches the engine | never latches; closed while a round mines |
| Reservation (`poc/reservation.py`) | FIFO lock, cached probe answer, the lease | borrow with polling, one escalation by aborting inference, legacy path, return with retry, reset with retry | engine, queue worker, `wait=true` requests, chat | cancel at any await; a return that fails; a chunk that times out; mining in the middle | forwards stay in the lease, one validation at a time, blocks come back, no poisoned prefix hits, every job ends |
| Engine methods (`_compat/v0_25.py`, `v0_23.py`) | vLLM's BlockPool | borrow, return, abort, reset | reservation | refusals, hashes of lent blocks | a lent block is nobody else's |
| Job queue (`poc/generate_queue.py`) | queue, nonce count, results, worker task, stop event, singleton | POST and GET `/generate`, worker loop, clear, TTL | reservation, mining, callbacks, `/stop` | `/stop` suspends three times with the singleton still in place; the engine call turns a cancel into an ordinary failure | FIFO service, exact count, one worker, every accepted job answered or cleared |
| Callbacks (`poc/callbacks.py`) | buffer and pending payload; deque, semaphore, tasks, session, singleton | `add_artifacts`, `run`; `enqueue`, worker loop, retry, `stop` | mining, queue worker, the orchestrator's HTTP endpoint | lost answers, retries, bounds, stop in the middle | what is neither dropped by a bound nor by the last retry is delivered, in order per sender |
| KV layouts (`poc/poc_model_runner.py` 84-164) | none | slot mapping and block table of a batch | engine lease, attention backends | kernel blocks smaller than pool blocks, several groups | no two tokens share a slot, the table leads to it, both inside the lease |
| Worker forward (`poc_model_runner.py`, `worker/extension.py`) | hooks, MoE lock, process groups | one forward on every rank | engine, `layer_hooks.py`, `/generate` | a rank that raises between collectives; a hook constructor that fails half-way | ranks of a stage compute the same call; flag off and lock on afterwards; every rank answers |
| Verdict (`poc/validation.py`, `poc/data.py`) | none | compare artifacts, fraud test | queue, `/generate` | missing artifacts, ranks that answer twice | the honest are cleared, what was computed and is wrong is charged |
| Nonces (`poc/routes.py` 152-179, 396-432) | position, pending batch | `take`, retry of a batch that timed out | mining, sender | strides of nodes and groups; timeouts | disjoint and complete; none skipped or repeated |
| GPU randomness, plugin registration, compat dispatch, API wiring, lint | start-up only, or numeric | | | | not modelled, see section 6 |

`PROJECT.json` lists every hazard at its line, with the properties that watch it or
the reason why none does.

## 2. Plan

In order of importance:

1. `MiningRound` with its proofs, and `MCMining`, which runs it from two sides
2. `Reservation` with its proofs
3. `JobService` (abstract) and `GenerateQueue`, which implements it, with proofs
4. `KvLayout` (pure) with proofs for all sizes; `Verdict` (pure); `WorkerForward`, which
   composes them with the ranks, with proofs, and `MCForward` with its deployments
5. `NoncePartition` (pure); `MiningStream`, which takes its nonces, with proofs of both;
   `JobCallbacks` with proofs; `MCDelivery`, which runs the two ways of delivery

All of these are written. What could still be added:

6. A composition of gate, round, queue and callback queue over one `/stop`, if its state
   space allows.

## 3. Modules

### MiningRound

| Model | Code |
|---|---|
| `gate` | `PoCGate._active` |
| `entry` | which generation task `_poc_tasks[app_id]` holds |
| `task[r]`, `stop[r]`, `cb[r]` | state of a generation task; its stop event and cancel; its `CallbackSender.run` task |
| `pc[h]`, `rnd[h]` | where an `/init/generate` or `/stop` request is suspended, and for which round |
| `snap[p]` | ids that a caller of `abort_all_requests` has yet to abort |
| `chat[c]`, `fwd`, `beside`, `dirty` | chat requests; forwards in the engine and the chats beside them; prefix cache overwritten |
| `resettable`, `missed` | whether the engine client has `reset_prefix_cache`; a reset due since the last forward did not happen |
| `InitConflict`, `InitReraises`, `InitBegins`, `InitFails`, `InitSpawns`, `InitUnwound` | `init_generate` |
| `StopNothing`, `StopReraises`, `StopCancels`, `StopJoined`, `StopJoinedCb`, `StopClears` | `stop_round` with `_cancel_poc_tasks`; `clear_queue` is the wait in "clearing" |
| `GenStarts` ... `GenEnds` | `_generation_loop`, with the best-effort reset in its `finally` and its done callback in the last step (`TaskEnds`) |
| `Admit`, `Register`, `Finish` | middleware; vLLM |

An action is the code between two awaits that can suspend. An await that cannot (a
finished task, an empty abort list) does not end the action. `overlapped`, `stopFailed`
and `missed` are history variables. The reset of the prefix cache happens, raises or is
refused, and the round ends in the same way; without `reset_prefix_cache` the round ends
in the step that leaves its loop, with nothing to wait behind its last forward.

`MCMining` explores overlapping operators with one chat and a serial operator with two
chats (`side`) in one run; the two together would be out of TLC's reach. Overlapping
operators have no chat where the engine client has no `reset_prefix_cache`, and a call is
taken by the first handler if it is free, since handlers are interchangeable.

### Reservation

| Model | Code |
|---|---|
| `fifo` | `_poc_reservation_lock`: holder and waiters |
| `pc`, `left`, `esc`, `lease`, `att` | the coroutine in `poc_reservation` and its chunk loop |
| `writes` | blocks of a forward that the engine has not yet executed |
| `owner`, `cached`, `bad` | BlockPool: owner of a block; its hash serves prefix hits; its bytes are wrong |
| `available`, `capable` | `_borrow_available`; whether the configuration can lend at all |
| `Call` ... `Aborts` | lock, probe, `_borrow_with_retry`, `reserve_poc_blocks` |
| `Drains`, `Forwards`, `EngineForwards`, `ForwardDone`, `Leaves` | chunks: `_execute_poc_forward_rpc` under `/generate` or `_process_job` |
| `EngineReturns`, `ReturnFails`, `Resets` | the `finally`: `_return_lease_with_retry`, `reset_prefix_cache_after_inplace_poc` |
| `Cancelled...` | CancelledError of `/stop` at each of the worker's awaits |

Abstractions: a chat holds one block; `abort_all_requests` is one step here, which any of
the requests in flight may survive (it is taken apart in `MiningRound`); a reset happens,
raises or is refused, and one that is missing counts as one that raises; mining is its
effect on the pool; a return either takes effect and is reported, or does neither.

### JobService and GenerateQueue

`JobService` says what clients may rely on: `status`, `load` and the `line` of jobs
that have not ended, served in order, one at a time, bounded by `MaxNonces`.
`GenerateQueue` is the code:

| Model | Code |
|---|---|
| `inst`, `made` | `_queue_instance`; the objects created so far |
| `queue`, `nonces`, `result`, `stopped`, `worker`, `cbq` | fields of each `GenerateQueue` |
| `wpc`, `home`, `job`, `cancel` | worker tasks, `_worker_loop` and `_process_job` |
| `spc`, `target`, `awaited` | where each `/stop` is suspended in `clear_queue` / `stop_worker` |
| `Post`, `Look` | POST with `wait=false`, GET |
| `Begins` ... `Dies` | the worker |
| `StopEndsRound`, `StopClears`, `StopJoined`, `StopEnds` | `/stop` |

The refinement mapping reads `status` off the record in the current instance (404 is
"forgotten") and `line` off the worker's job followed by the queue. It holds while
calls wait for a `/stop` in progress (`Overlaps = FALSE`).

A `/stop` that was woken runs before any later step of a worker (`Settled`), as in the
event loop's queue of ready callbacks, while a call may slip in between. The time to
live of a record is any time after its job has ended.

### KvLayout, Verdict, NoncePartition

Pure operators. `KvLayout` has both ends of a lease: `Stripe` and `Borrow` are the engine's
(`_compat/v0_25.py` 409-441), `Fits`, `BorrowedLayout` and `InplaceLayout` the worker's.
A layout is a pair of functions, slot of (sequence, token) and table of (sequence,
kernel block); `Injective`, `ReadsBack`, `Written`, `Named` say what attention needs of
it. `Verdict` has the two filters of lost rows (`Artifacts`), the union over ranks
(`Union`), the artifact that `decode_vector` raises on (`Undecodable`), the comparison of
the others (`Differs`, `Mismatches`) and the test (`Fraud`).
`NoncePartition` is `NonceIterator`.

### WorkerForward

| Model | Code |
|---|---|
| `cfg` | the deployment: shape, KV groups, pool, requests; chosen once |
| `req`, `verdict`, `sent` | the `/generate` request being served, its answer, the RPCs made |
| `rank[r].pc`, `.at`, `.args` | where rank `r` is in `execute_poc_forward`, in which call, with what arguments (its own or the broadcast's) |
| `rank[r].data`, `.arts` | hidden states of the call, kept until the next one; its answer |
| `rank[r].obj`, `.regs` | `worker._poc_layer_hooks`: hash and age of the object; the hooks that are registered on the layers |
| `rank[r].flag`, `.open` | `_poc_forward_active_flag`; MoE workspace unlocked |
| `joined`, `mail`, `chan` | barriers and collectives entered; broadcasts; pipeline sends |
| `broken` | history of faults |
| `Begins`, `Continue`, `ChunkAnswered`, `ChunkFails` | `generate`, lines 671-731; its verdict or exception is `Judged` |
| `Starts`, `Broadcasts`, `Receives`, `Ready` | unlock, barrier, broadcast, barrier, synchronize |
| `Prepares`, `HooksFail`, `PrepareRaises` | hooks, metadata, inputs |
| `TakesTensors`, `Reduces`, `ModelRaises`, `Computes`, `SendReturns` | receive, model, send |
| `Posts`, `PostRaises`, `Closes` | artifacts; the re-lock and the answer |

A vector is a record of what it was computed from: hash of the embeddings, row, whether
every layer of every rank was reflected once for the right hash (`good`), hash and nonce
of the final rotation. Two vectors are close when these are equal.

Abstractions. The collectives of all layers are one. The barrier before the broadcast and
the broadcast itself are in the order of the code, but a rank that waits in a collective
of the GPU group waits there for its own stage's ranks only. `torch.cuda.synchronize`
waits for what the rank has sent before. Requests come one at a time, which is what
`poc_reservation` guarantees (`Reservation!OneAtATime`); mining makes the same calls and
is left out, and so is the all-gather inside `recv_tensor_dict`, which meets after the
receive and before the model. An artifact whose received vector is an empty string is never
charged, as the code has it (`validation.py` 32); one that cannot be decoded ends the
request, or fails the queued job, with the exception (`validation.py` 36).

### MiningStream

| Model | Code |
|---|---|
| `taken`, `pending`, `asked` | `_current_x`; `pending_nonces`; the nonces of the forward in progress |
| `gen`, `stopping` | the generation task; its stop event and cancel, which `/stop` sets together |
| `buffer`, `payload`, `attempt`, `sender` | `_buffer`, `_pending_payload`, `retry_attempt`, the task of `CallbackSender.run` |
| `computed`, `mined`, `received`, `overflowed`, `abandoned` | history |
| `Asks`, `Returns`, `TimesOut`, `Crashes`, `GenCancelled` | `_generation_loop` |
| `Posts`, `Answered`, `WakesUp`, `SenderExits`, `SenderCancelled` | `run` and `_send_callback` |
| `Stop`, `Clears` | `_cancel_poc_tasks` |

`MiningRound` has the life of these two tasks among operators; this module has what they
carry, for one round. The interval between two posts only delays them and is left out. A
post reaches the orchestrator or not, and its answer is lost or not.

### JobCallbacks

| Model | Code |
|---|---|
| `inst`, `queues` | `_queue_instance`; of each `GenerateQueue` the stop event, the worker task, the callback queue it holds |
| `workers` | worker tasks: their queue, their cancel |
| `single`, `objs` | `_callback_queue`; of each `CallbackQueue` the stop event it was made with, deque, loop, session, `_active_tasks` |
| `job` | the callback of each job: new, queued, waiting for the semaphore, posting, backing off, over |
| `stop` | where each `/stop` is in `clear_queue`, `stop_worker`, `CallbackQueue.stop` |
| `Post`, `WorkerBegins`, `Finishes`, `WorkerEnds` | `ensure_worker_running`, `_worker_loop`, `_enqueue_callback` |
| `LoopPops`, `LoopEnds`, `Tries`, `PostEnds` | the loop and the tasks |
| `StopBegins` ... `StopLeaves` | `/stop`, which calls `CallbackQueue.stop` twice |

The part of `/stop` between two awaits is cut into steps so that the code of `stop()` is
written once; nobody else moves between them (`Free`). `GenerateQueue` treats a callback
queue as something that exists; here a worker is something that finishes jobs. A task
behind the semaphore is taken in any order.

`MCDelivery` explores `MiningStream` and `JobCallbacks` in one run: they share no state,
so a behaviour takes one of the two (`path`) and their state spaces add up.

## 4. Runs

`tlc -workers 2 -config X.cfg M`, here in this directory.

| Run (cfg) | Question | Answer |
|---|---|---|
| `MiningRound.cfg` | Two operators, four calls that may overlap, two rounds, one chat, crashes and timeouts: does the gate ever latch, does `/stop` ever hang or answer before its round is over? Does an operator who waits for each answer get a covered round and no orphan? | `GateOwned`, `StopReturns`, `StopLeavesNoRound`; `SerialGateCoversMining`, `NoOrphan` hold |
| | The other side of the run: one operator and two chats that slip past the gate | each shares at most one forward, unless its abort failed; the prefix cache is clean at the hand-over, unless the reset did not happen or was cut short: `SlipsAtMostOnce`, `NoPoisonedHandover` hold |
| `MiningRoundOverlap.cfg` | Is the gate closed whenever a round mines, with overlapping calls? | no: finding 1 |
| `MiningRoundAlone.cfg` | Do forwards run alone on the GPU? | no: finding 2 |
| `MiningRoundStop.cfg` | Is `/stop` idempotent after a crash? | no: finding 3 |
| `Reservation.cfg` | Worker and `wait=true` request, a pool that one lease takes whole, a chat, a round, refusals, failures (of aborts and resets, too), a cancel | leases are held, one validation at a time, leaks and poison have named causes, no chat is hit twice unless an abort in between failed to end it, every job ends |
| `ReservationLeak.cfg` | Is the return of blocks structurally guaranteed? | no: finding 4 |
| `GenerateQueue.cfg` | Three jobs, two `/stop`s, one round; calls wait for `/stop` | the refinement, the exact count, one worker, every job answered or cleared |
| `GenerateQueueOverlap.cfg` | Two overlapping `/stop`s, calls at any time | `/stop` still returns |
| `GenerateQueueLost.cfg` | Can an accepted job always be looked up? | no: finding 5 |
| `WorkerForward.cfg` | Eight deployments, two or three calls, up to two faults | the same call on all ranks of a stage, slots in the lease, same bits with and without one, verdicts right but for two skews and given only where every computed artifact could be decoded, worker clean between calls, ranks never wait in a circle and every one answers unless one raised before or in its model |
| `Delivery.cfg` | A round with timeouts, lost posts and answers, a crash, a `/stop`; two jobs' callbacks with two workers and two `/stop`s | no nonce skipped, artifacts in order and accounted for, `/stop` leaves no loop, task, session or singleton, all callbacks and every `/stop` end |
| `DeliveryGivesUp.cfg` | Are posts of a round retried until a stop? | no: finding 6 |

Bounds. Two operators and two rounds are the least with which an old round can meet a
new one; four calls let both operators start and stop. Two blocks, both in place and
both needed for a lease, make every competition for the pool happen: lease against
chat, against leak, against the other validator; two chunks put a step between two
forwards; two return attempts give a first and a last failure. Three jobs of one or
two nonces with a cap of three meet the cap exactly and by excess, and leave a job
behind a running one; two `/stop`s need three instances and three workers. Of the
deployments each is the least for its question: two ranks for barrier and broadcast, two
stages for send and receive, two by two for both; groups with blocks of 2 split into 1 and
of 1 next to each other, tokens 3, so that the last block of a sequence is partly used; two
hashes, so that hooks are replaced; two layers, so that a constructor can fail between
them; a second and third call after a fault. Batches of two against a cap of three make the
buffer overflow in the middle of a batch; two attempts give a first and a last failure;
six nonces are three batches, one to be retried, one to be buffered, one to overflow. One
place in the deque and one inside the semaphore, with two callbacks, make both full; two
workers and two `/stop`s allow a `POST` or a `/stop` in the middle of a `/stop`. Runs check
no deadlock: all these systems may rest when nobody calls.

Fairness. Every coroutine that can run is run (the event loop) and the engine answers:
weak fairness of the resumptions, the worker's steps and the engine's. Clients and
operators owe nothing, with two exceptions without which nothing could end: a round
is ended by somebody (`MiningEnds`, `StopEndsRound`). The borrow deadline has strong
fairness, since polls and deadline alternate: a clock that moves reaches it. A
job ends while no round is active, which is what `Reservation!JobsEnd` shows. A rank that
can go on does; a request to the workers ends by their answers or its timeout. Posts are
answered or time out (`aiohttp`, 10 s); orchestrator, jobs and `/stop` owe nothing.

### Observations

Not findings, since no document says otherwise; the properties name them as exceptions.

- `_ensure_layer_hooks` detaches the old hooks before the constructor of the new ones
  has succeeded. If it raises after some layers, the worker keeps the detached object:
  a later request with its hash finds the hooks "installed" and computes without them, and
  the partly registered ones reflect layers of every later forward. Artifacts are then
  silently wrong and an honest miner is charged (`Skewed`).
- Where a pipeline send returns before it is received, a stage that raises before its
  receive leaves the tensors of that call to its next one (`Skewed`); where it waits, the
  sender waits instead (`OutOfStep`).
- After a crash, `/stop` raises before it clears the sender: what it held is never sent
  (`LeftBehind`).
- The reset after a round is best-effort (`reservation.py` 237-277). If it raises, or a
  lease holds blocks, the gate opens on a poisoned prefix cache (`missed`). If the engine
  client has none, there is nothing to wait behind the last forward either: a cancelled
  round opens the gate, and `/stop` answers, with its forward still in the engine
  (`resettable` in `StopLeavesNoRound` and `GateCoversMining`).
- Aborts are best-effort, too: a request whose abort fails runs on and is overwritten by
  every later forward without a lease (`"stuck"` in `MiningRound`, `hits` in `Reservation`).
- One artifact that is not padded as base64 is, or not a whole number of FP16 words, raises
  in `decode_vector` and ends its whole request without a verdict: neither it nor any other
  artifact of the request is charged (`Undecodable`, `CheatsCharged`). One of the wrong
  length or with a value that is not finite is charged like a wrong one.
- A `POST` or a second `/stop` in the middle of a `/stop` can leave a callback loop, a
  session or a task behind (`overlapped` in `StopLeavesNothing` and `SessionKept`).

### Findings

1. The gate is called "the single source of truth" (`poc/routes.py:522`) and start and
   stop are said to be serialised (`entrypoint/gating.py:39`); they are not, and a
   `/stop` that overlaps an `/init/generate` leaves a round mining with chat admitted.
2. "PoC forwards run on an exclusively-owned GPU" (`routes.py:544-546`): a request
   that passed the gate before it closed shares one forward.
3. `/stop` is "Idempotent" (`src/README.md:199`): after a crash of the generation
   task the first `/stop` fails with the crash, without draining the queue.
4. "Block return is structurally guaranteed" (`reservation.py:194`): a worker
   cancelled while its borrow is in flight leaks the lease for the engine's lifetime.
5. A job answered "queued" can be looked up (`src/README.md:180-181`): one accepted
   while a `/stop` is at work vanishes with the instance.
6. "retry-until-stop" (`callbacks.py:1`, `callbacks.py:63`): the sender drops a payload after
   `POC_CALLBACK_MAX_RETRIES` posts in the middle of a round (101-107). `StreamFlushed`,
   `PostsOrdered` and `ArtifactsAccounted` speak of the code, for which the last attempt is
   an end like an answer or a `/stop`.

## 5. Proofs

`tlapm M.tla`. All theorems hold for every value of the constants that satisfies the
named assumptions; these only say that identities are distinct and bounds are
numbers.

`MiningRound_proofs`

- `TypeCorrect`: `Spec => []TypeOK`. `TypeOK` is not inductive: `InitSpawns` stores
  `rnd[h]` in `entry`, which must then be a round. `RoundKnown` says so, and that no
  two inits create the same round and that a forward in the engine has a task that
  awaits it or will reset the cache after it, unless there is no reset to wait for.
- `GateNeverLatches`: `Spec => []GateOwned`, inductive given those. It needs no
  assumption about the operators.
- `SerialOperator`: `Spec => [](SerialGateCoversMining /\ NoOrphan)`. The invariant `Serial` is what serialisation means for the code:
  at most one request is suspended (`OneAtATime`); while one is, `_poc_tasks` is empty
  (`EntryTaken`); a round that runs is the stored one, or the suspended `/stop` waits
  for it, and the gate is on (`RunningKnown`); likewise for callback loops
  (`CallbackKnown`). A call that arrives while nothing is suspended keeps it, and a
  call that arrives otherwise sets `overlapped`.
- `NothingOrphaned`: the second part of `SerialOperator`.
- `StopIsComplete`: `Spec => []StopLeavesNoRound`, for any overlap of operators. `StopInv` says
  what a request that is past its wait knows: a round whose task has ended, and in
  "clearing" one without a callback loop; an idle request knows none. The end of a task is
  final (`EndIsFinal`), and `RoundKnown` has no forward of an ended task in the engine if
  the engine client has a reset.
- `StopClosesIn`: what of `StopReturns` is not fairness. A waiting `/stop` has cancelled its
  round (`Waits`), and such a round issues no forward and goes only towards its end, in at
  most two steps (`Closes`, by the rank `StepsLeft`).
- `CleanHandover`: `Spec => []NoPoisonedHandover`, from `DirtyOwned`: a dirty cache has a
  round in or before its reset, or an interrupted round (`MustReset`), or the reset behind
  the last forward did not happen (`missed`).
- `OneSlip`: `Spec => SlipsAtMostOnce`, an action property. `SlipInv` says that the chats
  beside the forward have been seen by the engine, and that while a round aborts, each one
  that still runs is on its list, so that the next forward finds none of them.

`Reservation_proofs`

- `Invariance`: `Spec => []IInv`. `IInv` is `TypeOK`, `LeaseHeld`, `LeakExplained`,
  `HitOnce` and `PoisonExplained` with what makes them inductive: whoever is past the lock
  is at its head (`Locked`); no count is at its end where the next step takes one more
  (`Counted`); leases and pending forwards exist only in the states of a job between
  borrow and return (`LeaseScope`), and there is something to return in those that return
  (`Returning`); a running chat that the next forward without a lease will find has not
  been overwritten since an abort failed to end it (`Unhurt`, `ChatBlocks`, `NewUnhurt`;
  `AbortLeaves` says what an abort leaves behind). `LeaseHeld` alone is not
  inductive: a grant replaces `lease[v]`, so no forward of `v` may be pending, which is
  `LeaseScope`; `HitOnce` needs `Unhurt`, and `Unhurt` needs `Locked`, so that no second
  job forwards between an abort and the forward it precedes. Poison grows only by forwards
  of a round or of a job that owes a reset, since leased blocks are outside the cache
  (`LeaseHeld`); a job stops owing only by a reset, or by a failure that is recorded.
- `TypeCorrect`, `LeasesHeld`, `Serialized`, `LeaksExplained`, `OneHit`, `PoisonsExplained`:
  one line each from `IInv`, for the invariants of `Reservation.cfg`.

`GenerateQueue_proofs`

- `TypeCorrect`: `Spec => []TypeOK`, and with it the cap on the queued nonces, for any
  overlap of calls. It needs `Employed`: a worker that runs has an instance, one in a job
  has the job, a `/stop` that waits knows for whom.
- `QueueServed`: `Overlaps = FALSE` gives `Spec => []Served`. `Served` is not inductive:
  that a worker which leaves its loop leaves an empty queue behind depends on who set its
  stop event. `ServeInv` adds that the stop event is set, and a worker is cancelled, only
  while a `/stop` waits (`StopWaits`, `Cancels`), that there is one such `/stop` and what
  it cleared stays clear (`OneStop`, `Cleared`), and that new instances and workers have
  not been used (`Created`). A step of a worker enters the proof only by its `Effect`.
- `Refinement`: `Overlaps = FALSE` gives `Spec => ImplementsJobService`: the queue implements
  `JobService`, step by step. `RecordInv` says that instances which are not the current one
  are empty (`Emptied`), that records are those of accepted jobs (`Known`), that a queue
  holds a job once and as queued (`Marked`), and that the job of a worker is running unless
  a `/stop` has cleared it (`Works`). Every action maps to one of `JobService` or to a
  stutter; the end of a job that a `/stop` overtook is a stutter.
- `CountExact`: `Overlaps = FALSE` gives `Spec => []NonceAccounting`, on the same invariant
  and the sums of `Numbers`; an instance that was never made counts nothing (`Fresh`).

`Numbers`: arithmetic of `\div` and `%` (`DivMod`, `MixedRadix`), sums over sequences, and
induction with a set in place of a predicate (`LeastElement`, `Induct`), which is how
recursive functions are reasoned about here. `KvLayout_proofs`, from it, for all sizes:

- `BorrowedSound`: a lease of distinct blocks that passes the guards gives a layout that is
  injective, reads back, and stays in the lease, in its slots and in the blocks it names;
- `InplaceSound`: the same for blocks 0..N;
- `LeaseFits`: a lease sized by the engine passes the guards of every group.

`WorkerForward_proofs`, for any deployment with `ConfigAssumption`

- `Invariance`: `Spec => []ForwardInv`. A rank's call is the one at its place in `sent`,
  up to the arguments that the driver broadcasts. That nobody mistakes one meeting for
  another is arithmetic: a rank has entered `2 * at` barriers, one fewer while it waits in
  the first, so peers that have met are in the same call; the mail of a rank is empty or
  exactly the call it is about to receive; a channel has room for one. `Leases` says that
  the lease of every call was sized by the engine for the largest chunk.
- `TypeCorrect`, `LeaseKept` (`LeaseOnly`, by `BorrowedSound` and `InplaceSound`),
  `StagesAgree`, `BitsKept`, `WorkerClean`: the invariants of `WorkerForward.cfg`.
- `GuardsPass`: the guards of `_borrowed_layout` never fire for a lease that the engine
  sized; `PrepareRaises` is then always a fault.
- `CheatsAreCharged` (`CheatsCharged`) from `ChargeInv`, with or without a skew. What a
  rank answers was made from its data in the call it is in (`Answers`), that call is a
  chunk of the request (`Asked`), and what the route has counted has one artifact at least
  for each nonce that was seen, and one at most for each that was sent (`Tally`). Every one
  bears the hash of the request as that of its final rotation, so a submitted artifact
  which bears another differs from it. A request with an artifact that cannot be decoded
  gets no verdict, so `CheatsCharged` also says that there was none. What `Union` and `Mismatches` return is proved of
  the recursive functions behind them (`UnionIs`, `MismatchesAre`).
- `HonestAreCleared` (`HonestCleared`) from `StraightInv`, which holds unless ranks are
  skewed. `HonestCleared` speaks of the end of a request only; what makes it so is behind
  it, stage by stage. The hooks on the layers are those of the worker's object and of the
  call that computes (`Hooks`). A rank is ahead of its peers by one collective at most, and
  a peer that has joined that one still has the hooks of the same call (`Collective`), so
  every layer of every rank is reflected once. The first stage has the hidden states of its
  call, and what a rank receives is what its predecessor computed with: a channel holds
  tensors of the call that its reader has yet to take, unless sends return at once and the
  reader raised, which is the skew (`Flow`, an `Edge` for each two neighbours). When every
  rank has answered without an exception, induction over the stages gives each the hidden
  states of the call (`AllSame`); what the route counts is then what an honest miner has
  (`Upright`).
- `NeverStuck` (`NobodyStuck`): no circle of ranks that wait, from `StepInv`, which holds unless
  one of several ranks has raised before or in its model. It says that a rank has entered
  a collective of the model in every call so far (`Level`) and that what it has sent is what
  its successor has taken and what is on its way, in the shape of its call (`Carried`,
  `Shapes`), so that no model raises because of another rank. Were everybody blocked, take
  the least call that a rank is in: nobody in it is at a barrier (`NoneAtBarriers`), so one
  waits to receive (`SomeReceives`), and then so does one in an earlier stage
  (`SomeEarlier`), down to the first stage, which receives nothing.
- `RanksAdvance`: every step of a rank takes it on, and there is a bound on how far. With
  `NeverStuck` this is `RanksReturn` for every deployment, up to the step from weak fairness
  to "goes on", which is liveness and stays with TLC.

`MiningStream_proofs`

- `Disjoint` and `Complete`: the binding contract of `routes.py` 156: no nonce belongs to
  two (node, group, position), each belongs to one.
- `NothingSkipped` and `NothingTwice` from `StreamInv`: what has been computed is the
  beginning of the share, and what is asked for or pending is exactly the next batch.
  `NoNonceSkipped` alone only counts and does not say which batch is pending.
- `StreamTypeCorrect` (`StreamTypeOK`): the cap on what is held, at any time.
- `NothingVanishes` and `PostsInOrder` (`ArtifactsAccounted` with its part
  `OldestOverflow`, `PostsOrdered`) from `ArtifactsInv`: an artifact is held by the buffer
  or the payload, or is in a history variable (`Held`); what was received comes before the
  payload, the payload before the buffer, the buffer before the next batch (`Ordered`); an
  attempt makes one copy at most (`Counted`). What a flush of the buffer contains is a
  recursive function of it (`RowsIs`).

`JobCallbacks_proofs`

- `TypeCorrect` (`JobTypeOK`): references, and the bounds of the deques, the semaphore and
  the attempts, for any overlap of calls.
- `CallbacksKept` and `NothingLeft` (`CallbacksPlaced`; `StopLeavesNothing` with its part
  `SessionKept`) from `DeliveryInv`. That a deque holds what is queued at it holds for
  any overlap; the rest speaks of behaviours in which no call overlapped a `/stop`. `Alone`
  says what holds there: one `/stop` at a time (`OneStop`), a worker that runs is the
  current queue's (`Employed`), tasks and loops belong to the current callback queue
  (`Tasks`, `Loops`), it has a session while they run (`Opened`), and after each part of
  `/stop` what that part has left (`Left`, `Closing`).

Only model-checked: liveness (`StopReturns`, `JobsEnd`, `JobsAnswered`, `RanksReturn`,
`StreamFlushed`, `CallbacksEnd`, `CallbackStopReturns`), which is outside what the prover
does. Every invariant of a passing run has a theorem.

## 6. Not modelled

- GPU randomness: numeric code without state or control.
- Plugin registration and compat dispatch: run once per process; an unsupported vLLM is
  `~supported` in `MiningRound` and `~capable` in `Reservation`.
- API wiring, request models, configuration, lint, tests.
- In the engine methods: the roll-back for a null block, which is never in the free queue.
- `_compat/v0_23.py`: the same code for another minor version; `v0_25.py` is modelled.
- In the worker: mining calls between validations, the content of the numeric steps, the
  broadcast of the sizes that do not change.
- In the callbacks: the interval between two posts, the order of the semaphore's waiters.
- A second coroutine that probes for borrowing outside the lock (`/versions`).
- A return whose RPC took effect and was reported as failed.
- vLLM itself, beyond what the code here relies on: these definitions are marked
  external in `PROJECT.json`.
