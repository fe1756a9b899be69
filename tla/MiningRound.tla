---------------------------- MODULE MiningRound ----------------------------
(***************************************************************************)
(* The life of a mining round: POST /init/generate and POST /stop          *)
(* (poc/routes.py), the PoCGate and its middleware (entrypoint/gating.py), *)
(* the generation task, and the chat requests the gate keeps out.          *)
(*                                                                         *)
(* asyncio runs one coroutine at a time, so an action is the code between  *)
(* two awaits that can suspend.  An await that cannot suspend (a finished  *)
(* task, an empty abort list) does not end the action.  The completion of  *)
(* the generation task and its done callback are one action: the callback  *)
(* is queued by the completion itself, ahead of whoever awaits the task    *)
(* and of any request that has yet to be read from a socket.               *)
(*                                                                         *)
(* `overlapped' is a history variable: it records that an operator sent a  *)
(* call while another one was being served.  What the module promises to   *)
(* an operator who waits for each answer is conditional on ~overlapped.    *)
(***************************************************************************)
EXTENDS Naturals

CONSTANTS
    Handlers,   \* concurrent requests to /init/generate and /stop
    Rounds,     \* identities of generation tasks; as many inits get past 409
    Chats,      \* requests to /v1/chat/completions and /v1/completions
    MaxCalls,   \* bound: operator calls in a behaviour
    None        \* no round

ASSUME NoneAssumption == None \notin Rounds
ASSUME ProcAssumption == Handlers \intersect Rounds = {}
ASSUME CallsAssumption == MaxCalls \in Nat

VARIABLES
    supported,  \* the installed vLLM has a compat module; never changes
    resettable, \* the engine client has reset_prefix_cache; never changes
    gate,       \* PoCGate._active
    entry,      \* the generation task that _poc_tasks[app_id] refers to
    pc,         \* where each operator request is suspended
    rnd,        \* the round each operator request is creating or cancelling
    calls,      \* operator calls so far
    overlapped, \* history: a call arrived while another was being served
    stopFailed, \* history: some /stop was answered with an error
    task,       \* state of each generation task
    stop,       \* stop_event set and, once the task exists, cancel() called
    cb,         \* the round's CallbackSender.run task is alive
    snap,       \* request ids a caller of abort_all_requests has yet to abort
    chat,       \* state of each chat request
    fwd,        \* rounds with a forward queued or running in the engine
    beside,     \* chats in the engine when the round last issued a forward
    dirty,      \* cached prefix blocks hold mining's KV
    missed      \* history: a reset due since the last forward was issued did
                \* not happen

callVars == <<supported, resettable, calls, overlapped>>
opVars   == <<entry, pc, rnd, callVars, stopFailed>>
taskVars == <<task, stop, cb>>
engVars  == <<fwd, beside, dirty, missed>>
vars     == <<gate, opVars, taskVars, snap, chat, engVars>>

Procs == Handlers \union Rounds

\* States of a generation task from its creation to its completion.  The last
\* two are its `finally', reached by a cancel or by an exception.
Unfinished == {"ready", "abort", "rpc", "backoff", "reset", "resetFail"}

\* "interrupted": cancelled inside the `finally' of a crashed round.
Ended == {"done", "failed", "cancelled", "interrupted"}

\* "pending": the round of an init that has activated the gate and not yet
\* created the task; "void": the round of an init that failed there.
TaskStates == {"unborn", "pending", "void"} \union Unfinished \union Ended

HandlerStates ==
    {"idle", "aborting", "unwinding", "joining", "joiningCb", "clearing"}

\* "stuck": a live request whose abort call failed; "gone": answered, with a
\* 503, an abort or a completion.
ChatStates == {"new", "admitted", "live", "stuck", "gone"}

TypeOK ==
    /\ supported \in BOOLEAN /\ resettable \in BOOLEAN
    /\ gate \in BOOLEAN
    /\ entry \in Rounds \union {None}
    /\ pc \in [Handlers -> HandlerStates]
    /\ rnd \in [Handlers -> Rounds \union {None}]
    /\ calls \in 0..MaxCalls
    /\ overlapped \in BOOLEAN
    /\ stopFailed \in BOOLEAN
    /\ task \in [Rounds -> TaskStates]
    /\ stop \in [Rounds -> BOOLEAN]
    /\ cb \in [Rounds -> BOOLEAN]
    /\ snap \in [Procs -> SUBSET Chats]
    /\ chat \in [Chats -> ChatStates]
    /\ fwd \subseteq Rounds
    /\ beside \in [Rounds -> SUBSET Chats]
    /\ dirty \in BOOLEAN
    /\ missed \in BOOLEAN

Init ==
    /\ supported \in BOOLEAN /\ resettable \in BOOLEAN
    /\ gate = FALSE
    /\ entry = None
    /\ pc = [h \in Handlers |-> "idle"]
    /\ rnd = [h \in Handlers |-> None]
    /\ calls = 0
    /\ overlapped = FALSE
    /\ stopFailed = FALSE
    /\ task = [r \in Rounds |-> "unborn"]
    /\ stop = [r \in Rounds |-> FALSE]
    /\ cb = [r \in Rounds |-> FALSE]
    /\ snap = [p \in Procs |-> {}]
    /\ chat = [c \in Chats |-> "new"]
    /\ fwd = {}
    /\ beside = [r \in Rounds |-> {}]
    /\ dirty = FALSE
    /\ missed = FALSE

----------------------------------------------------------------------------
(* Chat requests: admission is one synchronous test of the gate, long      *)
(* before the engine client lists the request as in flight.                *)

Live == {c \in Chats : chat[c] \in {"live", "stuck"}}

Admit(c) ==
    /\ chat[c] = "new"
    /\ chat' = [chat EXCEPT ![c] = IF gate THEN "gone" ELSE "admitted"]
    /\ UNCHANGED <<gate, opVars, taskVars, snap, engVars>>

Register(c) ==
    /\ chat[c] = "admitted"
    /\ chat' = [chat EXCEPT ![c] = "live"]
    /\ UNCHANGED <<gate, opVars, taskVars, snap, engVars>>

Finish(c) ==
    /\ c \in Live
    /\ chat' = [chat EXCEPT ![c] = "gone"]
    /\ UNCHANGED <<gate, opVars, taskVars, snap, engVars>>

\* abort_all_requests, one await per id of its snapshot.  A failing abort is
\* logged and skipped, and the request it should have ended lives on.
AbortOne(p, c) ==
    /\ c \in snap[p]
    /\ snap' = [snap EXCEPT ![p] = @ \ {c}]
    /\ chat' = [chat EXCEPT ![c] = "gone"]
    /\ UNCHANGED <<gate, opVars, taskVars, engVars>>

\* The abort of one id raises; a list that cannot be had, or an engine client without
\* abort, is as if each of them did.
AbortFails(p, c) ==
    /\ c \in snap[p]
    /\ snap' = [snap EXCEPT ![p] = @ \ {c}]
    /\ chat' = [chat EXCEPT ![c] = IF c \in Live THEN "stuck" ELSE @]
    /\ UNCHANGED <<gate, opVars, taskVars, engVars>>

----------------------------------------------------------------------------
(* The operator's calls.                                                   *)

Active == entry # None /\ task[entry] \in Unfinished

\* A request is read from its socket and starts to run.
Arrives(h) ==
    /\ pc[h] = "idle"
    /\ calls < MaxCalls
    /\ calls' = calls + 1
    /\ UNCHANGED <<supported, resettable>>
    /\ overlapped' = (overlapped \/ \E g \in Handlers \ {h} : pc[g] # "idle")

\* The task that an init is about to create.
NewRound == CHOOSE r \in Rounds : task[r] = "unborn"

\* 409: a round is active.
InitConflict(h) ==
    /\ Arrives(h)
    /\ Active
    /\ UNCHANGED <<gate, entry, pc, rnd, stopFailed, taskVars, snap, chat, engVars>>

\* Mutant: the crash is raised before the stop event is set.
BugReraises(h) ==
    /\ Arrives(h)
    /\ entry # None /\ ~Active
    /\ entry' = None
    /\ UNCHANGED <<gate, pc, rnd, taskVars, snap, chat, engVars>>

\* The stored task crashed: _cancel_poc_tasks pops the entry, sets its stop
\* event, and then awaits the task, which raises the crash once more.
Reraises(h) ==
    /\ Arrives(h)
    /\ entry # None /\ ~Active
    /\ entry' = None
    /\ stop' = [stop EXCEPT ![entry] = TRUE]
    /\ UNCHANGED <<gate, pc, rnd, task, cb, snap, chat, engVars>>

InitReraises(h) ==
    /\ Reraises(h)
    /\ UNCHANGED stopFailed

\* The gate goes on, the callback loop is created if a url is given, and
\* abort_all_requests takes its snapshot.  With nothing in flight it does not
\* suspend, and the task is created in the same step.
InitBegins(h, r, url) ==
    /\ Arrives(h)
    /\ supported
    /\ entry = None
    /\ task[r] = "unborn"
    /\ gate' = TRUE
    /\ cb' = [cb EXCEPT ![r] = url]
    /\ snap' = [snap EXCEPT ![h] = Live]
    /\ IF Live = {}
         THEN /\ task' = [task EXCEPT ![r] = "ready"]
              /\ entry' = r
              /\ UNCHANGED <<pc, rnd>>
         ELSE /\ task' = [task EXCEPT ![r] = "pending"]
              /\ pc' = [pc EXCEPT ![h] = "aborting"]
              /\ rnd' = [rnd EXCEPT ![h] = r]
              /\ UNCHANGED entry
    /\ UNCHANGED <<stopFailed, stop, chat, engVars>>

\* Mutant: the exception leaves init with the gate on.
BugInitFails(h, r, url) ==
    /\ Arrives(h)
    /\ ~supported
    /\ entry = None
    /\ task[r] = "unborn"
    /\ gate' = TRUE
    /\ task' = [task EXCEPT ![r] = "void"]
    /\ UNCHANGED <<entry, pc, rnd, stopFailed, stop, cb, snap, chat, engVars>>

\* Under an unsupported vLLM the compat lookup raises.  Without a callback loop
\* the gate is switched off again at once; with one, init first waits for it to end.
InitFails(h, r, url) ==
    /\ Arrives(h)
    /\ ~supported
    /\ entry = None
    /\ task[r] = "unborn"
    /\ gate' = url
    /\ cb' = [cb EXCEPT ![r] = url]
    /\ stop' = [stop EXCEPT ![r] = url]
    /\ IF url
         THEN /\ task' = [task EXCEPT ![r] = "pending"]
              /\ pc' = [pc EXCEPT ![h] = "unwinding"]
              /\ rnd' = [rnd EXCEPT ![h] = r]
         ELSE /\ task' = [task EXCEPT ![r] = "void"]
              /\ UNCHANGED <<pc, rnd>>
    /\ UNCHANGED <<entry, stopFailed, snap, chat, engVars>>

\* Mutant: the request is stored where its task belongs.
BugStoresRequest(h) ==
    /\ pc[h] = "aborting"
    /\ snap[h] = {}
    /\ task' = [task EXCEPT ![rnd[h]] = "ready"]
    /\ entry' = h
    /\ pc' = [pc EXCEPT ![h] = "idle"]
    /\ rnd' = [rnd EXCEPT ![h] = None]
    /\ UNCHANGED <<gate, callVars, stopFailed, stop, cb, snap, chat, engVars>>

\* abort_all_requests has returned: create the task, register its done
\* callback, store the entry, answer.
InitSpawns(h) ==
    /\ pc[h] = "aborting"
    /\ snap[h] = {}
    /\ task' = [task EXCEPT ![rnd[h]] = "ready"]
    /\ entry' = rnd[h]
    /\ pc' = [pc EXCEPT ![h] = "idle"]
    /\ rnd' = [rnd EXCEPT ![h] = None]
    /\ UNCHANGED <<gate, callVars, stopFailed, stop, cb, snap, chat, engVars>>

\* The callback loop ended, or was cancelled after 5 s.
InitUnwound(h) ==
    /\ pc[h] = "unwinding"
    /\ cb' = [cb EXCEPT ![rnd[h]] = FALSE]
    /\ task' = [task EXCEPT ![rnd[h]] = "void"]
    /\ gate' = FALSE
    /\ pc' = [pc EXCEPT ![h] = "idle"]
    /\ rnd' = [rnd EXCEPT ![h] = None]
    /\ UNCHANGED <<entry, callVars, stopFailed, stop, snap, chat, engVars>>

StopNothing(h) ==
    /\ Arrives(h)
    /\ entry = None
    /\ pc' = [pc EXCEPT ![h] = "clearing"]
    /\ UNCHANGED <<gate, entry, rnd, stopFailed, taskVars, snap, chat, engVars>>

\* The crash reaches the caller: the queue is not cleared, the gate not touched.
StopReraises(h) ==
    /\ Reraises(h)
    /\ stopFailed' = TRUE

\* Mutant: the gate is switched off before the task is awaited.
BugStopCancels(h) ==
    /\ Arrives(h)
    /\ Active
    /\ entry' = None
    /\ stop' = [stop EXCEPT ![entry] = TRUE]
    /\ gate' = FALSE
    /\ pc' = [pc EXCEPT ![h] = "joining"]
    /\ rnd' = [rnd EXCEPT ![h] = entry]
    /\ UNCHANGED <<stopFailed, task, cb, snap, chat, engVars>>

StopCancels(h) ==
    /\ Arrives(h)
    /\ Active
    /\ entry' = None
    /\ stop' = [stop EXCEPT ![entry] = TRUE]
    /\ pc' = [pc EXCEPT ![h] = "joining"]
    /\ rnd' = [rnd EXCEPT ![h] = entry]
    /\ UNCHANGED <<gate, stopFailed, task, cb, snap, chat, engVars>>

\* `await gen_task' returned; the callback loop, if alive, is cancelled next.
StopJoined(h) ==
    /\ pc[h] = "joining"
    /\ task[rnd[h]] \in Ended
    /\ pc' = [pc EXCEPT ![h] = IF cb[rnd[h]] THEN "joiningCb" ELSE "clearing"]
    /\ UNCHANGED <<gate, entry, rnd, callVars, stopFailed, taskVars,
                   snap, chat, engVars>>

StopJoinedCb(h) ==
    /\ pc[h] = "joiningCb"
    /\ cb' = [cb EXCEPT ![rnd[h]] = FALSE]
    /\ pc' = [pc EXCEPT ![h] = "clearing"]
    /\ UNCHANGED <<gate, entry, rnd, callVars, stopFailed, task, stop,
                   snap, chat, engVars>>

\* clear_queue returned: switch the gate off and answer.
StopClears(h) ==
    /\ pc[h] = "clearing"
    /\ gate' = FALSE
    /\ pc' = [pc EXCEPT ![h] = "idle"]
    /\ rnd' = [rnd EXCEPT ![h] = None]
    /\ UNCHANGED <<entry, callVars, stopFailed, taskVars, snap, chat, engVars>>

\* CallbackSender.run sees the stop event.
CallbackExits(r) ==
    /\ cb[r] /\ stop[r]
    /\ cb' = [cb EXCEPT ![r] = FALSE]
    /\ UNCHANGED <<gate, opVars, task, stop, snap, chat, engVars>>
----------------------------------------------------------------------------
(* The generation task.  stop[r] stands for the stop event and the pending *)
(* cancel: whoever sets the one calls the other in the same step, and a    *)
(* task with a pending cancel takes no other step.                         *)

\* The RPC is issued; the engine runs forwards one at a time, in order.
Issue(r) ==
    /\ task' = [task EXCEPT ![r] = "rpc"]
    /\ fwd' = fwd \union {r}
    /\ beside' = [beside EXCEPT ![r] = Live]
    /\ missed' = FALSE

\* Mutant: no abort before the chunk.
BugBeginChunk(r) ==
    /\ ~stop[r]
    /\ Issue(r)
    /\ UNCHANGED <<gate, opVars, stop, cb, snap, chat, dirty>>

\* Loop top: choose the nonces, list the requests in flight; with none, the
\* RPC follows without a suspension.
BeginChunk(r) ==
    /\ ~stop[r]
    /\ snap' = [snap EXCEPT ![r] = Live]
    /\ IF Live = {}
         THEN Issue(r)
         ELSE /\ task' = [task EXCEPT ![r] = "abort"]
              /\ UNCHANGED <<fwd, beside, missed>>
    /\ UNCHANGED <<gate, opVars, stop, cb, chat, dirty>>

\* First chunk, or the retry of a chunk that timed out.
GenStarts(r) ==
    /\ task[r] \in {"ready", "backoff"}
    /\ BeginChunk(r)

GenForward(r) ==
    /\ task[r] = "abort"
    /\ snap[r] = {}
    /\ ~stop[r]
    /\ Issue(r)
    /\ UNCHANGED <<gate, opVars, stop, cb, snap, chat, dirty>>

\* The workers finish the forward: blocks 0..N were overwritten in place.
EngineDone(r) ==
    /\ r \in fwd
    /\ fwd' = fwd \ {r}
    /\ dirty' = TRUE
    /\ UNCHANGED <<gate, opVars, taskVars, snap, chat, beside, missed>>

\* The result arrives, is handed to the sender, and the loop goes round.
GenSucceeds(r) ==
    /\ task[r] = "rpc"
    /\ r \notin fwd
    /\ BeginChunk(r)

\* TimeoutError: the engine may still be running the forward.
GenTimesOut(r) ==
    /\ task[r] = "rpc"
    /\ r \in fwd
    /\ ~stop[r]
    /\ task' = [task EXCEPT ![r] = "backoff"]
    /\ UNCHANGED <<gate, opVars, stop, cb, snap, chat, engVars>>

\* The task ends as `end', and its done callback switches the gate off.
TaskEnds(r, end) ==
    /\ task' = [task EXCEPT ![r] = end]
    /\ gate' = FALSE
    /\ beside' = [beside EXCEPT ![r] = {}]

\* Into the `finally': to the reset of the prefix cache or, where the engine
\* client has none, to the end of the task without a suspension, whatever the
\* engine is still running.
Unwinds(r, reset, end) ==
    IF resettable
      THEN task' = [task EXCEPT ![r] = reset] /\ UNCHANGED <<gate, beside, missed>>
      ELSE TaskEnds(r, end) /\ missed' = TRUE

\* The RPC raises: the error leaves the loop through the `finally'.
GenCrashes(r) ==
    /\ task[r] = "rpc"
    /\ ~stop[r]
    /\ Unwinds(r, "resetFail", "failed")
    /\ fwd' = fwd \ {r}
    /\ dirty' = TRUE
    /\ UNCHANGED <<opVars, stop, cb, snap, chat>>

\* Mutant: the best-effort `except' around the pre-chunk abort swallows the
\* cancel, and with it the only thing that would end the loop.
BugGenCancelled(r) ==
    /\ stop[r]
    /\ task[r] \in {"rpc", "backoff"}
    /\ Unwinds(r, "reset", "done")
    /\ UNCHANGED <<opVars, stop, cb, snap, chat, fwd, dirty>>

\* CancelledError is thrown into the loop at its await.
GenCancelled(r) ==
    /\ stop[r]
    /\ task[r] \in {"abort", "rpc", "backoff"}
    /\ Unwinds(r, "reset", "done")
    /\ snap' = [snap EXCEPT ![r] = {}]
    /\ UNCHANGED <<opVars, stop, cb, chat, fwd, dirty>>

\* ... before the coroutine ran at all, or inside its `finally', where a reset
\* that was already sent may still be executed.
GenKilled(r) ==
    /\ stop[r]
    /\ \/ task[r] = "ready" /\ TaskEnds(r, "cancelled") /\ UNCHANGED dirty
       \/ task[r] = "resetFail" /\ TaskEnds(r, "interrupted") /\ dirty' \in {dirty, FALSE}
    /\ UNCHANGED <<opVars, stop, cb, snap, chat, fwd, missed>>

\* Mutant: no reset in the `finally'.
BugGenEnds(r) ==
    /\ \/ task[r] = "reset" /\ TaskEnds(r, "done")
       \/ task[r] = "resetFail" /\ TaskEnds(r, "failed")
    /\ UNCHANGED <<opVars, stop, cb, snap, chat, fwd, dirty, missed>>

\* The answer to the reset, behind the forwards issued before it.  A reset that
\* raises, or that the engine refuses twice because a lease holds blocks, is
\* logged, and the task ends as if it had been done.
GenEnds(r) ==
    /\ r \notin fwd
    /\ \/ task[r] = "reset" /\ TaskEnds(r, "done")
       \/ task[r] = "resetFail" /\ ~stop[r] /\ TaskEnds(r, "failed")
    /\ \/ dirty' = FALSE /\ missed' = FALSE
       \/ missed' = TRUE /\ UNCHANGED dirty
    /\ UNCHANGED <<opVars, stop, cb, snap, chat, fwd>>
----------------------------------------------------------------------------
InitCall(h) ==
    \/ InitConflict(h)
    \/ InitReraises(h)
    \/ /\ \E r \in Rounds : task[r] = "unborn"
       /\ \E url \in BOOLEAN : InitBegins(h, NewRound, url) \/ InitFails(h, NewRound, url)

StopCall(h) == StopNothing(h) \/ StopReraises(h) \/ StopCancels(h)

\* What a suspended operator request does when its await returns.
Resumes(h) ==
    \/ InitSpawns(h)
    \/ InitUnwound(h)
    \/ StopJoined(h)
    \/ StopJoinedCb(h)
    \/ StopClears(h)

Generation(r) ==
    \/ GenStarts(r) \/ GenForward(r) \/ GenSucceeds(r) \/ GenTimesOut(r)
    \/ GenCrashes(r) \/ GenCancelled(r) \/ GenKilled(r) \/ GenEnds(r)

ChatStep(c) == Admit(c) \/ Register(c) \/ Finish(c)

Aborting(p) == \E c \in Chats : AbortOne(p, c) \/ AbortFails(p, c)

Next ==
    \/ \E h \in Handlers : InitCall(h) \/ StopCall(h) \/ Resumes(h)
    \/ \E r \in Rounds : Generation(r) \/ EngineDone(r) \/ CallbackExits(r)
    \/ \E c \in Chats : ChatStep(c)
    \/ \E p \in Procs : Aborting(p)

Spec == Init /\ [][Next]_vars

\* The event loop runs every task that can run, and the engine answers every
\* call.  Nothing obliges an operator or a chat client to call.
Fairness ==
    /\ \A h \in Handlers : WF_vars(Resumes(h) \/ Aborting(h))
    /\ \A r \in Rounds : WF_vars(Generation(r) \/ Aborting(r)) /\ WF_vars(EngineDone(r))

FairSpec == Spec /\ Fairness

----------------------------------------------------------------------------
(* Properties.                                                             *)

Running(r) == task[r] \in Unfinished

Creating(h) == pc[h] \in {"aborting", "unwinding"}

(* The gate never latches: whenever chat is refused there is an init or a
   round, not yet finished, whose end switches the gate off -- for any number
   of concurrent operators, crashes and failing inits included
   (routes.py:524-528, gating.py:61). *)
GateOwned ==
    gate => (\E h \in Handlers : Creating(h)) \/ (\E r \in Rounds : Running(r))

(* While a round exists, from the creation of its task to the end of its
   prefix-cache reset, and while one of its forwards is in the engine, chat
   is refused (routes.py:519-523, ADR-0013: the gate is "the single source of
   truth"; gating.py:39-40: "the PoC router serialises start/stop").  Without a
   reset to wait for, a cancelled round leaves its forward behind. *)
GateCoversMining ==
    \A r \in Rounds : Running(r) \/ (resettable /\ r \in fwd) => gate

(* ... which the code keeps for an operator who waits for each answer. *)
SerialGateCoversMining == ~overlapped => GateCoversMining

(* Nothing is left to mine or to POST with nobody to stop it: _poc_tasks refers
   to the round, or the /stop that popped the entry still waits for it; and a
   callback loop that was not told to stop is that of the stored round or of
   an init that is under way (routes.py:310-334, 530-534). *)
NoOrphan ==
    ~overlapped =>
        \A r \in Rounds :
            /\ Running(r) =>
                  entry = r \/ \E h \in Handlers : pc[h] = "joining" /\ rnd[h] = r
            /\ cb[r] /\ ~stop[r] =>
                  entry = r \/ \E h \in Handlers : pc[h] = "aborting" /\ rnd[h] = r

(* When a /stop goes on to drain the queue and to answer, the round it cancelled
   is over, whatever other operators do: its task has ended, its callback loop is
   dead, and no forward of it is left in the engine.  The cancel returns from the
   RPC at once; only the reset queued behind it waits for the workers, if the engine
   client has one (routes.py:317-327, 449-453). *)
StopLeavesNoRound ==
    \A h \in Handlers : pc[h] = "clearing" /\ rnd[h] # None =>
        /\ task[rnd[h]] \in Ended
        /\ ~cb[rnd[h]]
        /\ resettable => rnd[h] \notin fwd

(* Chat is admitted to a prefix cache that mining overwrote only for a reason that is
   logged: the round asked for the reset after its last forward and did not get it, or
   a /stop cancelled a crashed round inside its `finally'.  No end of a round forgets
   the reset, or lets a forward follow it (routes.py:449-453, reservation.py:237-277). *)
NoPoisonedHandover ==
    ~overlapped /\ ~gate /\ dirty =>
        missed \/ \E r \in Rounds : task[r] = "interrupted"

(* A chat request that slipped past the gate shares the engine with at most
   one forward of a round: the abort before the next chunk ends it, unless
   that very abort failed (routes.py:78-88). *)
SlipsAtMostOnce ==
    [][\A r \in Rounds :
        r \in fwd' \ fwd \/ (task[r] # "rpc" /\ task'[r] = "rpc") =>
            \A c \in beside[r] \intersect beside'[r] : chat[c] = "stuck"]_vars

(* /stop always answers, whatever the round was doing when the cancel reached
   it and whatever other operators do. *)
StopReturns ==
    \A h \in Handlers : pc[h] = "joining" ~> pc[h] = "idle"

(* routes.py:544-546: "PoC forwards run on an exclusively-owned GPU" -- a chat
   that no abort has failed on shares no forward. *)
ForwardsRunAlone == \A r \in fwd : \A c \in beside[r] : chat[c] # "live"

(* README.md:199: /stop is "Idempotent". *)
StopSucceeds == ~stopFailed
============================================================================
