---------------------------- MODULE WorkerForward ----------------------------
(***************************************************************************)
(* One validation request after another, chunk by chunk, through the GPU   *)
(* workers: the route that sends a chunk to every rank, adds up the        *)
(* answers and judges them (poc/routes.py), the worker extension           *)
(* (worker/extension.py) and the forward itself (poc_model_runner.py) with *)
(* its layer hooks (layer_hooks.py), under tensor parallelism (the tp      *)
(* ranks of a stage meet in collectives) and pipeline parallelism (stage p *)
(* sends its hidden states to stage p + 1).                                *)
(*                                                                         *)
(* vLLM's side: a rank takes the calls in the order they were sent, and an *)
(* exception in one is its answer; ranks match collectives, and sends with *)
(* receives, by their order alone; a send returns when it has been         *)
(* received or, with cfg.eager, at once.                                   *)
(***************************************************************************)
EXTENDS KvLayout, Verdict, FiniteSets

CONSTANTS
    Configs,    \* deployments, see ConfigAssumption
    MaxRanks,   \* ranks of the largest of them
    Layers,     \* transformer layers of a stage
    Tolerated,  \* mismatches up to which the binomial test keeps quiet
    NoHash      \* not a block hash

\* A deployment: its shape, whether sends are eager and whether there is a MoE workspace;
\* per stage, groups of layers and KV tensors (scratch: its dtype and contiguity let a
\* forward borrow it; elems: its size); the requests it gets (a batch size below 1 fails
\* before the first chunk), the free queues a borrow may find; bounds on calls and faults.
ASSUME ConfigAssumption ==
    \A c \in Configs :
        /\ c.tp \in Nat \ {0} /\ c.pp \in Nat \ {0} /\ c.tp * c.pp <= MaxRanks
        /\ c.dp \in Nat \ {0} /\ c.eager \in BOOLEAN /\ c.moe \in BOOLEAN
        /\ c.groups \in [1..c.pp -> SUBSET [g : Nat \ {0}, m : Nat \ {0}]]
        /\ DOMAIN c.pool = 1..c.pp
        /\ \A p \in 1..c.pp :
              c.groups[p] # {} /\ \A grp \in c.groups[p] : grp.m % grp.g = 0
        /\ \A q \in c.requests :
              /\ q.nonces \in Seq(Range(q.nonces)) /\ q.batch \in Nat \ {0} /\ q.len \in Nat
              /\ q.hash # NoHash
        /\ \A free \in c.frees : free \in Seq(Nat) /\ IsInjective(free)
        /\ c.calls \in Nat /\ c.faults \in Nat
ASSUME NumbersAssumption == Layers \in Nat \ {0} /\ Tolerated \in Nat

VARIABLES
    cfg,        \* the deployment; never changes
    req,        \* the request being served
    verdict,    \* what the last one was answered
    sent,       \* the calls made to the workers, in order
    rank,       \* the state of each worker
    joined,     \* collectives each rank has entered, on the CPU and the GPU group
    mail,       \* broadcasts on their way to each rank
    chan,       \* hidden states on their way to each rank
    broken      \* history: faults, as records [kind, rank, call]

vars == <<cfg, req, verdict, sent, rank, joined, mail, chan, broken>>

Ranks == 1..(cfg.tp * cfg.pp)
Stage(r) == ((r - 1) \div cfg.tp) + 1
Peers(r) == {q \in Ranks : Stage(q) = Stage(r)}
IsDriver(r) == (r - 1) % cfg.tp = 0
IsFirst(r) == Stage(r) = 1
IsLast(r) == Stage(r) = cfg.pp

NoCall == [hash |-> NoHash, nonces |-> <<>>, len |-> 0, lease |-> <<>>, stripe |-> 0]
NoData == [hash |-> NoHash, nonces |-> <<>>, len |-> 0, good |-> TRUE]
NoRequest == [q |-> NoHash, pos |-> 0]

Init ==
    /\ cfg \in Configs
    /\ req = NoRequest
    /\ verdict = [kind |-> "none"]
    /\ sent = <<>>
    /\ rank = [r \in Ranks |->
                  [pc |-> "idle", at |-> 0, args |-> NoCall,
                   obj |-> [hash |-> NoHash, call |-> 0], regs |-> {},
                   flag |-> FALSE, open |-> FALSE, embeds |-> "none",
                   data |-> NoData, ok |-> TRUE, arts |-> <<>>]]
    /\ joined = [r \in Ranks |-> [cpu |-> 0, gpu |-> 0]]
    /\ mail = [r \in Ranks |-> <<>>]
    /\ chan = [r \in Ranks |-> <<>>]
    /\ broken = {}

----------------------------------------------------------------------------
(* The route.                                                              *)

AllGroups == UNION {cfg.groups[p] : p \in 1..cfg.pp}

BugLends == cfg.dp = 1

\* poc_validation_available: no rank could use KV memory as scratch, no data parallelism.
Lends == cfg.dp = 1 /\ \A p \in 1..cfg.pp : \A kv \in cfg.pool[p] : ~kv.scratch

\* run_validation, once every chunk is computed; nothing catches what it raises.
Judged(new) ==
    LET mismatch == Mismatches(new.arts, new.q.validation) IN
    IF Undecodable(new.arts, new.q.validation) THEN [kind |-> "error"]
    ELSE [kind |-> "done", q |-> new.q, seen |-> new.seen, mismatch |-> mismatch,
          fraud |-> Fraud(Len(mismatch), Len(new.q.nonces), Tolerated)]

\* The chunk that comes next, or the end of the request after the last one.
Continue(new) ==
    LET q == new.q IN
    IF new.pos < Len(q.nonces)
    THEN /\ req' = new
         /\ sent' = Append(sent,
                [hash |-> q.hash, len |-> q.len, lease |-> new.lease,
                 stripe |-> IF new.lease = <<>> THEN 0 ELSE Stripe(AllGroups, q.len),
                 nonces |-> SubSeq(q.nonces, new.pos + 1, Min({new.pos + q.batch, Len(q.nonces)}))])
         /\ UNCHANGED verdict
    ELSE /\ req' = NoRequest
         /\ verdict' = Judged(new)
         /\ UNCHANGED sent

\* A request: a lease for batch_size sequences, or none.
Begins ==
    /\ req = NoRequest
    /\ \E q \in cfg.requests, free \in cfg.frees :
          /\ Len(sent) + Ceil(Len(q.nonces), q.batch) <= cfg.calls
          /\ Continue([q |-> q, pos |-> 0, arts |-> <<>>, seen |-> {},
                       lease |-> IF Lends THEN Borrow(q.batch, q.len, AllGroups, free)
                                 ELSE <<>>])
    /\ UNCHANGED <<cfg, rank, joined, mail, chan, broken>>

Answered(r) == rank[r].pc = "idle" /\ rank[r].at = Len(sent)
AllWell == \A r \in Ranks : Answered(r) /\ rank[r].ok

\* Every rank has answered without an exception.
ChunkAnswered ==
    /\ req # NoRequest /\ AllWell
    /\ LET answers == [r \in Ranks |-> rank[r].arts]
           new == [req EXCEPT !.pos = @ + req.q.batch,
                              !.arts = @ \o Union(answers),
                              !.seen = @ \union {a.nonce : a \in Range(FlattenSeq(answers))}]
       IN  Continue(new)
    /\ UNCHANGED <<cfg, rank, joined, mail, chan, broken>>

\* A timeout, or a rank's exception: the request fails, the ranks go on.
ChunkFails ==
    /\ req # NoRequest /\ ~AllWell
    /\ req' = NoRequest
    /\ verdict' = [kind |-> "error"]
    /\ UNCHANGED <<cfg, sent, rank, joined, mail, chan, broken>>

----------------------------------------------------------------------------
(* A rank.                                                                 *)

Groups(r) == cfg.groups[Stage(r)]
Becomes(r, new) == rank' = [rank EXCEPT ![r] = new]

\* Every rank of the stage has entered the collective that r waits in.
Met(r, group) == \A q \in Peers(r) : joined[q][group] >= joined[r][group]
Joins(r, group) == joined' = IF cfg.tp > 1 THEN [joined EXCEPT ![r][group] = @ + 1] ELSE joined

Breaks(r, kind) ==
    /\ Cardinality(broken) < cfg.faults
    /\ broken' = broken \union {[kind |-> kind, rank |-> r, call |-> rank[r].at]}

BugRaised(me) == [me EXCEPT !.pc = "close", !.ok = FALSE]

\* An exception: it clears the hook flag and becomes the answer.
Raised(me) == [me EXCEPT !.pc = "close", !.flag = FALSE, !.ok = FALSE]

\* A call: the MoE workspace is unlocked, the stage meets at the first barrier.
Starts(r) ==
    /\ rank[r].pc = "idle" /\ rank[r].at < Len(sent)
    /\ Becomes(r, [rank[r] EXCEPT !.pc = IF cfg.tp > 1 THEN "enter" ELSE "ready",
                                  !.at = @ + 1, !.args = sent[rank[r].at + 1],
                                  !.open = cfg.moe, !.data = NoData, !.ok = TRUE,
                                  !.arts = <<>>])
    /\ Joins(r, "cpu")
    /\ UNCHANGED <<cfg, req, verdict, sent, mail, chan, broken>>

BugBroadcasts(r) ==
    /\ rank[r].pc = "enter" /\ IsDriver(r) /\ Met(r, "cpu")
    /\ mail' = [q \in Ranks |-> IF q \in Peers(r) \ {r}
                                THEN Append(mail[q], [rank[r].args EXCEPT !.lease = <<>>])
                                ELSE mail[q]]
    /\ Becomes(r, [rank[r] EXCEPT !.pc = "ready"])
    /\ Joins(r, "cpu")
    /\ UNCHANGED <<cfg, req, verdict, sent, chan, broken>>

\* The driver broadcasts the call and goes to the second barrier.
Broadcasts(r) ==
    /\ rank[r].pc = "enter" /\ IsDriver(r) /\ Met(r, "cpu")
    /\ mail' = [q \in Ranks |-> IF q \in Peers(r) \ {r} THEN Append(mail[q], rank[r].args)
                                ELSE mail[q]]
    /\ Becomes(r, [rank[r] EXCEPT !.pc = "ready"])
    /\ Joins(r, "cpu")
    /\ UNCHANGED <<cfg, req, verdict, sent, chan, broken>>

BugReceives(r) ==
    /\ rank[r].pc = "enter" /\ ~IsDriver(r) /\ Met(r, "cpu") /\ mail[r] # <<>>
    /\ Becomes(r, [rank[r] EXCEPT !.pc = "ready",
                                  !.args = [Head(mail[r]) EXCEPT !.hash = rank[r].args.hash]])
    /\ mail' = [mail EXCEPT ![r] = Tail(@)]
    /\ UNCHANGED <<cfg, req, verdict, sent, joined, chan, broken>>

\* The other ranks take everything but the block hash from the broadcast.
Receives(r) ==
    /\ rank[r].pc = "enter" /\ ~IsDriver(r) /\ Met(r, "cpu") /\ mail[r] # <<>>
    /\ Becomes(r, [rank[r] EXCEPT !.pc = "ready",
                                  !.args = [Head(mail[r]) EXCEPT !.hash = rank[r].args.hash]])
    /\ mail' = [mail EXCEPT ![r] = Tail(@)]
    /\ Joins(r, "cpu")
    /\ UNCHANGED <<cfg, req, verdict, sent, chan, broken>>

BugReady(r) == rank[r].pc = "ready" /\ Met(r, "cpu")

\* Past the second barrier; what r sent before has left the GPU (synchronize).
Ready(r) ==
    /\ rank[r].pc = "ready" /\ Met(r, "cpu")
    /\ ~IsLast(r) => chan[r + cfg.tp] = <<>>

\* _ensure_layer_hooks: hooks for another hash are detached, not those of this one.
Detached(me) == {h \in me.regs : h.call # me.obj.call}
BugHooked(me) ==
    IF me.obj.hash # NoHash THEN me
    ELSE [me EXCEPT !.obj = [hash |-> me.args.hash, call |-> me.at],
                    !.regs = {[hash |-> me.args.hash, call |-> me.at, upto |-> Layers]}]
Hooked(me) ==
    IF me.obj.hash = me.args.hash THEN me
    ELSE [me EXCEPT !.obj = [hash |-> me.args.hash, call |-> me.at],
                    !.regs = Detached(me) \union
                             {[hash |-> me.args.hash, call |-> me.at, upto |-> Layers]}]

\* The constructor raises after k layers: the worker keeps the detached object, and the
\* hooks that were registered belong to nobody.
HooksFail(r) ==
    /\ Ready(r) /\ rank[r].obj.hash # rank[r].args.hash
    /\ Breaks(r, "hooks")
    /\ \E k \in 0..Layers-1 :
          Becomes(r, [Raised(rank[r]) EXCEPT !.regs = Detached(rank[r]) \union
              {[hash |-> rank[r].args.hash, call |-> rank[r].at, upto |-> u] : u \in {k} \ {0}}])
    /\ UNCHANGED <<cfg, req, verdict, sent, joined, mail, chan>>

\* _borrowed_layout's guards, for the groups of the stage.
Fitting(a, groups) ==
    a.lease = <<>> \/ \A grp \in groups : Fits(Len(a.nonces), a.len, grp, a.lease, a.stripe)

\* A group's slots and table, in the lease or in place.
LayoutOf(a, grp) ==
    IF a.lease = <<>> THEN InplaceLayout(Len(a.nonces), a.len, grp)
    ELSE BorrowedLayout(Len(a.nonces), a.len, grp, a.lease, a.stripe)

\* Without a lease the embeddings go into the first KV tensor that can hold them.
HasScratch(a, pool) == \E kv \in pool : kv.scratch /\ kv.elems >= Len(a.nonces) * a.len
Embeds(a, pool) == IF a.lease = <<>> /\ HasScratch(a, pool) THEN "scratch" ELSE "fresh"

\* Hooks, metadata and, on the first stage, embeddings; the others wait for theirs.
\* Pc "model" is poc_forward_context: the hook flag is on.
Prepares(r) ==
    /\ Ready(r) /\ Fitting(rank[r].args, Groups(r))
    /\ LET a == rank[r].args IN
       Becomes(r, IF IsFirst(r)
                  THEN [Hooked(rank[r]) EXCEPT
                           !.pc = "model", !.flag = TRUE, !.embeds = Embeds(a, cfg.pool[1]),
                           !.data = [hash |-> a.hash, nonces |-> a.nonces, len |-> a.len,
                                     good |-> TRUE]]
                  ELSE [Hooked(rank[r]) EXCEPT !.pc = "recv"])
    /\ UNCHANGED <<cfg, req, verdict, sent, joined, mail, chan, broken>>

PrepareRaises(r) ==
    /\ Ready(r)
    /\ IF Fitting(rank[r].args, Groups(r)) THEN Breaks(r, "prepare") ELSE UNCHANGED broken
    /\ Becomes(r, Raised(Hooked(rank[r])))
    /\ UNCHANGED <<cfg, req, verdict, sent, joined, mail, chan>>

\* recv_tensor_dict: whatever the previous stage sent first.
TakesTensors(r) ==
    /\ rank[r].pc = "recv" /\ chan[r] # <<>>
    /\ Becomes(r, [rank[r] EXCEPT !.pc = "model", !.flag = TRUE,
                                  !.data = Head(chan[r])])
    /\ chan' = [chan EXCEPT ![r] = Tail(@)]
    /\ UNCHANGED <<cfg, req, verdict, sent, joined, mail, broken>>

SameShape(me) == Len(me.data.nonces) * me.data.len = Len(me.args.nonces) * me.args.len

\* The model runs up to the collectives of its layers.
Reduces(r) ==
    /\ rank[r].pc = "model" /\ SameShape(rank[r])
    /\ Becomes(r, [rank[r] EXCEPT !.pc = "reduce"])
    /\ Joins(r, "gpu")
    /\ UNCHANGED <<cfg, req, verdict, sent, mail, chan, broken>>

\* Out of memory, a kernel error, tensors of another batch.
ModelRaises(r) ==
    /\ rank[r].pc = "model"
    /\ IF SameShape(rank[r]) THEN Breaks(r, "model") ELSE UNCHANGED broken
    /\ Becomes(r, Raised(rank[r]))
    /\ UNCHANGED <<cfg, req, verdict, sent, joined, mail, chan>>

\* Each layer is reflected once, for the hash of this call.
Reflects(q, hash) ==
    \E h \in rank[q].regs : rank[q].regs = {h} /\ h.hash = hash /\ h.upto = Layers

\* The model is done; all but the last stage send what it returned.
Computes(r) ==
    /\ rank[r].pc = "reduce" /\ Met(r, "gpu")
    /\ LET me == rank[r]
           data == [me.data EXCEPT !.good = @ /\ \A q \in Peers(r) : Reflects(q, me.args.hash)]
           done == [me EXCEPT !.flag = FALSE, !.data = data]
       IN  IF IsLast(r)
           THEN Becomes(r, [done EXCEPT !.pc = "post"]) /\ UNCHANGED chan
           ELSE /\ Becomes(r, [done EXCEPT !.pc = IF cfg.eager THEN "close" ELSE "sent"])
                /\ chan' = [chan EXCEPT ![r + cfg.tp] = Append(@, data)]
    /\ UNCHANGED <<cfg, req, verdict, sent, joined, mail, broken>>

SendReturns(r) ==
    /\ rank[r].pc = "sent" /\ chan[r + cfg.tp] = <<>>
    /\ Becomes(r, [rank[r] EXCEPT !.pc = "close"])
    /\ UNCHANGED <<cfg, req, verdict, sent, joined, mail, chan, broken>>

\* The last stage: rows with NaN are lost, the others become artifacts.
Posts(r) ==
    /\ rank[r].pc = "post"
    /\ \E early, late \in SUBSET DOMAIN rank[r].args.nonces :
          LET me == rank[r]
              like == [hash |-> me.data.hash, good |-> me.data.good, by |-> me.args.hash,
                       row |-> 0, pick |-> 0]
          IN  /\ late \subseteq 1..(Len(me.args.nonces) - Cardinality(early))
              /\ IF early \union late = {} THEN UNCHANGED broken ELSE Breaks(r, "nan")
              /\ Becomes(r, [me EXCEPT !.pc = "close", !.arts =
                     Artifacts(me.args.nonces, me.data.nonces, early, late, like)])
    /\ UNCHANGED <<cfg, req, verdict, sent, joined, mail, chan>>

PostRaises(r) ==
    /\ rank[r].pc = "post" /\ Breaks(r, "post")
    /\ Becomes(r, Raised(rank[r]))
    /\ UNCHANGED <<cfg, req, verdict, sent, joined, mail, chan>>

\* The workspace is locked again, if that works, and the rank answers.
Closes(r) ==
    /\ rank[r].pc = "close"
    /\ \E stuck \in {FALSE, rank[r].open} :
          /\ IF stuck THEN Breaks(r, "lock") ELSE UNCHANGED broken
          /\ Becomes(r, [rank[r] EXCEPT !.pc = "idle", !.open = stuck, !.args = NoCall,
                                        !.embeds = "none"])
    /\ UNCHANGED <<cfg, req, verdict, sent, joined, mail, chan>>

----------------------------------------------------------------------------
Runs(r) ==
    \/ Starts(r) \/ Broadcasts(r) \/ Receives(r) \/ Prepares(r) \/ PrepareRaises(r)
    \/ TakesTensors(r) \/ Reduces(r) \/ Computes(r) \/ SendReturns(r)
    \/ Posts(r) \/ Closes(r)
Raises(r) == HooksFail(r) \/ ModelRaises(r) \/ PostRaises(r)

Next ==
    \/ Begins \/ ChunkAnswered \/ ChunkFails
    \/ \E r \in Ranks : Runs(r) \/ Raises(r)

\* A rank that can go on does, and a request ends by an answer or a timeout.
Fairness ==
    /\ WF_vars(ChunkAnswered) /\ WF_vars(ChunkFails)
    /\ \A r \in 1..MaxRanks : WF_vars(r \in Ranks /\ (Runs(r) \/ Raises(r)))

Spec == Init /\ [][Next]_vars /\ Fairness

----------------------------------------------------------------------------
(* Properties.                                                             *)

\* Type correctness of the route, the ranks and the channels.
TypeOK ==
    /\ cfg \in Configs
    /\ req = NoRequest \/ (req.q \in cfg.requests /\ req.pos \in Nat)
    /\ verdict.kind \in {"none", "done", "error"}
    /\ Len(sent) <= cfg.calls /\ Cardinality(broken) <= cfg.faults
    /\ \A r \in Ranks :
          /\ rank[r].pc \in {"idle", "enter", "ready", "recv", "model", "reduce",
                             "sent", "post", "close"}
          /\ rank[r].at \in 0..Len(sent)
          /\ {rank[r].flag, rank[r].open, rank[r].ok} \subseteq BOOLEAN
          /\ joined[r].cpu \in 0..2 * Len(sent) /\ joined[r].gpu \in 0..Len(sent)
          /\ Len(mail[r]) <= 1 /\ Len(chan[r]) <= 1

\* Ranks past their preparation.
Forwarding == {r \in Ranks : rank[r].pc \in {"recv", "model", "reduce"}}

\* On every rank that forwards, tokens have slots of their own, attention reads them back
\* where they were written, and with a lease neither slots nor table leave the blocks
\* that were lent to this request (poc_model_runner.py 102-111, 363-367).
LeaseOnly ==
    \A r \in Forwarding : \A grp \in Groups(r) :
        LET layout == LayoutOf(rank[r].args, grp)
            lease == sent[rank[r].at].lease
        IN  /\ Injective(layout) /\ ReadsBack(layout, grp)
            /\ lease # <<>> =>
                  Written(layout, grp) \union Named(layout, grp) \subseteq Range(lease)

\* All ranks of a stage that compute together compute the same call: hash, nonces, layout.
StageAgrees ==
    \A r \in Forwarding : \A q \in Peers(r) :
        rank[q].pc = "reduce" => rank[q].args = rank[r].args

\* A lease never changes an artifact's bits: where a forward without one would put the
\* embeddings into KV memory, none is taken (ADR-0015, poc_model_runner.py 402-415).
LeaseKeepsBits ==
    \A r \in Ranks : rank[r].embeds # "none" =>
        (rank[r].embeds = "scratch" <=> HasScratch(rank[r].args, cfg.pool[1]))

\* What an honest miner has for a nonce.
Right(q, n) == [hash |-> q.hash, row |-> n, good |-> TRUE, by |-> q.hash, pick |-> n]
Honest(q) == \A n \in Range(q.nonces) : q.validation[n] = [kind |-> "vector", vec |-> Right(q, n)]

\* A hook constructor failed; or a rank raised that should have received from a stage
\* whose sends return at once, and its next forward takes the tensors left behind.
Skewed ==
    \E f \in broken :
        \/ f.kind = "hooks"
        \/ cfg.eager /\ Stage(f.rank) > 1 /\ f.kind = "prepare"

\* An honest request is cleared, whatever raised, was lost or timed out before, in this
\* request or in an earlier one, except for the two skews.
HonestCleared ==
    (verdict.kind = "done" /\ Honest(verdict.q)) =>
        \/ verdict.mismatch = <<>> /\ ~verdict.fraud
        \/ Skewed

\* A verdict charges every wrong or malformed artifact whose nonce a rank computed,
\* whichever rank and chunk it was, and no artifact more than once; and there is a verdict
\* only if every such artifact could be decoded (validation.py 29-54): with one that could
\* not, the request ends with the exception and nobody is charged.
CheatsCharged ==
    verdict.kind = "done" =>
        LET q == verdict.q IN
        /\ \A n \in verdict.seen :
              /\ q.validation[n].kind # "undecodable"
              /\ \/ q.validation[n].kind = "malformed"
                 \/ q.validation[n].kind = "vector" /\ q.validation[n].vec.by # q.hash
                 => n \in Range(verdict.mismatch)
        /\ Len(verdict.mismatch) <= Len(q.nonces)

\* Between calls, inference runs with the hooks off and the workspace locked, whatever the
\* last forward did; a failed re-lock lasts until the next call (layer_hooks.py 29-32).
IdleClean ==
    \A r \in Ranks : rank[r].pc = "idle" =>
        /\ ~rank[r].flag
        /\ rank[r].open => [kind |-> "lock", rank |-> r, call |-> rank[r].at] \in broken

Busy(r) == r \in Ranks /\ rank[r].pc # "idle"
OutOfStep ==
    /\ Cardinality(Ranks) > 1
    /\ \E f \in broken : f.kind \in {"hooks", "prepare", "model"}

\* A rank that has a call to take or to go on with and waits for nobody.
CanGoOn(r) ==
    \/ rank[r].pc = "idle" /\ rank[r].at < Len(sent)
    \/ rank[r].pc = "enter" /\ Met(r, "cpu") /\ (IsDriver(r) \/ mail[r] # <<>>)
    \/ Ready(r)
    \/ rank[r].pc = "recv" /\ chan[r] # <<>>
    \/ rank[r].pc = "reduce" /\ Met(r, "gpu")
    \/ rank[r].pc = "sent" /\ chan[r + cfg.tp] = <<>>
    \/ rank[r].pc \in {"model", "post", "close"}

\* Ranks never wait for each other in a circle, between whatever stages and in whatever
\* calls they are, as long as none of several raises before or in its model: barriers,
\* broadcasts, collectives and sends are entered in one order (poc_model_runner.py 431-497).
NobodyStuck ==
    (\E r \in Ranks : rank[r].pc # "idle") => (\E r \in Ranks : CanGoOn(r)) \/ OutOfStep

\* A call always returns on every rank, unless one of several raised before or in its
\* model: a rank alone never waits for anything, and ranks that raise later, lose
\* artifacts or stay unlocked leave nobody waiting.
RanksReturn == \A r \in 1..MaxRanks : Busy(r) ~> (~Busy(r) \/ OutOfStep)
=============================================================================
