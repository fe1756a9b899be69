------------------------ MODULE WorkerForward_proofs ------------------------
(***************************************************************************)
(* Module WorkerForward for every deployment, any number of ranks, stages, *)
(* requests and faults: types and bounds, every rank of a stage computes   *)
(* the same call, forwards stay inside their lease and pass its guards, a  *)
(* lease moves no embedding, a worker between calls is clean, cheats are   *)
(* charged and honest requests cleared, and ranks never wait in a circle.  *)
(***************************************************************************)
EXTENDS WorkerForward, KvLayout_proofs, FiniteSetTheorems, SequenceTheorems

----------------------------------------------------------------------------
(* The inductive invariant.                                                *)

Nonces == UNION {UNION {Range(q.nonces) : q \in c.requests} : c \in Configs}
Hashes == UNION {{q.hash : q \in c.requests} : c \in Configs}
Calls == [hash : Hashes, nonces : Seq(Nonces), len : Nat, lease : Seq(Nat), stripe : Nat]

\* The route: its types, and the bound on calls.
Route ==
    /\ cfg \in Configs
    /\ sent \in Seq(Calls) /\ Len(sent) <= cfg.calls
    /\ req # NoRequest =>
          /\ DOMAIN req = {"q", "pos", "arts", "seen", "lease"}
          /\ req.q \in cfg.requests /\ req.pos \in Nat /\ req.lease \in Seq(Nat)
    /\ verdict.kind \in {"none", "done", "error"}

\* The chunks that are left of the request fit into the bound on calls.
Room ==
    req # NoRequest =>
        Len(req.q.nonces) <= (cfg.calls - Len(sent)) * req.q.batch + req.pos + req.q.batch

\* Leased blocks are distinct and enough for n sequences in every group of every stage, and
\* were lent where no rank lends scratch memory.
Enough(n, len, lease, stripe) ==
    lease # <<>> =>
        /\ Lends /\ Distinct(lease)
        /\ \A grp \in AllGroups : Fits(n, len, grp, lease, stripe)
Lent(a) == Enough(Len(a.nonces), a.len, a.lease, a.stripe)

Leases ==
    /\ \A i \in 1..Len(sent) : Lent(sent[i])
    /\ req # NoRequest =>
          \A n \in 0..req.q.batch :
              Enough(n, req.q.len, req.lease, Stripe(AllGroups, req.q.len))

Faults == IsFiniteSet(broken) /\ Cardinality(broken) <= cfg.faults

Fields == {"pc", "at", "args", "obj", "regs", "flag", "open", "embeds", "data", "ok", "arts"}
Places == {"idle", "enter", "ready", "recv", "model", "reduce", "sent", "post", "close"}

\* Workers are records; a rank in a call has the arguments that were sent.
Workers ==
    /\ DOMAIN rank = Ranks
    /\ \A r \in Ranks :
          /\ DOMAIN rank[r] = Fields
          /\ rank[r].pc \in Places
          /\ rank[r].at \in 0..Len(sent)
          /\ rank[r].flag \in BOOLEAN /\ rank[r].open \in BOOLEAN /\ rank[r].ok \in BOOLEAN
          /\ rank[r].pc # "idle" => rank[r].at >= 1 /\ rank[r].args = sent[rank[r].at]

If(condition, n) == IF condition THEN n ELSE 0
Before(r, places) == rank[r].pc \in places

\* A rank enters two barriers in each call, and at most one collective of the model.
Counts ==
    /\ DOMAIN joined = Ranks
    /\ \A r \in Ranks :
          /\ joined[r] \in [cpu : Nat, gpu : Nat]
          /\ joined[r].cpu + If(rank[r].pc = "enter", 1) = If(cfg.tp > 1, 2 * rank[r].at)
          /\ joined[r].gpu + If(Before(r, {"enter", "ready", "recv", "model"}), 1) <= rank[r].at
          /\ rank[r].pc = "enter" => cfg.tp > 1

\* No peer is more than a call behind a rank, none is behind one that is past the second
\* barrier; a driver past the first has seen all of them there, and the others are past
\* it only behind their driver.
Barrier ==
    cfg.tp > 1 =>
        \A r \in Ranks : \A q \in Peers(r) :
            /\ joined[q].cpu + If(Before(r, {"enter", "ready"}), 2) >= 2 * rank[r].at
            /\ (IsDriver(r) /\ rank[r].pc # "enter") => joined[q].cpu + 1 >= 2 * rank[r].at
            /\ (IsDriver(q) /\ ~IsDriver(r) /\ rank[r].pc # "enter") =>
                   joined[q].cpu >= 2 * rank[r].at

\* r waits for a broadcast that its driver has made.
Due(r) ==
    /\ rank[r].pc = "enter"
    /\ \E d \in Peers(r) \ {r} :
          IsDriver(d) /\ rank[d].at = rank[r].at /\ rank[d].pc # "enter"

\* A broadcast is the call of its receiver, and never waits for a later one.
Mailed ==
    /\ DOMAIN mail = Ranks
    /\ \A r \in Ranks : mail[r] = IF Due(r) THEN <<sent[rank[r].at]>> ELSE <<>>

\* A rank has room in its channel from the second barrier to its own send.
Sending ==
    /\ DOMAIN chan = Ranks
    /\ \A r \in Ranks : chan[r] = <<>> \/ chan[r] = <<chan[r][1]>>
    /\ \A r \in Ranks :
          (~IsLast(r) /\ Before(r, {"recv", "model", "reduce"})) => chan[r + cfg.tp] = <<>>

\* The hook flag is on in the model only, and what is unlocked between calls was stuck.
Clean ==
    \A r \in Ranks :
        /\ rank[r].flag => rank[r].pc \in {"model", "reduce"}
        /\ (rank[r].pc = "idle" /\ rank[r].open) =>
               [kind |-> "lock", rank |-> r, call |-> rank[r].at] \in broken

\* Embeddings are where Embeds puts them for the arguments of this call.
Placed ==
    \A r \in Ranks : rank[r].embeds # "none" =>
        /\ rank[r].pc \notin {"idle", "enter"}
        /\ rank[r].embeds = Embeds(rank[r].args, cfg.pool[1])

ForwardInv ==
    /\ Route /\ Room /\ Leases /\ Faults
    /\ Workers /\ Counts /\ Barrier /\ Mailed /\ Sending /\ Clean /\ Placed

----------------------------------------------------------------------------
(* The grid of ranks.                                                      *)

\* A rank is a stage and a place in it.
LEMMA Grid ==
    ASSUME cfg \in Configs, NEW r \in Ranks
    PROVE  /\ cfg.tp \in Nat \ {0} /\ cfg.pp \in Nat \ {0}
           /\ r \in Nat /\ Stage(r) \in 1..cfg.pp
           /\ (r - 1) % cfg.tp \in 0..cfg.tp-1
           /\ r = (Stage(r) - 1) * cfg.tp + ((r - 1) % cfg.tp) + 1
<1> DEFINE tp == cfg.tp
           pp == cfg.pp
           p == (r - 1) \div tp
           x == (r - 1) % tp
<1>1. tp \in Nat \ {0} /\ pp \in Nat \ {0}  BY ConfigAssumption
<1>2. r \in 1..(tp * pp)  BY DEF Ranks
<1> HIDE DEF tp, pp
<1>3. tp * pp \in Nat  BY <1>1
<1>4. r - 1 \in Nat /\ r \in Nat /\ r <= tp * pp  BY <1>2, <1>3
<1>5. p \in Nat /\ x \in 0..tp-1 /\ r - 1 = p * tp + x  BY <1>1, <1>4, DivMod
<1> HIDE DEF p, x
<1>6. ~ (pp <= p)
    <2> SUFFICES ASSUME pp <= p PROVE FALSE  OBVIOUS
    <2>1. pp * tp <= p * tp  BY <1>1, <1>5, Monotone
    <2>2. pp * tp = tp * pp /\ p * tp \in Nat  BY <1>1, <1>5
    <2> QED BY <2>1, <2>2, <1>3, <1>4, <1>5
<1>7. Stage(r) = p + 1  BY DEF Stage, p, tp
<1>8. p + 1 \in 1..pp /\ (p + 1) - 1 = p  BY <1>1, <1>5, <1>6
<1>9. r = p * tp + x + 1
    <2>1. p * tp \in Nat /\ x \in Nat  BY <1>1, <1>5
    <2> QED BY <1>4, <1>5, <2>1
<1> QED BY <1>1, <1>4, <1>5, <1>7, <1>8, <1>9 DEF x, tp, pp

\* A stage has one driver.
LEMMA OneDriver ==
    ASSUME cfg \in Configs, NEW d \in Ranks, NEW e \in Peers(d), IsDriver(d), IsDriver(e)
    PROVE  d = e
<1>1. e \in Ranks /\ Stage(e) = Stage(d)  BY DEF Peers
<1>2. (d - 1) % cfg.tp = 0 /\ (e - 1) % cfg.tp = 0  BY DEF IsDriver
<1>3. d = (Stage(d) - 1) * cfg.tp + ((d - 1) % cfg.tp) + 1  BY Grid
<1>4. e = (Stage(e) - 1) * cfg.tp + ((e - 1) % cfg.tp) + 1  BY <1>1, Grid
<1> QED BY <1>1, <1>2, <1>3, <1>4

\* Without tensor parallelism a rank is alone in its stage.
LEMMA Alone ==
    ASSUME cfg \in Configs, ~ (cfg.tp > 1), NEW r \in Ranks, NEW q \in Peers(r)
    PROVE  q = r
<1>1. q \in Ranks /\ Stage(q) = Stage(r)  BY DEF Peers
<1>2. cfg.tp = 1  BY Grid
<1>3. (r - 1) % cfg.tp = 0 /\ (q - 1) % cfg.tp = 0
    <2>1. (r - 1) % cfg.tp \in 0..cfg.tp-1 /\ (q - 1) % cfg.tp \in 0..cfg.tp-1
        BY <1>1, Grid
    <2> QED BY <2>1, <1>2
<1>4. r = (Stage(r) - 1) * cfg.tp + ((r - 1) % cfg.tp) + 1  BY Grid
<1>5. q = (Stage(q) - 1) * cfg.tp + ((q - 1) % cfg.tp) + 1  BY <1>1, Grid
<1> QED BY <1>1, <1>3, <1>4, <1>5

\* All stages but the last have a next one, rank by rank.
LEMMA NextStage ==
    ASSUME cfg \in Configs, NEW r \in Ranks, ~IsLast(r)
    PROVE  r + cfg.tp \in Ranks /\ r + cfg.tp # r
<1> DEFINE tp == cfg.tp
           pp == cfg.pp
           p == Stage(r)
           x == (r - 1) % tp
<1>1. tp \in Nat \ {0} /\ pp \in Nat \ {0}  BY Grid
<1>2. r \in Nat /\ p \in 1..pp /\ x \in 0..tp-1 /\ r = (p - 1) * tp + x + 1  BY Grid
<1>3. p # pp  BY DEF IsLast
<1>4. Ranks = 1..(tp * pp)  BY DEF Ranks
<1>5. r >= 1  BY <1>4
<1> HIDE DEF tp, pp, p, x
<1>6. p - 1 \in Nat /\ p + 1 <= pp /\ p \in Nat  BY <1>1, <1>2, <1>3
<1>7. (p + 1) * tp <= pp * tp  BY <1>1, <1>6, Monotone
<1>8. (p + 1) * tp = (p - 1) * tp + tp + tp
    <2>1. \A k \in Nat : ((k + 1) + 1) * tp = k * tp + tp + tp  BY <1>1
    <2>2. (p - 1) + 1 = p  BY <1>6
    <2> QED BY <2>1, <2>2, <1>6
<1>9. pp * tp = tp * pp /\ tp * pp \in Nat /\ (p - 1) * tp \in Nat  BY <1>1, <1>6
<1>10. r + tp <= tp * pp  BY <1>1, <1>2, <1>7, <1>8, <1>9
<1>11. r + tp \in 1..(tp * pp) /\ r + tp # r  BY <1>1, <1>2, <1>5, <1>9, <1>10
<1> QED BY <1>4, <1>11 DEF tp

----------------------------------------------------------------------------
(* What the steps do.                                                      *)

\* The deployment is fixed, and with it the grid.
LEMMA SameGrid ==
    ASSUME cfg' = cfg
    PROVE  /\ Ranks' = Ranks /\ AllGroups' = AllGroups /\ Lends' = Lends
           /\ \A r : /\ Stage(r)' = Stage(r) /\ Peers(r)' = Peers(r)
                     /\ IsDriver(r)' = IsDriver(r) /\ IsLast(r)' = IsLast(r)
<1>1. Ranks' = Ranks  BY DEF Ranks
<1>2. \A r : Stage(r)' = Stage(r)  BY DEF Stage
<1>3. \A r : Peers(r)' = Peers(r)  BY <1>1, <1>2 DEF Peers
<1> QED BY <1>1, <1>2, <1>3 DEF AllGroups, Lends, IsDriver, IsLast

\* What every step of a rank leaves alone.
Frame(r) ==
    /\ cfg' = cfg /\ sent' = sent /\ req' = req /\ verdict' = verdict
    /\ DOMAIN rank' = Ranks /\ DOMAIN rank'[r] = Fields
    /\ \A q \in Ranks \ {r} : rank'[q] = rank[q]

\* A rank enters a collective.
LEMMA JoinsCpu ==
    ASSUME DOMAIN joined = Ranks, \A q \in Ranks : joined[q] \in [cpu : Nat, gpu : Nat],
           NEW r \in Ranks, Joins(r, "cpu")
    PROVE  /\ DOMAIN joined' = Ranks
           /\ \A q \in Ranks : joined'[q] \in [cpu : Nat, gpu : Nat]
           /\ \A q \in Ranks \ {r} : joined'[q] = joined[q]
           /\ joined'[r].cpu = joined[r].cpu + If(cfg.tp > 1, 1)
           /\ joined'[r].gpu = joined[r].gpu
<1>1. CASE cfg.tp > 1
    <2>1. joined' = [joined EXCEPT ![r] = [joined[r] EXCEPT !.cpu = joined[r].cpu + 1]]
        BY <1>1 DEF Joins
    <2>2. joined'[r] = [joined[r] EXCEPT !.cpu = joined[r].cpu + 1]  BY <2>1
    <2>3. joined[r] \in [cpu : Nat, gpu : Nat]  OBVIOUS
    <2>4. /\ joined'[r].cpu = joined[r].cpu + 1 /\ joined'[r].gpu = joined[r].gpu
          /\ joined'[r] \in [cpu : Nat, gpu : Nat]
        BY <2>2, <2>3
    <2>5. DOMAIN joined' = Ranks /\ \A q \in Ranks \ {r} : joined'[q] = joined[q]  BY <2>1
    <2> QED BY <1>1, <2>4, <2>5 DEF If
<1>2. CASE ~ (cfg.tp > 1)
    <2>1. joined' = joined  BY <1>2 DEF Joins
    <2>2. joined[r].cpu + 0 = joined[r].cpu  OBVIOUS
    <2> QED BY <1>2, <2>1, <2>2 DEF If
<1> QED BY <1>1, <1>2

\* The same for the collectives of the model.
LEMMA JoinsGpu ==
    ASSUME DOMAIN joined = Ranks, \A q \in Ranks : joined[q] \in [cpu : Nat, gpu : Nat],
           NEW r \in Ranks, Joins(r, "gpu")
    PROVE  /\ DOMAIN joined' = Ranks
           /\ \A q \in Ranks : joined'[q] \in [cpu : Nat, gpu : Nat]
           /\ \A q \in Ranks \ {r} : joined'[q] = joined[q]
           /\ joined'[r].cpu = joined[r].cpu
           /\ joined'[r].gpu <= joined[r].gpu + 1
<1>1. CASE cfg.tp > 1
    <2>1. joined' = [joined EXCEPT ![r] = [joined[r] EXCEPT !.gpu = joined[r].gpu + 1]]
        BY <1>1 DEF Joins
    <2>2. joined'[r] = [joined[r] EXCEPT !.gpu = joined[r].gpu + 1]  BY <2>1
    <2>3. joined[r] \in [cpu : Nat, gpu : Nat]  OBVIOUS
    <2>4. /\ joined'[r].gpu = joined[r].gpu + 1 /\ joined'[r].cpu = joined[r].cpu
          /\ joined'[r] \in [cpu : Nat, gpu : Nat]
        BY <2>2, <2>3
    <2>5. DOMAIN joined' = Ranks /\ \A q \in Ranks \ {r} : joined'[q] = joined[q]  BY <2>1
    <2> QED BY <2>3, <2>4, <2>5
<1>2. CASE ~ (cfg.tp > 1)
    <2>1. joined' = joined  BY <1>2 DEF Joins
    <2>2. joined[r].gpu \in Nat  OBVIOUS
    <2> QED BY <2>1, <2>2
<1> QED BY <1>1, <1>2

\* The fields that installing hooks does not touch.
LEMMA HookedKeeps ==
    ASSUME NEW me, DOMAIN me = Fields
    PROVE  LET you == Hooked(me) IN
           /\ DOMAIN you = Fields
           /\ you.pc = me.pc /\ you.at = me.at /\ you.args = me.args /\ you.flag = me.flag
           /\ you.open = me.open /\ you.embeds = me.embeds /\ you.ok = me.ok
BY DEF Hooked, Fields

\* An exception, before or after that.
LEMMA RaisedKeeps ==
    ASSUME NEW me, DOMAIN me = Fields
    PROVE  LET you == Raised(me) IN
           /\ DOMAIN you = Fields
           /\ you.pc = "close" /\ you.flag = FALSE /\ you.ok = FALSE
           /\ you.at = me.at /\ you.args = me.args /\ you.open = me.open
           /\ you.embeds = me.embeds
BY DEF Raised, Fields

\* A fault is recorded, within the bound.
LEMMA BreaksCounts ==
    ASSUME cfg \in Configs, Faults, NEW r, NEW kind, Breaks(r, kind), cfg' = cfg
    PROVE  Faults' /\ broken \subseteq broken'
           /\ [kind |-> kind, rank |-> r, call |-> rank[r].at] \in broken'
<1> DEFINE f == [kind |-> kind, rank |-> r, call |-> rank[r].at]
<1>1. broken' = broken \union {f} /\ Cardinality(broken) < cfg.faults  BY DEF Breaks
<1>2. IsFiniteSet(broken) /\ cfg.faults \in Nat  BY ConfigAssumption DEF Faults
<1>3. Cardinality(broken) \in Nat  BY <1>2, FS_CardinalityType
<1> HIDE DEF f
<1>4. /\ IsFiniteSet(broken \union {f})
      /\ \/ Cardinality(broken \union {f}) = Cardinality(broken)
         \/ Cardinality(broken \union {f}) = Cardinality(broken) + 1
    BY <1>2, FS_AddElement
<1>5. Cardinality(broken') <= cfg.faults  BY <1>1, <1>2, <1>3, <1>4
<1>6. IsFiniteSet(broken')  BY <1>1, <1>4
<1> QED BY <1>1, <1>5, <1>6 DEF Faults, f

\* From the second barrier to the answer, one step.
Mid(r) ==
    \/ HooksFail(r) \/ Prepares(r) \/ PrepareRaises(r) \/ TakesTensors(r) \/ Reduces(r)
    \/ ModelRaises(r) \/ Computes(r) \/ SendReturns(r) \/ Posts(r) \/ PostRaises(r)

\* All that the invariant needs to know of such a step.
Proceeds(r) ==
    /\ Frame(r) /\ mail' = mail
    /\ rank'[r].at = rank[r].at /\ rank'[r].args = rank[r].args
    /\ rank'[r].ok \in BOOLEAN /\ rank'[r].open = rank[r].open /\ rank'[r].flag \in BOOLEAN
    /\ rank[r].pc \in {"ready", "recv", "model", "reduce", "sent", "post"}
    /\ rank'[r].pc \in {"recv", "model", "reduce", "sent", "post", "close"}
    /\ rank[r].pc = "ready" => Ready(r)
    /\ rank'[r].pc \in {"recv", "model"} => rank[r].pc \in {"ready", "recv"}
    /\ rank'[r].pc = "reduce" => rank[r].pc = "model"
    /\ rank'[r].flag => rank'[r].pc \in {"model", "reduce"}
    /\ rank'[r].embeds \in {rank[r].embeds, Embeds(rank[r].args, cfg.pool[1])}
    /\ Faults' /\ broken \subseteq broken'
    /\ DOMAIN joined' = Ranks
    /\ \A q \in Ranks : /\ joined'[q] \in [cpu : Nat, gpu : Nat]
                        /\ joined'[q].cpu = joined[q].cpu
                        /\ q # r => joined'[q] = joined[q]
    /\ joined'[r].gpu <= joined[r].gpu + If(rank'[r].pc = "reduce", 1)
    /\ \/ chan' = chan
       \/ rank[r].pc = "recv" /\ chan[r] # <<>> /\ chan' = [chan EXCEPT ![r] = Tail(@)]
       \/ /\ rank[r].pc = "reduce" /\ rank'[r].pc \in {"close", "sent"} /\ ~IsLast(r)
          /\ \E data : chan' = [chan EXCEPT ![r + cfg.tp] = Append(@, data)]

\* The steps between the second barrier and the answer do no more than that.
LEMMA MidProceeds ==
    ASSUME ForwardInv, NEW r \in Ranks, Mid(r)
    PROVE  Proceeds(r)
<1> DEFINE me == rank[r]
           new == rank'[r]
<1>1. /\ DOMAIN rank = Ranks /\ DOMAIN me = Fields /\ me.pc \in Places
      /\ me.flag \in BOOLEAN /\ me.open \in BOOLEAN /\ me.ok \in BOOLEAN
      /\ me.flag => me.pc \in {"model", "reduce"}
    BY DEF ForwardInv, Workers, Clean
<1>2. /\ DOMAIN joined = Ranks /\ \A q \in Ranks : joined[q] \in [cpu : Nat, gpu : Nat]
      /\ \A q \in Ranks : joined[q].cpu \in Nat /\ joined[q].gpu \in Nat
    BY DEF ForwardInv, Counts
<1>3. Faults /\ cfg \in Configs  BY DEF ForwardInv, Route
<1>4. ASSUME NEW you, Becomes(r, you), DOMAIN you = Fields
      PROVE  /\ new = you
             /\ DOMAIN rank' = Ranks /\ DOMAIN rank'[r] = Fields
             /\ \A q \in Ranks \ {r} : rank'[q] = rank[q]
    BY <1>1, <1>4 DEF Becomes
<1>5. ASSUME joined' = joined
      PROVE  /\ DOMAIN joined' = Ranks
             /\ \A q \in Ranks : /\ joined'[q] \in [cpu : Nat, gpu : Nat]
                                 /\ joined'[q].cpu = joined[q].cpu
                                 /\ q # r => joined'[q] = joined[q]
             /\ joined'[r].gpu <= joined[r].gpu + If(rank'[r].pc = "reduce", 1)
    BY <1>2, <1>5 DEF If
<1>6. ASSUME cfg' = cfg, broken' = broken \/ \E kind : Breaks(r, kind)
      PROVE  Faults' /\ broken \subseteq broken'
    <2>1. CASE broken' = broken  BY <1>3, <1>6, <2>1 DEF Faults
    <2>2. CASE \E kind : Breaks(r, kind)
        <3> PICK kind : Breaks(r, kind)  BY <2>2
        <3> QED BY <1>3, <1>6, BreaksCounts
    <2> QED BY <1>6, <2>1, <2>2
<1>7. ASSUME NEW you, Becomes(r, you), DOMAIN you = Fields,
             you.pc = "close", you.flag = FALSE, you.ok = FALSE, you.at = me.at,
             you.args = me.args, you.open = me.open, you.embeds = me.embeds,
             cfg' = cfg, sent' = sent, req' = req, verdict' = verdict,
             mail' = mail, chan' = chan, joined' = joined,
             broken' = broken \/ \E kind : Breaks(r, kind),
             me.pc \in {"ready", "recv", "model", "reduce", "sent", "post"},
             me.pc = "ready" => Ready(r)
      PROVE  Proceeds(r)
    <2>1. /\ new = you
          /\ DOMAIN rank' = Ranks /\ DOMAIN rank'[r] = Fields
          /\ \A q \in Ranks \ {r} : rank'[q] = rank[q]
        BY <1>4, <1>7
    <2>2. Frame(r)  BY <2>1, <1>7 DEF Frame
    <2>3. Faults' /\ broken \subseteq broken'  BY <1>6, <1>7
    <2> QED BY <1>5, <1>7, <2>1, <2>2, <2>3 DEF Proceeds
<1>8. CASE HooksFail(r)
    <2>1. PICK regs : Becomes(r, [Raised(me) EXCEPT !.regs = regs])  BY <1>8 DEF HooksFail
    <2> DEFINE you == [Raised(me) EXCEPT !.regs = regs]
    <2>2. /\ DOMAIN you = Fields /\ you.pc = "close" /\ you.flag = FALSE /\ you.ok = FALSE
          /\ you.at = me.at /\ you.args = me.args /\ you.open = me.open
          /\ you.embeds = me.embeds
        BY <1>1 DEF Raised, Fields
    <2>3. Becomes(r, you)  BY <2>1
    <2> HIDE DEF you
    <2>4. /\ cfg' = cfg /\ sent' = sent /\ req' = req /\ verdict' = verdict
          /\ mail' = mail /\ chan' = chan /\ joined' = joined
          /\ Breaks(r, "hooks") /\ Ready(r) /\ me.pc = "ready"
        BY <1>8 DEF HooksFail, Ready
    <2>5. broken' = broken \/ \E kind : Breaks(r, kind)  BY <2>4
    <2> QED BY <1>7, <2>2, <2>3, <2>4, <2>5
<1>9. CASE PrepareRaises(r)
    <2> DEFINE you == Raised(Hooked(me))
    <2>1. /\ DOMAIN Hooked(me) = Fields /\ Hooked(me).at = me.at
          /\ Hooked(me).args = me.args /\ Hooked(me).open = me.open
          /\ Hooked(me).embeds = me.embeds
        BY <1>1, HookedKeeps
    <2>2. /\ DOMAIN you = Fields /\ you.pc = "close" /\ you.flag = FALSE /\ you.ok = FALSE
          /\ you.at = me.at /\ you.args = me.args /\ you.open = me.open
          /\ you.embeds = me.embeds
        BY <2>1, RaisedKeeps
    <2>3. Becomes(r, you)  BY <1>9 DEF PrepareRaises
    <2> HIDE DEF you
    <2>4. /\ cfg' = cfg /\ sent' = sent /\ req' = req /\ verdict' = verdict
          /\ mail' = mail /\ chan' = chan /\ joined' = joined
          /\ (broken' = broken \/ Breaks(r, "prepare")) /\ Ready(r) /\ me.pc = "ready"
        BY <1>9 DEF PrepareRaises, Ready
    <2>5. broken' = broken \/ \E kind : Breaks(r, kind)  BY <2>4
    <2> QED BY <1>7, <2>2, <2>3, <2>4, <2>5
<1>10. CASE ModelRaises(r)
    <2> DEFINE you == Raised(me)
    <2>1. /\ DOMAIN you = Fields /\ you.pc = "close" /\ you.flag = FALSE /\ you.ok = FALSE
          /\ you.at = me.at /\ you.args = me.args /\ you.open = me.open
          /\ you.embeds = me.embeds
        BY <1>1, RaisedKeeps
    <2>2. Becomes(r, you)  BY <1>10 DEF ModelRaises
    <2> HIDE DEF you
    <2>3. /\ cfg' = cfg /\ sent' = sent /\ req' = req /\ verdict' = verdict
          /\ mail' = mail /\ chan' = chan /\ joined' = joined
          /\ (broken' = broken \/ Breaks(r, "model")) /\ me.pc = "model"
        BY <1>10 DEF ModelRaises
    <2>4. broken' = broken \/ \E kind : Breaks(r, kind)  BY <2>3
    <2> QED BY <1>7, <2>1, <2>2, <2>3, <2>4
<1>11. CASE PostRaises(r)
    <2> DEFINE you == Raised(me)
    <2>1. /\ DOMAIN you = Fields /\ you.pc = "close" /\ you.flag = FALSE /\ you.ok = FALSE
          /\ you.at = me.at /\ you.args = me.args /\ you.open = me.open
          /\ you.embeds = me.embeds
        BY <1>1, RaisedKeeps
    <2>2. Becomes(r, you)  BY <1>11 DEF PostRaises
    <2> HIDE DEF you
    <2>3. /\ cfg' = cfg /\ sent' = sent /\ req' = req /\ verdict' = verdict
          /\ mail' = mail /\ chan' = chan /\ joined' = joined
          /\ Breaks(r, "post") /\ me.pc = "post"
        BY <1>11 DEF PostRaises
    <2>4. broken' = broken \/ \E kind : Breaks(r, kind)  BY <2>3
    <2> QED BY <1>7, <2>1, <2>2, <2>3, <2>4
<1>12. ASSUME NEW you, Becomes(r, you), DOMAIN you = Fields,
              you.at = me.at, you.args = me.args, you.open = me.open, you.ok = me.ok,
              you.flag \in BOOLEAN, you.flag => you.pc \in {"model", "reduce"},
              you.embeds \in {me.embeds, Embeds(me.args, cfg.pool[1])},
              me.pc \in {"ready", "recv", "model", "reduce", "sent", "post"},
              you.pc \in {"recv", "model", "reduce", "sent", "post", "close"},
              you.pc \in {"recv", "model"} => me.pc \in {"ready", "recv"},
              you.pc = "reduce" => me.pc = "model",
              me.pc = "ready" => Ready(r),
              cfg' = cfg, sent' = sent, req' = req, verdict' = verdict, mail' = mail,
              broken' = broken \/ \E kind : Breaks(r, kind),
              joined' = joined \/ (you.pc = "reduce" /\ Joins(r, "gpu")),
              \/ chan' = chan
              \/ me.pc = "recv" /\ chan[r] # <<>> /\ chan' = [chan EXCEPT ![r] = Tail(@)]
              \/ /\ me.pc = "reduce" /\ you.pc \in {"close", "sent"} /\ ~IsLast(r)
                 /\ \E data : chan' = [chan EXCEPT ![r + cfg.tp] = Append(@, data)]
       PROVE  Proceeds(r)
    <2>1. /\ new = you
          /\ DOMAIN rank' = Ranks /\ DOMAIN rank'[r] = Fields
          /\ \A q \in Ranks \ {r} : rank'[q] = rank[q]
        BY <1>4, <1>12
    <2>2. Frame(r)  BY <2>1, <1>12 DEF Frame
    <2>3. Faults' /\ broken \subseteq broken'  BY <1>6, <1>12
    <2>4. /\ DOMAIN joined' = Ranks
          /\ \A q \in Ranks : /\ joined'[q] \in [cpu : Nat, gpu : Nat]
                              /\ joined'[q].cpu = joined[q].cpu
                              /\ q # r => joined'[q] = joined[q]
          /\ joined'[r].gpu <= joined[r].gpu + If(rank'[r].pc = "reduce", 1)
        <3>1. CASE joined' = joined  BY <1>5, <3>1
        <3>2. CASE you.pc = "reduce" /\ Joins(r, "gpu")
            <4>1. /\ DOMAIN joined' = Ranks
                  /\ \A q \in Ranks : joined'[q] \in [cpu : Nat, gpu : Nat]
                  /\ \A q \in Ranks \ {r} : joined'[q] = joined[q]
                  /\ joined'[r].cpu = joined[r].cpu
                  /\ joined'[r].gpu <= joined[r].gpu + 1
                BY <1>2, <3>2, JoinsGpu
            <4> QED BY <4>1, <2>1, <3>2 DEF If
        <3> QED BY <3>1, <3>2, <1>12
    <2> QED BY <1>1, <1>12, <2>1, <2>2, <2>3, <2>4 DEF Proceeds
<1>13. CASE Prepares(r)
    <2> DEFINE base == Hooked(me)
               a == me.args
               data == [hash |-> a.hash, nonces |-> a.nonces, len |-> a.len, good |-> TRUE]
               first == [base EXCEPT !.pc = "model", !.flag = TRUE,
                                     !.embeds = Embeds(a, cfg.pool[1]), !.data = data]
               later == [base EXCEPT !.pc = "recv"]
    <2>1. /\ Becomes(r, first) \/ Becomes(r, later)
          /\ cfg' = cfg /\ sent' = sent /\ req' = req /\ verdict' = verdict /\ mail' = mail
          /\ broken' = broken /\ joined' = joined /\ chan' = chan
          /\ Ready(r) /\ me.pc = "ready"
        BY <1>13 DEF Prepares, Ready
    <2>2. /\ DOMAIN base = Fields /\ base.at = me.at /\ base.args = me.args
          /\ base.open = me.open /\ base.ok = me.ok /\ base.flag = me.flag
          /\ base.embeds = me.embeds
        BY <1>1, HookedKeeps
    <2> HIDE DEF base, data
    <2>3. CASE Becomes(r, first)
        <3>1. /\ DOMAIN first = Fields /\ first.at = me.at /\ first.args = a
              /\ first.open = me.open /\ first.ok = me.ok /\ first.flag = TRUE
              /\ first.pc = "model" /\ first.embeds = Embeds(a, cfg.pool[1])
            BY <2>2 DEF Fields
        <3> HIDE DEF first
        <3> QED BY <2>1, <2>3, <3>1, <1>12
    <2>4. CASE Becomes(r, later)
        <3>1. /\ DOMAIN later = Fields /\ later.at = me.at /\ later.args = a
              /\ later.open = me.open /\ later.ok = me.ok /\ later.flag = me.flag
              /\ later.pc = "recv" /\ later.embeds = me.embeds
            BY <2>2 DEF Fields
        <3> HIDE DEF later
        <3> QED BY <1>1, <2>1, <2>4, <3>1, <1>12
    <2> QED BY <2>1, <2>3, <2>4
<1>14. CASE TakesTensors(r)
    <2> DEFINE you == [me EXCEPT !.pc = "model", !.flag = TRUE, !.data = Head(chan[r])]
    <2>1. /\ Becomes(r, you) /\ me.pc = "recv"
          /\ cfg' = cfg /\ sent' = sent /\ req' = req /\ verdict' = verdict /\ mail' = mail
          /\ broken' = broken /\ joined' = joined
          /\ chan[r] # <<>> /\ chan' = [chan EXCEPT ![r] = Tail(@)]
        BY <1>14 DEF TakesTensors
    <2>2. /\ DOMAIN you = Fields /\ you.at = me.at /\ you.args = me.args
          /\ you.open = me.open /\ you.ok = me.ok /\ you.flag = TRUE
          /\ you.pc = "model" /\ you.embeds = me.embeds
        BY <1>1 DEF Fields
    <2> HIDE DEF you
    <2> QED BY <2>1, <2>2, <1>12
<1>15. CASE Reduces(r)
    <2> DEFINE you == [me EXCEPT !.pc = "reduce"]
    <2>1. /\ Becomes(r, you) /\ me.pc = "model" /\ Joins(r, "gpu")
          /\ cfg' = cfg /\ sent' = sent /\ req' = req /\ verdict' = verdict /\ mail' = mail
          /\ broken' = broken /\ chan' = chan
        BY <1>15 DEF Reduces
    <2>2. /\ DOMAIN you = Fields /\ you.at = me.at /\ you.args = me.args
          /\ you.open = me.open /\ you.ok = me.ok /\ you.flag = me.flag
          /\ you.pc = "reduce" /\ you.embeds = me.embeds
        BY <1>1 DEF Fields
    <2> HIDE DEF you
    <2> QED BY <1>1, <2>1, <2>2, <1>12
<1>16. CASE Computes(r)
    <2>1. PICK data :
             LET done == [me EXCEPT !.flag = FALSE, !.data = data]
             IN  \/ Becomes(r, [done EXCEPT !.pc = "post"]) /\ chan' = chan
                 \/ /\ ~IsLast(r)
                    /\ Becomes(r, [done EXCEPT !.pc = IF cfg.eager THEN "close" ELSE "sent"])
                    /\ chan' = [chan EXCEPT ![r + cfg.tp] = Append(@, data)]
        BY <1>16 DEF Computes
    <2>2. /\ me.pc = "reduce"
          /\ cfg' = cfg /\ sent' = sent /\ req' = req /\ verdict' = verdict /\ mail' = mail
          /\ broken' = broken /\ joined' = joined
        BY <1>16 DEF Computes
    <2> DEFINE done == [me EXCEPT !.flag = FALSE, !.data = data]
               you(pc) == [done EXCEPT !.pc = pc]
    <2>3. \A pc : /\ DOMAIN you(pc) = Fields /\ you(pc).at = me.at /\ you(pc).args = me.args
                  /\ you(pc).open = me.open /\ you(pc).ok = me.ok /\ you(pc).flag = FALSE
                  /\ you(pc).pc = pc /\ you(pc).embeds = me.embeds
        BY <1>1 DEF Fields
    <2>4. \/ Becomes(r, you("post")) /\ chan' = chan
          \/ /\ ~IsLast(r)
             /\ \E pc \in {"close", "sent"} : Becomes(r, you(pc))
             /\ chan' = [chan EXCEPT ![r + cfg.tp] = Append(@, data)]
        BY <2>1
    <2> HIDE DEF you
    <2>5. CASE Becomes(r, you("post")) /\ chan' = chan  BY <2>2, <2>3, <2>5, <1>12
    <2>6. CASE /\ ~IsLast(r)
               /\ \E pc \in {"close", "sent"} : Becomes(r, you(pc))
               /\ chan' = [chan EXCEPT ![r + cfg.tp] = Append(@, data)]
        <3> PICK pc \in {"close", "sent"} : Becomes(r, you(pc))  BY <2>6
        <3>1. \E d : chan' = [chan EXCEPT ![r + cfg.tp] = Append(@, d)]  BY <2>6
        <3> QED BY <2>2, <2>3, <2>6, <3>1, <1>12
    <2> QED BY <2>4, <2>5, <2>6
<1>17. CASE SendReturns(r)
    <2> DEFINE you == [me EXCEPT !.pc = "close"]
    <2>1. /\ Becomes(r, you) /\ me.pc = "sent"
          /\ cfg' = cfg /\ sent' = sent /\ req' = req /\ verdict' = verdict /\ mail' = mail
          /\ broken' = broken /\ chan' = chan /\ joined' = joined
        BY <1>17 DEF SendReturns
    <2>2. /\ DOMAIN you = Fields /\ you.at = me.at /\ you.args = me.args
          /\ you.open = me.open /\ you.ok = me.ok /\ you.flag = me.flag
          /\ you.pc = "close" /\ you.embeds = me.embeds
        BY <1>1 DEF Fields
    <2> HIDE DEF you
    <2> QED BY <1>1, <2>1, <2>2, <1>12
<1>18. CASE Posts(r)
    <2>1. PICK arts : Becomes(r, [me EXCEPT !.pc = "close", !.arts = arts])
        BY <1>18 DEF Posts
    <2> DEFINE you == [me EXCEPT !.pc = "close", !.arts = arts]
    <2>2. /\ me.pc = "post" /\ (broken' = broken \/ Breaks(r, "nan"))
          /\ cfg' = cfg /\ sent' = sent /\ req' = req /\ verdict' = verdict /\ mail' = mail
          /\ chan' = chan /\ joined' = joined
        BY <1>18 DEF Posts
    <2>3. /\ DOMAIN you = Fields /\ you.at = me.at /\ you.args = me.args
          /\ you.open = me.open /\ you.ok = me.ok /\ you.flag = me.flag
          /\ you.pc = "close" /\ you.embeds = me.embeds
        BY <1>1 DEF Fields
    <2>4. Becomes(r, you)  BY <2>1
    <2> HIDE DEF you
    <2>5. broken' = broken \/ \E kind : Breaks(r, kind)  BY <2>2
    <2> QED BY <1>1, <2>2, <2>3, <2>4, <2>5, <1>12
<1> QED BY <1>8, <1>9, <1>10, <1>11, <1>13, <1>14, <1>15, <1>16, <1>17, <1>18 DEF Mid

----------------------------------------------------------------------------
(* The invariant is inductive.                                             *)

\* What a rank does leaves the route as it was.
LEMMA RouteUntouched ==
    ASSUME ForwardInv, cfg' = cfg, sent' = sent, req' = req, verdict' = verdict
    PROVE  Route' /\ Room' /\ Leases'
<1>1. Route /\ Room /\ Leases  BY DEF ForwardInv
<1>2. Route'  BY <1>1 DEF Route
<1>3. Room'  BY <1>1 DEF Room
<1>4. Leases'
    <2>1. AllGroups' = AllGroups /\ Lends' = Lends  BY SameGrid
    <2>2. \A n, len, lease, stripe :
              Enough(n, len, lease, stripe)' = Enough(n, len, lease, stripe)
        BY <2>1 DEF Enough
    <2>3. \A a : Lent(a)' = Lent(a)  BY <2>2 DEF Lent
    <2> QED BY <1>1, <2>1, <2>2, <2>3 DEF Leases
<1> QED BY <1>2, <1>3, <1>4

\* A step between the second barrier and the answer.
LEMMA MidKeeps ==
    ASSUME ForwardInv, NEW r \in Ranks, Proceeds(r)
    PROVE  ForwardInv'
<1>1. /\ cfg' = cfg /\ sent' = sent /\ req' = req /\ verdict' = verdict
      /\ DOMAIN rank' = Ranks /\ DOMAIN rank'[r] = Fields
      /\ \A q \in Ranks \ {r} : rank'[q] = rank[q]
    BY DEF Proceeds, Frame
<1>2. /\ Ranks' = Ranks
      /\ \A q : /\ Peers(q)' = Peers(q) /\ IsDriver(q)' = IsDriver(q)
                /\ IsLast(q)' = IsLast(q)
    BY <1>1, SameGrid
<1>3. /\ rank'[r].at = rank[r].at /\ rank'[r].args = rank[r].args
      /\ rank[r].pc \in {"ready", "recv", "model", "reduce", "sent", "post"}
      /\ rank'[r].pc \in {"recv", "model", "reduce", "sent", "post", "close"}
    BY DEF Proceeds
<1>4. \A q \in Ranks : q \in Nat  BY Grid DEF ForwardInv, Route
<1>5. Route' /\ Room' /\ Leases'  BY <1>1, RouteUntouched
<1>6. Faults'  BY DEF Proceeds
<1>7. Workers'
    <2>1. Workers  BY DEF ForwardInv
    <2>2. /\ rank'[r].ok \in BOOLEAN /\ rank'[r].open = rank[r].open
          /\ rank'[r].flag \in BOOLEAN
        BY DEF Proceeds
    <2> SUFFICES ASSUME NEW q \in Ranks
                 PROVE  /\ DOMAIN rank'[q] = Fields
                        /\ rank'[q].pc \in Places
                        /\ rank'[q].at \in 0..Len(sent)
                        /\ rank'[q].flag \in BOOLEAN /\ rank'[q].open \in BOOLEAN
                        /\ rank'[q].ok \in BOOLEAN
                        /\ rank'[q].pc # "idle" =>
                              rank'[q].at >= 1 /\ rank'[q].args = sent[rank'[q].at]
        BY <1>1, <1>2 DEF Workers
    <2>3. CASE q # r  BY <1>1, <2>1, <2>3 DEF Workers
    <2>4. CASE q = r  BY <1>1, <1>3, <2>1, <2>2, <2>4 DEF Workers, Places
    <2> QED BY <2>3, <2>4
<1>8. Counts'
    <2>1. Counts /\ Workers  BY DEF ForwardInv
    <2>2. /\ DOMAIN joined' = Ranks
          /\ \A q \in Ranks : /\ joined'[q] \in [cpu : Nat, gpu : Nat]
                              /\ joined'[q].cpu = joined[q].cpu
                              /\ q # r => joined'[q] = joined[q]
          /\ joined'[r].gpu <= joined[r].gpu + If(rank'[r].pc = "reduce", 1)
          /\ rank'[r].pc \in {"recv", "model"} => rank[r].pc \in {"ready", "recv"}
          /\ rank'[r].pc = "reduce" => rank[r].pc = "model"
        BY DEF Proceeds
    <2>3. \A q \in Ranks \ {r} :
              /\ joined'[q].cpu + If(rank'[q].pc = "enter", 1) = If(cfg.tp > 1, 2 * rank'[q].at)
              /\ joined'[q].gpu + If(rank'[q].pc \in {"enter", "ready", "recv", "model"}, 1)
                     <= rank'[q].at
              /\ rank'[q].pc = "enter" => cfg.tp > 1
        BY <1>1, <2>1, <2>2 DEF Counts, Before
    <2>4. joined'[r].cpu + If(rank'[r].pc = "enter", 1) = If(cfg.tp > 1, 2 * rank'[r].at)
        BY <1>3, <2>1, <2>2 DEF Counts, If
    <2>5. joined'[r].gpu + If(rank'[r].pc \in {"enter", "ready", "recv", "model"}, 1)
              <= rank'[r].at
        <3>1. joined[r].gpu + If(rank[r].pc \in {"enter", "ready", "recv", "model"}, 1)
                  <= rank[r].at
            BY <2>1 DEF Counts, Before
        <3>2. joined[r].gpu \in Nat /\ joined'[r].gpu \in Nat /\ rank[r].at \in Nat
            <4>1. joined[r] \in [cpu : Nat, gpu : Nat] /\ joined'[r] \in [cpu : Nat, gpu : Nat]
                BY <2>1, <2>2 DEF Counts
            <4>2. rank[r].at \in 0..Len(sent)  BY <2>1 DEF Workers
            <4> QED BY <4>1, <4>2
        <3> QED BY <1>3, <2>2, <3>1, <3>2 DEF If
    <2> QED BY <1>1, <1>2, <1>3, <2>2, <2>3, <2>4, <2>5 DEF Counts, Before
<1>9. Barrier'
    <2> SUFFICES ASSUME cfg.tp > 1, NEW x \in Ranks, NEW q \in Peers(x)
                 PROVE  /\ joined'[q].cpu + If(rank'[x].pc \in {"enter", "ready"}, 2)
                               >= 2 * rank'[x].at
                        /\ (IsDriver(x) /\ rank'[x].pc # "enter") =>
                               joined'[q].cpu + 1 >= 2 * rank'[x].at
                        /\ (IsDriver(q) /\ ~IsDriver(x) /\ rank'[x].pc # "enter") =>
                               joined'[q].cpu >= 2 * rank'[x].at
        BY <1>1, <1>2 DEF Barrier, Before
    <2>1. /\ joined[q].cpu + If(rank[x].pc \in {"enter", "ready"}, 2) >= 2 * rank[x].at
          /\ (IsDriver(x) /\ rank[x].pc # "enter") => joined[q].cpu + 1 >= 2 * rank[x].at
          /\ (IsDriver(q) /\ ~IsDriver(x) /\ rank[x].pc # "enter") =>
                 joined[q].cpu >= 2 * rank[x].at
        BY DEF ForwardInv, Barrier, Before
    <2>2. q \in Ranks  BY DEF Peers
    <2>3. joined'[q].cpu = joined[q].cpu  BY <2>2 DEF Proceeds
    <2>4. CASE x # r  BY <1>1, <2>1, <2>3, <2>4
    <2>5. CASE x = r
        <3>1. CASE rank[r].pc = "ready"
            <4>1. joined[q].cpu >= joined[r].cpu
                BY <2>5, <3>1 DEF Proceeds, Ready, Met
            <4>2. joined[r].cpu + 0 = 2 * rank[r].at  BY <3>1 DEF ForwardInv, Counts, If
            <4>3. joined[q].cpu \in Nat /\ joined[r].cpu \in Nat /\ rank[r].at \in Nat
                <5>1. joined[q] \in [cpu : Nat, gpu : Nat] /\ joined[r] \in [cpu : Nat, gpu : Nat]
                    BY <2>2 DEF ForwardInv, Counts
                <5>2. rank[r].at \in 0..Len(sent)  BY DEF ForwardInv, Workers
                <5> QED BY <5>1, <5>2
            <4>4. joined[q].cpu >= 2 * rank[r].at  BY <4>1, <4>2, <4>3
            <4> QED BY <1>3, <2>3, <2>5, <4>3, <4>4 DEF If
        <3>2. CASE rank[r].pc # "ready"
            <4>1. If(rank[r].pc \in {"enter", "ready"}, 2) = 0
                  /\ If(rank'[r].pc \in {"enter", "ready"}, 2) = 0
                BY <1>3, <3>2 DEF If
            <4> QED BY <1>3, <2>1, <2>3, <2>5, <4>1
        <3> QED BY <3>1, <3>2
    <2> QED BY <2>4, <2>5
<1>10. Mailed'
    <2>1. Mailed /\ mail' = mail  BY DEF ForwardInv, Proceeds
    <2>2. \A x \in Ranks : /\ rank'[x].at = rank[x].at
                           /\ (rank'[x].pc = "enter") = (rank[x].pc = "enter")
        BY <1>1, <1>3
    <2>3. \A x \in Ranks : Peers(x) \subseteq Ranks  BY DEF Peers
    <2>4. \A x \in Ranks : Due(x)' = Due(x)
        <3> SUFFICES ASSUME NEW x \in Ranks PROVE Due(x)' = Due(x)  OBVIOUS
        <3>1. \A d \in Peers(x) \ {x} :
                  (IsDriver(d) /\ rank'[d].at = rank'[x].at /\ rank'[d].pc # "enter")
                      = (IsDriver(d) /\ rank[d].at = rank[x].at /\ rank[d].pc # "enter")
            BY <2>2, <2>3
        <3> QED BY <1>2, <2>2, <3>1 DEF Due
    <2> QED BY <1>1, <1>2, <2>1, <2>2, <2>4 DEF Mailed
<1>11. Sending'
    <2>1. Sending  BY DEF ForwardInv
    <2>2. cfg.tp \in Nat \ {0}  BY Grid DEF ForwardInv, Route
    <2>3. \/ chan' = chan
          \/ rank[r].pc = "recv" /\ chan[r] # <<>> /\ chan' = [chan EXCEPT ![r] = Tail(@)]
          \/ /\ rank[r].pc = "reduce" /\ rank'[r].pc \in {"close", "sent"} /\ ~IsLast(r)
             /\ \E data : chan' = [chan EXCEPT ![r + cfg.tp] = Append(@, data)]
        BY DEF Proceeds
    <2>5. \A x \in Ranks : (~IsLast(x) /\ rank'[x].pc \in {"recv", "model", "reduce"}) =>
              chan[x + cfg.tp] = <<>>
        <3> SUFFICES ASSUME NEW x \in Ranks, ~IsLast(x),
                            rank'[x].pc \in {"recv", "model", "reduce"}
                     PROVE  chan[x + cfg.tp] = <<>>
            OBVIOUS
        <3>1. CASE x # r  BY <1>1, <2>1, <3>1 DEF Sending, Before
        <3>2. CASE x = r
            <4>1. CASE rank[r].pc = "ready"  BY <3>2, <4>1 DEF Proceeds, Ready
            <4>2. CASE rank[r].pc # "ready"
                BY <2>1, <3>2, <4>2 DEF Proceeds, Sending, Before
            <4> QED BY <4>1, <4>2
        <3> QED BY <3>1, <3>2
    <2>6. CASE chan' = chan  BY <1>1, <1>2, <2>1, <2>5, <2>6 DEF Sending, Before
    <2>7. CASE rank[r].pc = "recv" /\ chan[r] # <<>> /\ chan' = [chan EXCEPT ![r] = Tail(@)]
        <3>1. chan'[r] = <<>>
            <4>1. chan[r] = <<chan[r][1]>> /\ DOMAIN chan = Ranks  BY <2>1, <2>7 DEF Sending
            <4>2. \A v : Tail(<<v>>) = <<>>  OBVIOUS
            <4> QED BY <4>1, <4>2, <2>7
        <3>2. DOMAIN chan' = Ranks /\ \A y \in Ranks \ {r} : chan'[y] = chan[y]
            BY <2>1, <2>7 DEF Sending
        <3>3. \A x \in Ranks : ~IsLast(x) => x + cfg.tp \in Ranks
            BY NextStage DEF ForwardInv, Route
        <3>4. \A x \in Ranks : (~IsLast(x) /\ rank'[x].pc \in {"recv", "model", "reduce"}) =>
                  chan'[x + cfg.tp] = <<>>
            BY <2>5, <3>1, <3>2, <3>3
        <3>5. \A y \in Ranks : chan'[y] = <<>> \/ chan'[y] = <<chan'[y][1]>>
            BY <2>1, <3>1, <3>2 DEF Sending
        <3> QED BY <1>1, <1>2, <3>2, <3>4, <3>5 DEF Sending, Before
    <2>8. CASE /\ rank[r].pc = "reduce" /\ rank'[r].pc \in {"close", "sent"} /\ ~IsLast(r)
               /\ \E data : chan' = [chan EXCEPT ![r + cfg.tp] = Append(@, data)]
        <3> DEFINE z == r + cfg.tp
        <3>1. PICK data : chan' = [chan EXCEPT ![z] = Append(@, data)]  BY <2>8
        <3>2. z \in Ranks  BY <2>8, NextStage DEF ForwardInv, Route
        <3>3. chan[z] = <<>> /\ DOMAIN chan = Ranks  BY <2>1, <2>8 DEF Sending, Before
        <3>4. chan'[z] = <<data>>
            <4>1. Append(<<>>, data) = <<data>>  OBVIOUS
            <4> QED BY <4>1, <3>1, <3>2, <3>3
        <3>5. DOMAIN chan' = Ranks /\ \A y \in Ranks \ {z} : chan'[y] = chan[y]
            BY <3>1, <3>3
        <3>6. \A x \in Ranks \ {r} : x + cfg.tp # z  BY <1>4, <2>2
        <3>7. \A x \in Ranks : ~IsLast(x) => x + cfg.tp \in Ranks
            BY NextStage DEF ForwardInv, Route
        <3> HIDE DEF z
        <3>8. \A x \in Ranks : (~IsLast(x) /\ rank'[x].pc \in {"recv", "model", "reduce"}) =>
                  chan'[x + cfg.tp] = <<>>
            BY <2>5, <2>8, <3>5, <3>6, <3>7
        <3>9. \A y \in Ranks : chan'[y] = <<>> \/ chan'[y] = <<chan'[y][1]>>
            <4>1. chan'[z] = <<chan'[z][1]>>  BY <3>4
            <4> QED BY <2>1, <3>5, <4>1 DEF Sending
        <3> QED BY <1>1, <1>2, <3>5, <3>8, <3>9 DEF Sending, Before
    <2> QED BY <2>3, <2>6, <2>7, <2>8
<1>12. Clean'
    <2>1. /\ Clean /\ broken \subseteq broken'
          /\ rank'[r].flag => rank'[r].pc \in {"model", "reduce"}
        BY DEF ForwardInv, Proceeds
    <2> QED BY <1>1, <1>2, <1>3, <2>1 DEF Clean
<1>13. Placed'
    <2>1. /\ Placed
          /\ rank'[r].embeds \in {rank[r].embeds, Embeds(rank[r].args, cfg.pool[1])}
        BY DEF ForwardInv, Proceeds
    <2> SUFFICES ASSUME NEW q \in Ranks, rank'[q].embeds # "none"
                 PROVE  /\ rank'[q].pc \notin {"idle", "enter"}
                        /\ rank'[q].embeds = Embeds(rank'[q].args, cfg.pool[1])
        BY <1>1, <1>2 DEF Placed, Embeds, HasScratch
    <2>2. CASE q # r  BY <1>1, <2>1, <2>2 DEF Placed
    <2>3. CASE q = r  BY <1>3, <2>1, <2>3 DEF Placed
    <2> QED BY <2>2, <2>3
<1> QED BY <1>5, <1>6, <1>7, <1>8, <1>9, <1>10, <1>11, <1>12, <1>13 DEF ForwardInv

\* The next call, and the first barrier.
LEMMA StartsKeeps ==
    ASSUME ForwardInv, NEW r \in Ranks, Starts(r)
    PROVE  ForwardInv'
<1> DEFINE me == rank[r]
           you == [me EXCEPT !.pc = IF cfg.tp > 1 THEN "enter" ELSE "ready",
                             !.at = @ + 1, !.args = sent[me.at + 1],
                             !.open = cfg.moe, !.data = NoData, !.ok = TRUE, !.arts = <<>>]
<1>1. /\ cfg' = cfg /\ sent' = sent /\ req' = req /\ verdict' = verdict /\ mail' = mail
      /\ chan' = chan /\ broken' = broken /\ Joins(r, "cpu")
      /\ me.pc = "idle" /\ me.at < Len(sent) /\ Becomes(r, you)
    BY DEF Starts
<1>2. /\ Ranks' = Ranks
      /\ \A q : /\ Peers(q)' = Peers(q) /\ IsDriver(q)' = IsDriver(q)
                /\ IsLast(q)' = IsLast(q)
    BY <1>1, SameGrid
<1>3. /\ DOMAIN rank = Ranks /\ DOMAIN me = Fields /\ me.at \in 0..Len(sent)
      /\ me.flag \in BOOLEAN
    BY DEF ForwardInv, Workers
<1>4. Len(sent) \in Nat /\ cfg.moe \in BOOLEAN
    BY ConfigAssumption DEF ForwardInv, Route
<1>5. /\ DOMAIN you = Fields /\ you.at = me.at + 1 /\ you.args = sent[me.at + 1]
      /\ you.pc = (IF cfg.tp > 1 THEN "enter" ELSE "ready")
      /\ you.open = cfg.moe /\ you.ok = TRUE /\ you.flag = me.flag /\ you.embeds = me.embeds
    BY <1>3 DEF Fields
<1>6. /\ rank'[r] = you /\ DOMAIN rank' = Ranks
      /\ \A q \in Ranks \ {r} : rank'[q] = rank[q]
    BY <1>1, <1>3 DEF Becomes
<1> HIDE DEF you
<1>7. /\ DOMAIN joined' = Ranks
      /\ \A q \in Ranks : joined'[q] \in [cpu : Nat, gpu : Nat]
      /\ \A q \in Ranks \ {r} : joined'[q] = joined[q]
      /\ joined'[r].cpu = joined[r].cpu + If(cfg.tp > 1, 1)
      /\ joined'[r].gpu = joined[r].gpu
    BY <1>1, JoinsCpu DEF ForwardInv, Counts
<1>8. \A q \in Ranks : /\ joined[q].cpu \in Nat /\ joined[q].gpu \in Nat
                       /\ joined'[q].cpu \in Nat /\ rank[q].at \in Nat
    <2> SUFFICES ASSUME NEW q \in Ranks
                 PROVE  /\ joined[q].cpu \in Nat /\ joined[q].gpu \in Nat
                        /\ joined'[q].cpu \in Nat /\ rank[q].at \in Nat
        OBVIOUS
    <2>1. joined[q] \in [cpu : Nat, gpu : Nat] /\ joined'[q] \in [cpu : Nat, gpu : Nat]
        BY <1>7 DEF ForwardInv, Counts
    <2>2. rank[q].at \in 0..Len(sent)  BY DEF ForwardInv, Workers
    <2> QED BY <2>1, <2>2
<1>9. Route' /\ Room' /\ Leases'  BY <1>1, RouteUntouched
<1>10. Faults'  BY <1>1 DEF ForwardInv, Faults
<1>11. Workers'
    <2>1. Workers  BY DEF ForwardInv
    <2>2. you.at \in 0..Len(sent) /\ you.at >= 1 /\ you.args = sent[you.at]
        BY <1>1, <1>3, <1>4, <1>5
    <2>3. you.pc \in Places  BY <1>5 DEF Places
    <2> SUFFICES ASSUME NEW q \in Ranks
                 PROVE  /\ DOMAIN rank'[q] = Fields
                        /\ rank'[q].pc \in Places
                        /\ rank'[q].at \in 0..Len(sent)
                        /\ rank'[q].flag \in BOOLEAN /\ rank'[q].open \in BOOLEAN
                        /\ rank'[q].ok \in BOOLEAN
                        /\ rank'[q].pc # "idle" =>
                              rank'[q].at >= 1 /\ rank'[q].args = sent[rank'[q].at]
        BY <1>1, <1>2, <1>6 DEF Workers
    <2>4. CASE q # r  BY <1>6, <2>1, <2>4 DEF Workers
    <2>5. CASE q = r  BY <1>3, <1>4, <1>5, <1>6, <2>2, <2>3, <2>5
    <2> QED BY <2>4, <2>5
<1>12. /\ joined[r].cpu = If(cfg.tp > 1, 2 * me.at) /\ joined[r].gpu <= me.at
    <2>1. /\ joined[r].cpu + If(me.pc = "enter", 1) = If(cfg.tp > 1, 2 * me.at)
          /\ joined[r].gpu + If(me.pc \in {"enter", "ready", "recv", "model"}, 1) <= me.at
        BY DEF ForwardInv, Counts, Before
    <2>2. If(me.pc = "enter", 1) = 0 /\ If(me.pc \in {"enter", "ready", "recv", "model"}, 1) = 0
        BY <1>1 DEF If
    <2> QED BY <2>1, <2>2, <1>8
<1>13. Counts'
    <2>1. Counts  BY DEF ForwardInv
    <2>2. \A q \in Ranks \ {r} :
              /\ joined'[q].cpu + If(rank'[q].pc = "enter", 1) = If(cfg.tp > 1, 2 * rank'[q].at)
              /\ joined'[q].gpu + If(rank'[q].pc \in {"enter", "ready", "recv", "model"}, 1)
                     <= rank'[q].at
              /\ rank'[q].pc = "enter" => cfg.tp > 1
        BY <1>6, <1>7, <2>1 DEF Counts, Before
    <2>3. joined'[r].cpu + If(you.pc = "enter", 1) = If(cfg.tp > 1, 2 * you.at)
        BY <1>5, <1>7, <1>8, <1>12 DEF If
    <2>4. joined'[r].gpu + If(you.pc \in {"enter", "ready", "recv", "model"}, 1) <= you.at
        BY <1>5, <1>7, <1>8, <1>12 DEF If
    <2>5. you.pc = "enter" => cfg.tp > 1  BY <1>5
    <2> QED BY <1>1, <1>2, <1>6, <1>7, <2>2, <2>3, <2>4, <2>5 DEF Counts, Before
<1>14. Barrier'
    <2> SUFFICES ASSUME cfg.tp > 1, NEW x \in Ranks, NEW q \in Peers(x)
                 PROVE  /\ joined'[q].cpu + If(rank'[x].pc \in {"enter", "ready"}, 2)
                               >= 2 * rank'[x].at
                        /\ (IsDriver(x) /\ rank'[x].pc # "enter") =>
                               joined'[q].cpu + 1 >= 2 * rank'[x].at
                        /\ (IsDriver(q) /\ ~IsDriver(x) /\ rank'[x].pc # "enter") =>
                               joined'[q].cpu >= 2 * rank'[x].at
        BY <1>1, <1>2 DEF Barrier, Before
    <2>1. /\ joined[q].cpu + If(rank[x].pc \in {"enter", "ready"}, 2) >= 2 * rank[x].at
          /\ (IsDriver(x) /\ rank[x].pc # "enter") => joined[q].cpu + 1 >= 2 * rank[x].at
          /\ (IsDriver(q) /\ ~IsDriver(x) /\ rank[x].pc # "enter") =>
                 joined[q].cpu >= 2 * rank[x].at
        BY DEF ForwardInv, Barrier, Before
    <2>2. q \in Ranks  BY DEF Peers
    <2>3. joined'[q].cpu >= joined[q].cpu
        <3>1. CASE q = r  BY <1>7, <1>8, <3>1 DEF If
        <3>2. CASE q # r  BY <1>7, <1>8, <2>2, <3>2
        <3> QED BY <3>1, <3>2
    <2>4. CASE x # r
        <3>1. rank'[x] = rank[x]  BY <1>6, <2>4
        <3> QED BY <1>8, <2>1, <2>2, <2>3, <3>1 DEF If
    <2>5. CASE x = r
        <3>1. joined[q].cpu >= 2 * me.at  BY <1>1, <1>8, <2>1, <2>2, <2>5 DEF If
        <3>2. you.pc = "enter"  BY <1>5
        <3>3. joined'[q].cpu + 2 >= 2 * you.at  BY <1>5, <1>8, <2>2, <2>3, <3>1
        <3> QED BY <1>6, <2>5, <3>2, <3>3 DEF If
    <2> QED BY <2>4, <2>5
<1>15. Mailed'
    <2>1. Mailed  BY DEF ForwardInv
    <2>2. \A x \in Ranks : Peers(x) \subseteq Ranks  BY DEF Peers
    \* No peer still waits for the broadcast of the call that its driver leaves.
    <2>3. \A x \in Ranks \ {r} : Due(x)' = Due(x)
        <3> SUFFICES ASSUME NEW x \in Ranks \ {r} PROVE Due(x)' = Due(x)  OBVIOUS
        <3>1. rank'[x] = rank[x]  BY <1>6
        <3>2. CASE rank[x].pc # "enter"  BY <3>1, <3>2 DEF Due
        <3>3. CASE rank[x].pc = "enter"
            <4>1. cfg.tp > 1 /\ joined[x].cpu + 1 = 2 * rank[x].at
                BY <3>3 DEF ForwardInv, Counts, If
            <4>2. r \in Peers(x) => rank[r].at # rank[x].at
                <5> SUFFICES ASSUME r \in Peers(x), rank[r].at = rank[x].at PROVE FALSE
                    OBVIOUS
                <5>1. x \in Peers(r)  BY DEF Peers
                <5>2. joined[x].cpu + If(me.pc \in {"enter", "ready"}, 2) >= 2 * me.at
                    BY <4>1, <5>1 DEF ForwardInv, Barrier, Before
                <5> QED BY <1>1, <1>8, <4>1, <5>2 DEF If
            <4>3. you.pc = "enter"  BY <1>5, <4>1
            <4>4. \A d \in Peers(x) \ {x} :
                      (IsDriver(d) /\ rank'[d].at = rank'[x].at /\ rank'[d].pc # "enter")
                          = (IsDriver(d) /\ rank[d].at = rank[x].at /\ rank[d].pc # "enter")
                <5> SUFFICES ASSUME NEW d \in Peers(x) \ {x}
                             PROVE  (IsDriver(d) /\ rank'[d].at = rank'[x].at
                                        /\ rank'[d].pc # "enter")
                                        = (IsDriver(d) /\ rank[d].at = rank[x].at
                                              /\ rank[d].pc # "enter")
                    OBVIOUS
                <5>1. CASE d = r  BY <1>6, <3>1, <4>2, <4>3, <5>1
                <5>2. CASE d # r  BY <1>6, <2>2, <3>1, <5>2
                <5> QED BY <5>1, <5>2
            <4> QED BY <1>2, <3>1, <4>4 DEF Due
        <3> QED BY <3>2, <3>3
    \* Nor has a driver made the broadcast of a call that a peer has not started.
    <2>4. ~ Due(r) /\ ~ Due(r)'
        <3>1. ~ Due(r)  BY <1>1 DEF Due
        <3>2. ASSUME NEW d \in Peers(r) \ {r}, IsDriver(d), rank'[d].at = rank'[r].at,
                     rank'[d].pc # "enter", rank'[r].pc = "enter"
              PROVE  FALSE
            <4>1. d \in Ranks /\ rank'[d] = rank[d] /\ r \in Peers(d)
                BY <1>6, <2>2 DEF Peers
            <4>2. cfg.tp > 1  BY <1>5, <1>6, <3>2
            <4>3. joined[r].cpu + 1 >= 2 * rank[d].at
                BY <3>2, <4>1, <4>2 DEF ForwardInv, Barrier
            <4>4. rank[d].at = me.at + 1  BY <1>5, <1>6, <3>2, <4>1
            <4>5. joined[r].cpu = 2 * me.at  BY <1>12, <4>2 DEF If
            <4> QED BY <1>8, <4>3, <4>4, <4>5
        <3>3. ~ Due(r)'  BY <1>2, <3>2 DEF Due
        <3> QED BY <3>1, <3>3
    <2>5. \A x \in Ranks : mail'[x] = IF Due(x)' THEN <<sent[rank'[x].at]>> ELSE <<>>
        BY <1>1, <1>6, <2>1, <2>3, <2>4 DEF Mailed
    <2> QED BY <1>1, <1>2, <2>1, <2>5 DEF Mailed
<1>16. Sending'
    <2>1. Sending  BY DEF ForwardInv
    <2>2. you.pc \notin {"recv", "model", "reduce"}  BY <1>5
    <2> QED BY <1>1, <1>2, <1>6, <2>1, <2>2 DEF Sending, Before
<1>17. Clean'
    <2>1. Clean  BY DEF ForwardInv
    <2>2. ~ you.flag /\ you.pc # "idle"  BY <1>1, <1>3, <1>5, <2>1 DEF Clean
    <2> QED BY <1>1, <1>2, <1>6, <2>1, <2>2 DEF Clean
<1>18. Placed'
    <2>1. Placed  BY DEF ForwardInv
    <2>2. you.embeds = "none"  BY <1>1, <1>5, <2>1 DEF Placed
    <2> SUFFICES ASSUME NEW q \in Ranks, rank'[q].embeds # "none"
                 PROVE  /\ rank'[q].pc \notin {"idle", "enter"}
                        /\ rank'[q].embeds = Embeds(rank'[q].args, cfg.pool[1])
        BY <1>1, <1>2 DEF Placed, Embeds, HasScratch
    <2> QED BY <1>6, <2>1, <2>2 DEF Placed
<1> QED BY <1>9, <1>10, <1>11, <1>13, <1>14, <1>15, <1>16, <1>17, <1>18 DEF ForwardInv

\* The driver at the first barrier: its peers are there, in the same call.
LEMMA PeersWait ==
    ASSUME ForwardInv, NEW r \in Ranks, rank[r].pc = "enter", IsDriver(r), Met(r, "cpu"),
           NEW q \in Peers(r) \ {r}
    PROVE  /\ rank[q].at = rank[r].at /\ rank[q].pc = "enter" /\ mail[q] = <<>>
           /\ ~ IsDriver(q)
<1>1. q \in Ranks /\ r \in Peers(q) /\ Stage(q) = Stage(r)  BY DEF Peers
<1>2. ~ IsDriver(q)  BY OneDriver DEF ForwardInv, Route
<1>3. cfg.tp > 1 /\ joined[r].cpu + 1 = 2 * rank[r].at
    BY DEF ForwardInv, Counts, If
<1>4. /\ joined[q].cpu + If(rank[q].pc = "enter", 1) = 2 * rank[q].at
      /\ joined[r].cpu + If(rank[q].pc \in {"enter", "ready"}, 2) >= 2 * rank[q].at
      /\ rank[q].pc # "enter" => joined[r].cpu >= 2 * rank[q].at
    BY <1>1, <1>2, <1>3 DEF ForwardInv, Counts, Barrier, Before, If
<1>5. joined[q].cpu >= joined[r].cpu  BY DEF Met
<1>6. /\ joined[q].cpu \in Nat /\ joined[r].cpu \in Nat
      /\ rank[q].at \in Nat /\ rank[r].at \in Nat
    <2>1. joined[q] \in [cpu : Nat, gpu : Nat] /\ joined[r] \in [cpu : Nat, gpu : Nat]
        BY <1>1 DEF ForwardInv, Counts
    <2>2. rank[q].at \in 0..Len(sent) /\ rank[r].at \in 0..Len(sent)
        BY <1>1 DEF ForwardInv, Workers
    <2> QED BY <2>1, <2>2
<1>7. rank[q].at = rank[r].at  BY <1>3, <1>4, <1>5, <1>6 DEF If
<1>8. rank[q].pc = "enter"  BY <1>3, <1>4, <1>6, <1>7
<1>9. ~ Due(q)
    <2> SUFFICES ASSUME NEW d \in Peers(q) \ {q}, IsDriver(d), rank[d].pc # "enter"
                 PROVE  FALSE
        BY DEF Due
    <2>1. d \in Peers(r)  BY <1>1 DEF Peers
    <2>2. d = r  BY <2>1, OneDriver DEF ForwardInv, Route
    <2> QED BY <2>2
<1>10. mail[q] = <<>>  BY <1>1, <1>9 DEF ForwardInv, Mailed
<1> QED BY <1>2, <1>7, <1>8, <1>10

\* A driver waits for no broadcast.
LEMMA DriverNotDue ==
    ASSUME cfg \in Configs, NEW r \in Ranks, IsDriver(r)
    PROVE  ~ Due(r)
<1> SUFFICES ASSUME NEW d \in Peers(r) \ {r}, IsDriver(d) PROVE FALSE  BY DEF Due
<1> QED BY OneDriver

\* The two steps past the first barrier.  They differ in the broadcast.
Enters(r) ==
    /\ cfg' = cfg /\ sent' = sent /\ req' = req /\ verdict' = verdict
    /\ chan' = chan /\ broken' = broken
    /\ rank[r].pc = "enter" /\ Met(r, "cpu") /\ Joins(r, "cpu")
    /\ DOMAIN rank' = Ranks /\ \A q \in Ranks \ {r} : rank'[q] = rank[q]
    /\ DOMAIN rank'[r] = Fields
    /\ rank'[r].pc = "ready" /\ rank'[r].at = rank[r].at /\ rank'[r].args = rank[r].args
    /\ rank'[r].flag = rank[r].flag /\ rank'[r].open = rank[r].open
    /\ rank'[r].ok = rank[r].ok /\ rank'[r].embeds = rank[r].embeds
    /\ (~ IsDriver(r)) =>
           \A q \in Peers(r) : IsDriver(q) => joined[q].cpu >= 2 * rank[r].at

\* Whether they broadcast or receive, they keep everything but the mail.
LEMMA EntersKeeps ==
    ASSUME ForwardInv, NEW r \in Ranks, Enters(r), Mailed'
    PROVE  ForwardInv'
<1>1. /\ cfg' = cfg /\ sent' = sent /\ req' = req /\ verdict' = verdict
      /\ chan' = chan /\ broken' = broken
      /\ rank[r].pc = "enter" /\ Met(r, "cpu") /\ Joins(r, "cpu")
      /\ DOMAIN rank' = Ranks /\ \A q \in Ranks \ {r} : rank'[q] = rank[q]
      /\ DOMAIN rank'[r] = Fields
      /\ rank'[r].pc = "ready" /\ rank'[r].at = rank[r].at /\ rank'[r].args = rank[r].args
      /\ rank'[r].flag = rank[r].flag /\ rank'[r].open = rank[r].open
      /\ rank'[r].ok = rank[r].ok /\ rank'[r].embeds = rank[r].embeds
    BY DEF Enters
<1>2. /\ Ranks' = Ranks
      /\ \A q : /\ Peers(q)' = Peers(q) /\ IsDriver(q)' = IsDriver(q)
                /\ IsLast(q)' = IsLast(q)
    BY <1>1, SameGrid
<1>3. /\ DOMAIN joined' = Ranks
      /\ \A q \in Ranks : joined'[q] \in [cpu : Nat, gpu : Nat]
      /\ \A q \in Ranks \ {r} : joined'[q] = joined[q]
      /\ joined'[r].cpu = joined[r].cpu + If(cfg.tp > 1, 1)
      /\ joined'[r].gpu = joined[r].gpu
    BY <1>1, JoinsCpu DEF ForwardInv, Counts
<1>4. \A q \in Ranks : /\ joined[q].cpu \in Nat /\ joined[q].gpu \in Nat
                       /\ joined'[q].cpu \in Nat /\ rank[q].at \in Nat
    <2> SUFFICES ASSUME NEW q \in Ranks
                 PROVE  /\ joined[q].cpu \in Nat /\ joined[q].gpu \in Nat
                        /\ joined'[q].cpu \in Nat /\ rank[q].at \in Nat
        OBVIOUS
    <2>1. joined[q] \in [cpu : Nat, gpu : Nat] /\ joined'[q] \in [cpu : Nat, gpu : Nat]
        BY <1>3 DEF ForwardInv, Counts
    <2>2. rank[q].at \in 0..Len(sent)  BY DEF ForwardInv, Workers
    <2> QED BY <2>1, <2>2
<1>5. cfg.tp > 1 /\ joined[r].cpu + 1 = 2 * rank[r].at /\ joined[r].gpu + 1 <= rank[r].at
    BY <1>1 DEF ForwardInv, Counts, Before, If
<1>6. joined'[r].cpu = 2 * rank[r].at  BY <1>3, <1>4, <1>5 DEF If
<1>7. Route' /\ Room' /\ Leases'  BY <1>1, RouteUntouched
<1>8. Faults'  BY <1>1 DEF ForwardInv, Faults
<1>9. Workers'
    <2>1. Workers  BY DEF ForwardInv
    <2> SUFFICES ASSUME NEW q \in Ranks
                 PROVE  /\ DOMAIN rank'[q] = Fields
                        /\ rank'[q].pc \in Places
                        /\ rank'[q].at \in 0..Len(sent)
                        /\ rank'[q].flag \in BOOLEAN /\ rank'[q].open \in BOOLEAN
                        /\ rank'[q].ok \in BOOLEAN
                        /\ rank'[q].pc # "idle" =>
                              rank'[q].at >= 1 /\ rank'[q].args = sent[rank'[q].at]
        BY <1>1, <1>2 DEF Workers
    <2>2. CASE q # r  BY <1>1, <2>1, <2>2 DEF Workers
    <2>3. CASE q = r  BY <1>1, <2>1, <2>3 DEF Workers, Places
    <2> QED BY <2>2, <2>3
<1>10. Counts'
    <2>1. Counts  BY DEF ForwardInv
    <2>2. \A q \in Ranks \ {r} :
              /\ joined'[q].cpu + If(rank'[q].pc = "enter", 1) = If(cfg.tp > 1, 2 * rank'[q].at)
              /\ joined'[q].gpu + If(rank'[q].pc \in {"enter", "ready", "recv", "model"}, 1)
                     <= rank'[q].at
              /\ rank'[q].pc = "enter" => cfg.tp > 1
        BY <1>1, <1>3, <2>1 DEF Counts, Before
    <2>3. joined'[r].cpu + If(rank'[r].pc = "enter", 1) = If(cfg.tp > 1, 2 * rank'[r].at)
        BY <1>1, <1>4, <1>5, <1>6 DEF If
    <2>4. joined'[r].gpu + If(rank'[r].pc \in {"enter", "ready", "recv", "model"}, 1)
              <= rank'[r].at
        BY <1>1, <1>3, <1>4, <1>5 DEF If
    <2> QED BY <1>1, <1>2, <1>3, <2>2, <2>3, <2>4 DEF Counts, Before
<1>11. Barrier'
    <2> SUFFICES ASSUME NEW x \in Ranks, NEW q \in Peers(x)
                 PROVE  /\ joined'[q].cpu + If(rank'[x].pc \in {"enter", "ready"}, 2)
                               >= 2 * rank'[x].at
                        /\ (IsDriver(x) /\ rank'[x].pc # "enter") =>
                               joined'[q].cpu + 1 >= 2 * rank'[x].at
                        /\ (IsDriver(q) /\ ~IsDriver(x) /\ rank'[x].pc # "enter") =>
                               joined'[q].cpu >= 2 * rank'[x].at
        BY <1>1, <1>2 DEF Barrier, Before
    <2>1. /\ joined[q].cpu + If(rank[x].pc \in {"enter", "ready"}, 2) >= 2 * rank[x].at
          /\ (IsDriver(x) /\ rank[x].pc # "enter") => joined[q].cpu + 1 >= 2 * rank[x].at
          /\ (IsDriver(q) /\ ~IsDriver(x) /\ rank[x].pc # "enter") =>
                 joined[q].cpu >= 2 * rank[x].at
        BY <1>5 DEF ForwardInv, Barrier, Before
    <2>2. q \in Ranks  BY DEF Peers
    <2>3. joined'[q].cpu >= joined[q].cpu
        <3>1. CASE q = r  BY <1>3, <1>4, <3>1 DEF If
        <3>2. CASE q # r  BY <1>3, <1>4, <2>2, <3>2
        <3> QED BY <3>1, <3>2
    <2>4. CASE x # r
        <3>1. rank'[x] = rank[x]  BY <1>1, <2>4
        <3> QED BY <1>4, <2>1, <2>2, <2>3, <3>1 DEF If
    <2>5. CASE x = r
        <3>1. joined'[q].cpu + If(rank'[r].pc \in {"enter", "ready"}, 2) >= 2 * rank'[r].at
            BY <1>1, <1>4, <2>1, <2>2, <2>3, <2>5 DEF If
        <3>2. joined[q].cpu >= joined[r].cpu  BY <1>1, <2>5 DEF Met
        <3>3. joined'[q].cpu + 1 >= 2 * rank'[r].at
            BY <1>1, <1>4, <1>5, <2>2, <2>3, <3>2
        <3>4. (IsDriver(q) /\ ~IsDriver(r)) => joined'[q].cpu >= 2 * rank'[r].at
            <4>1. (IsDriver(q) /\ ~IsDriver(r)) => joined[q].cpu >= 2 * rank[r].at
                BY <2>5 DEF Enters
            <4> QED BY <1>1, <1>4, <2>2, <2>3, <4>1
        <3> QED BY <2>5, <3>1, <3>3, <3>4
    <2> QED BY <2>4, <2>5
<1>12. Sending'  BY <1>1, <1>2 DEF ForwardInv, Sending, Before
<1>13. Clean'
    <2>1. Clean  BY DEF ForwardInv
    <2> QED BY <1>1, <1>2, <2>1 DEF Clean
<1>14. Placed'
    <2>1. Placed  BY DEF ForwardInv
    <2>2. rank'[r].embeds = "none"  BY <1>1, <2>1 DEF Placed
    <2> SUFFICES ASSUME NEW q \in Ranks, rank'[q].embeds # "none"
                 PROVE  /\ rank'[q].pc \notin {"idle", "enter"}
                        /\ rank'[q].embeds = Embeds(rank'[q].args, cfg.pool[1])
        BY <1>1, <1>2 DEF Placed, Embeds, HasScratch
    <2> QED BY <1>1, <2>1, <2>2 DEF Placed
<1> QED BY <1>7, <1>8, <1>9, <1>10, <1>11, <1>12, <1>13, <1>14 DEF ForwardInv

\* The broadcast.
LEMMA BroadcastsKeeps ==
    ASSUME ForwardInv, NEW r \in Ranks, Broadcasts(r)
    PROVE  ForwardInv'
<1> DEFINE me == rank[r]
<1>1. /\ cfg' = cfg /\ sent' = sent /\ req' = req /\ verdict' = verdict
      /\ chan' = chan /\ broken' = broken
      /\ me.pc = "enter" /\ IsDriver(r) /\ Met(r, "cpu") /\ Joins(r, "cpu")
      /\ Becomes(r, [me EXCEPT !.pc = "ready"])
      /\ mail' = [q \in Ranks |-> IF q \in Peers(r) \ {r} THEN Append(mail[q], me.args)
                                  ELSE mail[q]]
    BY DEF Broadcasts
<1>2. /\ DOMAIN rank = Ranks /\ DOMAIN me = Fields /\ me.args = sent[me.at]
    BY <1>1 DEF ForwardInv, Workers
<1>3. /\ rank' = [rank EXCEPT ![r] = [me EXCEPT !.pc = "ready"]]
      /\ DOMAIN rank' = Ranks /\ \A q \in Ranks \ {r} : rank'[q] = rank[q]
      /\ rank'[r] = [me EXCEPT !.pc = "ready"]
    BY <1>1, <1>2 DEF Becomes
<1>4. /\ DOMAIN rank'[r] = Fields /\ rank'[r].pc = "ready" /\ rank'[r].at = me.at
      /\ rank'[r].args = me.args /\ rank'[r].flag = me.flag /\ rank'[r].open = me.open
      /\ rank'[r].ok = me.ok /\ rank'[r].embeds = me.embeds
    BY <1>2, <1>3 DEF Fields
<1>5. Enters(r)  BY <1>1, <1>3, <1>4 DEF Enters
<1>6. Ranks' = Ranks /\ \A q : Peers(q)' = Peers(q) /\ IsDriver(q)' = IsDriver(q)
    BY <1>1, SameGrid
<1>7. Mailed'
    <2>1. Mailed /\ cfg \in Configs  BY DEF ForwardInv, Route
    <2> SUFFICES ASSUME NEW x \in Ranks
                 PROVE  mail'[x] = IF Due(x)' THEN <<sent[rank'[x].at]>> ELSE <<>>
        BY <1>1, <1>6 DEF Mailed
    <2>2. CASE x \in Peers(r) \ {r}
        <3>1. rank[x].at = me.at /\ rank[x].pc = "enter" /\ mail[x] = <<>>
            BY <1>1, <2>2, PeersWait
        <3>2. r \in Peers(x) \ {x}  BY <2>2 DEF Peers
        <3>3. Due(x)'
            <4>1. rank'[x] = rank[x]  BY <1>3, <2>2
            <4>2. IsDriver(r) /\ rank'[r].at = rank'[x].at /\ rank'[r].pc # "enter"
                BY <1>1, <1>4, <3>1, <4>1
            <4> QED BY <1>6, <3>1, <3>2, <4>1, <4>2 DEF Due
        <3>4. mail'[x] = Append(<<>>, sent[me.at])  BY <1>1, <1>2, <2>2, <3>1
        <3>5. Append(<<>>, sent[me.at]) = <<sent[me.at]>>  OBVIOUS
        <3>6. rank'[x].at = me.at  BY <1>3, <2>2, <3>1
        <3> QED BY <3>3, <3>4, <3>5, <3>6
    <2>3. CASE x = r
        <3>1. mail'[r] = mail[r] /\ ~ Due(r)  BY <1>1, <2>1, DriverNotDue
        <3>2. ~ Due(r)'  BY <1>4 DEF Due
        <3> QED BY <2>1, <2>3, <3>1, <3>2 DEF Mailed
    <2>4. CASE x \notin Peers(r)
        <3>1. mail'[x] = mail[x]  BY <1>1, <2>4
        <3>2. r \notin Peers(x) /\ Peers(x) \subseteq Ranks /\ x # r  BY <2>4 DEF Peers
        <3>3. Due(x)' = Due(x)  BY <1>3, <1>6, <3>2 DEF Due
        <3>4. rank'[x] = rank[x]  BY <1>3, <3>2
        <3> QED BY <2>1, <3>1, <3>3, <3>4 DEF Mailed
    <2> QED BY <2>2, <2>3, <2>4
<1> QED BY <1>5, <1>7, EntersKeeps

\* The other ranks: what they receive is the call that they are in.
LEMMA ReceivesKeeps ==
    ASSUME ForwardInv, NEW r \in Ranks, Receives(r)
    PROVE  ForwardInv'
<1> DEFINE me == rank[r]
           args == [Head(mail[r]) EXCEPT !.hash = me.args.hash]
<1>1. /\ cfg' = cfg /\ sent' = sent /\ req' = req /\ verdict' = verdict
      /\ chan' = chan /\ broken' = broken
      /\ me.pc = "enter" /\ ~ IsDriver(r) /\ Met(r, "cpu") /\ Joins(r, "cpu")
      /\ Becomes(r, [me EXCEPT !.pc = "ready", !.args = args])
      /\ mail[r] # <<>> /\ mail' = [mail EXCEPT ![r] = Tail(@)]
    BY DEF Receives
<1>2. /\ DOMAIN rank = Ranks /\ DOMAIN me = Fields /\ me.args = sent[me.at]
      /\ me.at \in 1..Len(sent)
    <2>1. /\ DOMAIN rank = Ranks /\ DOMAIN me = Fields /\ me.args = sent[me.at]
          /\ me.at \in 0..Len(sent) /\ me.at >= 1
        BY <1>1 DEF ForwardInv, Workers
    <2> QED BY <2>1
<1>3. mail[r] = <<sent[me.at]>> /\ Due(r) /\ DOMAIN mail = Ranks
    BY <1>1 DEF ForwardInv, Mailed
<1>4. args = me.args
    <2>1. Head(mail[r]) = sent[me.at]  BY <1>3
    <2>2. sent[me.at] \in Calls  BY <1>2 DEF ForwardInv, Route
    <2>3. \A c \in Calls : [c EXCEPT !.hash = c.hash] = c  BY DEF Calls
    <2> QED BY <1>2, <2>1, <2>2, <2>3
<1> HIDE DEF args
<1>5. /\ DOMAIN rank' = Ranks /\ \A q \in Ranks \ {r} : rank'[q] = rank[q]
      /\ rank'[r] = [me EXCEPT !.pc = "ready", !.args = args]
    BY <1>1, <1>2 DEF Becomes
<1>6. /\ DOMAIN rank'[r] = Fields /\ rank'[r].pc = "ready" /\ rank'[r].at = me.at
      /\ rank'[r].args = me.args /\ rank'[r].flag = me.flag /\ rank'[r].open = me.open
      /\ rank'[r].ok = me.ok /\ rank'[r].embeds = me.embeds
    BY <1>2, <1>4, <1>5 DEF Fields
<1>7. \A q \in Peers(r) : IsDriver(q) => joined[q].cpu >= 2 * me.at
    <2> SUFFICES ASSUME NEW q \in Peers(r), IsDriver(q) PROVE joined[q].cpu >= 2 * me.at
        OBVIOUS
    <2>1. PICK d \in Peers(r) \ {r} :
             IsDriver(d) /\ rank[d].at = me.at /\ rank[d].pc # "enter"
        BY <1>3 DEF Due
    <2>2. d \in Ranks /\ q \in Peers(d)  BY DEF Peers
    <2>3. d = q  BY <2>1, <2>2, OneDriver DEF ForwardInv, Route
    <2>4. joined[d].cpu + 0 = 2 * me.at
        BY <1>1, <2>1, <2>2 DEF ForwardInv, Counts, If
    <2>5. joined[d].cpu \in Nat
        <3>1. joined[d] \in [cpu : Nat, gpu : Nat]  BY <2>2 DEF ForwardInv, Counts
        <3> QED BY <3>1
    <2> QED BY <1>2, <2>3, <2>4, <2>5
<1>8. Enters(r)  BY <1>1, <1>5, <1>6, <1>7 DEF Enters
<1>9. Ranks' = Ranks /\ \A q : Peers(q)' = Peers(q) /\ IsDriver(q)' = IsDriver(q)
    BY <1>1, SameGrid
<1>10. Mailed'
    <2>1. Mailed  BY DEF ForwardInv
    <2> SUFFICES ASSUME NEW x \in Ranks
                 PROVE  mail'[x] = IF Due(x)' THEN <<sent[rank'[x].at]>> ELSE <<>>
        BY <1>1, <1>3, <1>9 DEF Mailed
    <2>2. CASE x = r
        <3>1. Tail(<<sent[me.at]>>) = <<>>  OBVIOUS
        <3>2. mail'[r] = <<>>  BY <1>1, <1>3, <3>1
        <3>3. ~ Due(r)'  BY <1>6 DEF Due
        <3> QED BY <2>2, <3>2, <3>3
    <2>3. CASE x # r
        <3>1. mail'[x] = mail[x] /\ rank'[x] = rank[x]  BY <1>1, <1>3, <1>5, <2>3
        <3>2. \A d \in Peers(x) : IsDriver(d) => rank'[d] = rank[d]
            <4>1. Peers(x) \subseteq Ranks  BY DEF Peers
            <4> QED BY <1>1, <1>5, <4>1
        <3>3. Due(x)' = Due(x)  BY <1>9, <3>1, <3>2 DEF Due
        <3> QED BY <2>1, <3>1, <3>3 DEF Mailed
    <2> QED BY <2>2, <2>3
<1> QED BY <1>8, <1>10, EntersKeeps

\* The answer, with the workspace locked again or stuck.
LEMMA ClosesKeeps ==
    ASSUME ForwardInv, NEW r \in Ranks, Closes(r)
    PROVE  ForwardInv'
<1> DEFINE me == rank[r]
<1>1. PICK stuck \in {FALSE, me.open} :
          /\ IF stuck THEN Breaks(r, "lock") ELSE broken' = broken
          /\ Becomes(r, [me EXCEPT !.pc = "idle", !.open = stuck, !.args = NoCall,
                                   !.embeds = "none"])
    BY DEF Closes
<1>2. /\ cfg' = cfg /\ sent' = sent /\ req' = req /\ verdict' = verdict
      /\ mail' = mail /\ chan' = chan /\ joined' = joined /\ me.pc = "close"
    BY DEF Closes
<1>3. /\ DOMAIN rank = Ranks /\ DOMAIN me = Fields /\ me.flag \in BOOLEAN
      /\ me.open \in BOOLEAN /\ me.ok \in BOOLEAN /\ me.at \in 0..Len(sent)
    BY DEF ForwardInv, Workers
<1> DEFINE you == [me EXCEPT !.pc = "idle", !.open = stuck, !.args = NoCall,
                             !.embeds = "none"]
<1>4. /\ DOMAIN you = Fields /\ you.at = me.at /\ you.pc = "idle" /\ you.open = stuck
      /\ you.embeds = "none" /\ you.flag = me.flag /\ you.ok = me.ok
    BY <1>3 DEF Fields
<1>5. /\ rank'[r] = you /\ DOMAIN rank' = Ranks
      /\ \A q \in Ranks \ {r} : rank'[q] = rank[q]
    BY <1>1, <1>3 DEF Becomes
<1> HIDE DEF you
<1>6. /\ Ranks' = Ranks
      /\ \A q : /\ Peers(q)' = Peers(q) /\ IsDriver(q)' = IsDriver(q)
                /\ IsLast(q)' = IsLast(q)
    BY <1>2, SameGrid
<1>7. Route' /\ Room' /\ Leases'  BY <1>2, RouteUntouched
<1>8. /\ Faults' /\ broken \subseteq broken'
      /\ stuck => [kind |-> "lock", rank |-> r, call |-> me.at] \in broken'
    <2>1. Faults /\ cfg \in Configs  BY DEF ForwardInv, Route
    <2>2. CASE stuck
        <3>1. Breaks(r, "lock")  BY <1>1, <2>2
        <3> QED BY <1>2, <2>1, <3>1, BreaksCounts
    <2>3. CASE ~ stuck
        <3>1. broken' = broken  BY <1>1, <2>3
        <3> QED BY <1>2, <2>1, <2>3, <3>1 DEF Faults
    <2> QED BY <2>2, <2>3
<1>9. Workers'
    <2>1. Workers  BY DEF ForwardInv
    <2>2. you.pc \in Places /\ you.open \in BOOLEAN  BY <1>1, <1>3, <1>4 DEF Places
    <2> SUFFICES ASSUME NEW q \in Ranks
                 PROVE  /\ DOMAIN rank'[q] = Fields
                        /\ rank'[q].pc \in Places
                        /\ rank'[q].at \in 0..Len(sent)
                        /\ rank'[q].flag \in BOOLEAN /\ rank'[q].open \in BOOLEAN
                        /\ rank'[q].ok \in BOOLEAN
                        /\ rank'[q].pc # "idle" =>
                              rank'[q].at >= 1 /\ rank'[q].args = sent[rank'[q].at]
        BY <1>2, <1>5, <1>6 DEF Workers
    <2>3. CASE q # r  BY <1>5, <2>1, <2>3 DEF Workers
    <2>4. CASE q = r  BY <1>3, <1>4, <1>5, <2>2, <2>4
    <2> QED BY <2>3, <2>4
<1>10. Counts'
    <2>1. Counts  BY DEF ForwardInv
    <2>2. \A q \in Ranks :
              /\ rank'[q].at = rank[q].at /\ (rank'[q].pc = "enter") = (rank[q].pc = "enter")
              /\ (rank'[q].pc \in {"enter", "ready", "recv", "model"})
                     = (rank[q].pc \in {"enter", "ready", "recv", "model"})
        BY <1>2, <1>4, <1>5
    <2> QED BY <1>2, <1>6, <2>1, <2>2 DEF Counts, Before
<1>11. Barrier'
    <2>1. Barrier  BY DEF ForwardInv
    <2>2. \A q \in Ranks :
              /\ rank'[q].at = rank[q].at /\ (rank'[q].pc # "enter") = (rank[q].pc # "enter")
              /\ (rank'[q].pc \in {"enter", "ready"}) = (rank[q].pc \in {"enter", "ready"})
        BY <1>2, <1>4, <1>5
    <2> QED BY <1>2, <1>6, <2>1, <2>2 DEF Barrier, Before
<1>12. Mailed'
    <2>1. Mailed  BY DEF ForwardInv
    <2>2. \A x \in Ranks : /\ rank'[x].at = rank[x].at
                           /\ (rank'[x].pc = "enter") = (rank[x].pc = "enter")
        BY <1>2, <1>4, <1>5
    <2>3. \A x \in Ranks : Peers(x) \subseteq Ranks  BY DEF Peers
    <2>4. \A x \in Ranks : Due(x)' = Due(x)
        <3> SUFFICES ASSUME NEW x \in Ranks PROVE Due(x)' = Due(x)  OBVIOUS
        <3>1. \A d \in Peers(x) \ {x} :
                  (IsDriver(d) /\ rank'[d].at = rank'[x].at /\ rank'[d].pc # "enter")
                      = (IsDriver(d) /\ rank[d].at = rank[x].at /\ rank[d].pc # "enter")
            BY <2>2, <2>3
        <3> QED BY <1>6, <2>2, <3>1 DEF Due
    <2> QED BY <1>2, <1>6, <2>1, <2>2, <2>4 DEF Mailed
<1>13. Sending'
    <2>1. \A x \in Ranks : rank'[x].pc \in {"recv", "model", "reduce"} =>
              rank[x].pc \in {"recv", "model", "reduce"}
        BY <1>4, <1>5
    <2> QED BY <1>2, <1>6, <2>1 DEF ForwardInv, Sending, Before
<1>14. Clean'
    <2>1. Clean  BY DEF ForwardInv
    <2>2. ~ you.flag  BY <1>2, <1>3, <1>4, <2>1 DEF Clean
    <2>3. you.open => [kind |-> "lock", rank |-> r, call |-> you.at] \in broken'
        BY <1>4, <1>8
    <2> QED BY <1>2, <1>5, <1>6, <1>8, <2>1, <2>2, <2>3 DEF Clean
<1>15. Placed'
    <2>1. Placed  BY DEF ForwardInv
    <2> SUFFICES ASSUME NEW q \in Ranks, rank'[q].embeds # "none"
                 PROVE  /\ rank'[q].pc \notin {"idle", "enter"}
                        /\ rank'[q].embeds = Embeds(rank'[q].args, cfg.pool[1])
        BY <1>2, <1>6 DEF Placed, Embeds, HasScratch
    <2> QED BY <1>4, <1>5, <2>1 DEF Placed
<1> QED BY <1>7, <1>8, <1>9, <1>10, <1>11, <1>12, <1>13, <1>14, <1>15 DEF ForwardInv

----------------------------------------------------------------------------
(* The route.                                                              *)

\* The groups of all stages are groups, and there are some.
LEMMA GroupsTyped ==
    ASSUME cfg \in Configs
    PROVE  /\ AllGroups \in SUBSET [g : Nat \ {0}, m : Nat \ {0}] /\ AllGroups # {}
           /\ \A grp \in AllGroups : grp.m % grp.g = 0
           /\ \A r \in Ranks : Groups(r) \subseteq AllGroups
<1>1. /\ cfg.pp \in Nat \ {0}
      /\ cfg.groups \in [1..cfg.pp -> SUBSET [g : Nat \ {0}, m : Nat \ {0}]]
      /\ \A p \in 1..cfg.pp :
            cfg.groups[p] # {} /\ \A grp \in cfg.groups[p] : grp.m % grp.g = 0
    BY ConfigAssumption
<1>2. \A p \in 1..cfg.pp : cfg.groups[p] \subseteq [g : Nat \ {0}, m : Nat \ {0}]
    BY <1>1
<1>3. 1 \in 1..cfg.pp  BY <1>1
<1>4. AllGroups \in SUBSET [g : Nat \ {0}, m : Nat \ {0}] /\ AllGroups # {}
    BY <1>1, <1>2, <1>3 DEF AllGroups
<1>5. \A grp \in AllGroups : grp.m % grp.g = 0  BY <1>1 DEF AllGroups
<1>6. \A r \in Ranks : Stage(r) \in 1..cfg.pp  BY Grid
<1>7. \A r \in Ranks : Groups(r) \subseteq AllGroups  BY <1>6 DEF Groups, AllGroups
<1> QED BY <1>4, <1>5, <1>7

\* Rounding up covers.
LEMMA CeilEnough ==
    ASSUME NEW m \in Nat \ {0}, NEW len \in Nat
    PROVE  Ceil(len, m) \in Nat /\ len <= Ceil(len, m) * m
<1> DEFINE c == Ceil(len, m)
           x == (len + m - 1) % m
<1>1. len + m - 1 \in Nat  OBVIOUS
<1>2. c \in Nat /\ x \in 0..m-1 /\ len + m - 1 = c * m + x  BY <1>1, DivMod DEF Ceil
<1> HIDE DEF c, x
<1>3. c * m \in Nat  BY <1>2
<1>4. len <= c * m  BY <1>2, <1>3
<1> QED BY <1>2, <1>4 DEF c

\* The lesser of two numbers.
LEMMA MinOfTwo ==
    ASSUME NEW a \in Nat, NEW b \in Nat
    PROVE  Min({a, b}) \in {a, b} /\ Min({a, b}) <= a /\ Min({a, b}) <= b
<1>1. \E x \in {a, b} : \A y \in {a, b} : x <= y
    <2>1. CASE a <= b  BY <2>1
    <2>2. CASE ~ (a <= b)  BY <2>2
    <2> QED BY <2>1, <2>2
<1>2. Min({a, b}) \in {a, b} /\ \A y \in {a, b} : Min({a, b}) <= y  BY <1>1 DEF Min
<1> QED BY <1>2

\* A chunk is a call, for no more sequences than the lease was sized for.
LEMMA ContinueKeeps ==
    ASSUME Route, Leases, NEW new,
           DOMAIN new = {"q", "pos", "arts", "seen", "lease"},
           new.q \in cfg.requests, new.pos \in Nat, new.lease \in Seq(Nat),
           \A n \in 0..new.q.batch :
               Enough(n, new.q.len, new.lease, Stripe(AllGroups, new.q.len)),
           Len(new.q.nonces) <= (cfg.calls - Len(sent)) * new.q.batch + new.pos,
           Continue(new), cfg' = cfg
    PROVE  /\ Route' /\ Room' /\ Leases'
           /\ sent' = sent \/ \E call \in Calls : sent' = Append(sent, call)
<1> DEFINE q == new.q
           len == Len(q.nonces)
           S == Stripe(AllGroups, q.len)
<1>1. cfg \in Configs /\ sent \in Seq(Calls) /\ Len(sent) <= cfg.calls  BY DEF Route
<1>2. /\ q.nonces \in Seq(Range(q.nonces)) /\ q.batch \in Nat \ {0} /\ q.len \in Nat
      /\ cfg.calls \in Nat
    BY <1>1, ConfigAssumption
<1>3. len \in Nat /\ Len(sent) \in Nat /\ cfg.calls - Len(sent) \in Nat
    BY <1>1, <1>2
<1>4. S \in Nat  BY <1>1, <1>2, GroupsTyped, StripeCovers
<1>5. AllGroups' = AllGroups /\ Lends' = Lends  BY SameGrid
<1>6. /\ \A n, l, lease, stripe : Enough(n, l, lease, stripe)' = Enough(n, l, lease, stripe)
      /\ \A a : Lent(a)' = Lent(a)
    <2>1. \A n, l, lease, stripe : Enough(n, l, lease, stripe)' = Enough(n, l, lease, stripe)
        BY <1>5 DEF Enough
    <2> QED BY <2>1 DEF Lent
<1>7. q.hash \in Hashes /\ q.nonces \in Seq(Nonces)
    <2>1. q.hash \in Hashes  BY <1>1 DEF Hashes
    <2>2. Range(q.nonces) \subseteq Nonces  BY <1>1 DEF Nonces
    <2>3. \A i \in 1..len : q.nonces[i] \in Nonces  BY <1>2, <2>2
    <2>4. q.nonces \in [1..len -> Nonces]  BY <1>2, <2>3
    <2>5. \A n \in Nat : \A s \in [1..n -> Nonces] : s \in Seq(Nonces)  OBVIOUS
    <2>6. q.nonces \in Seq(Nonces)
        <3> HIDE DEF q, len
        <3> QED BY <1>3, <2>4, <2>5
    <2> QED BY <2>1, <2>6
<1>8. CASE new.pos < len
    <2> DEFINE to == Min({new.pos + q.batch, len})
               chunk == SubSeq(q.nonces, new.pos + 1, to)
               stripe == IF new.lease = <<>> THEN 0 ELSE S
               call == [hash |-> q.hash, len |-> q.len, lease |-> new.lease,
                        stripe |-> stripe, nonces |-> chunk]
    <2>1. req' = new /\ sent' = Append(sent, call) /\ verdict' = verdict
        BY <1>8 DEF Continue
    <2>2. to \in Nat /\ to <= len /\ to <= new.pos + q.batch /\ new.pos < to
        <3> DEFINE b == new.pos + q.batch
        <3>1. b \in Nat /\ new.pos < b  BY <1>2
        <3> HIDE DEF b
        <3>2. Min({b, len}) \in {b, len} /\ Min({b, len}) <= b /\ Min({b, len}) <= len
            BY <1>3, <3>1, MinOfTwo
        <3>3. Min({b, len}) \in Nat /\ new.pos < Min({b, len})
            BY <1>3, <1>8, <3>1, <3>2
        <3> QED BY <3>2, <3>3 DEF b
    <2>3. chunk \in Seq(Nonces) /\ Len(chunk) = to - new.pos
        <3> HIDE DEF to
        <3>1. new.pos + 1 \in 1..len+1 /\ to \in new.pos..len  BY <1>2, <1>3, <2>2
        <3>2. chunk \in Seq(Nonces)  BY <1>7, <2>2, <3>1
        <3>3. Len(chunk) = to - (new.pos + 1) + 1  BY <1>7, <2>2, <3>1
        <3>4. to - (new.pos + 1) + 1 = to - new.pos  BY <2>2
        <3> QED BY <3>2, <3>3, <3>4
    <2>4. Len(chunk) \in 0..q.batch
        <3> HIDE DEF to, chunk
        <3> QED BY <1>2, <2>2, <2>3
    <2>5. stripe \in Nat  BY <1>4
    <2> HIDE DEF to, chunk, stripe
    <2>6. call \in Calls  BY <1>2, <1>7, <2>3, <2>5 DEF Calls
    <2>7. Lent(call)
        <3>1. Enough(Len(chunk), q.len, new.lease, S)  BY <2>4
        <3>2. Enough(Len(chunk), q.len, new.lease, stripe)  BY <3>1 DEF Enough, stripe
        <3> QED BY <3>2 DEF Lent
    <2> HIDE DEF call
    <2>8. /\ sent' \in Seq(Calls) /\ Len(sent') = Len(sent) + 1
          /\ \A i \in 1..Len(sent) : sent'[i] = sent[i]
          /\ sent'[Len(sent) + 1] = call
        BY <1>1, <2>1, <2>6
    <2>9. 1 <= cfg.calls - Len(sent)
        <3> DEFINE left == cfg.calls - Len(sent)
        <3>1. left \in Nat /\ len <= left * q.batch + new.pos  BY <1>3
        <3> HIDE DEF left
        <3>2. left # 0
            <4> SUFFICES ASSUME left = 0 PROVE FALSE  OBVIOUS
            <4>1. left * q.batch = 0  BY <1>2
            <4> QED BY <1>3, <1>8, <3>1, <4>1
        <3>3. 1 <= left  BY <3>1, <3>2
        <3> QED BY <3>3 DEF left
    <2>10. Route'
        <3>1. Len(sent') <= cfg.calls  BY <1>2, <1>3, <2>8, <2>9
        <3>2. verdict.kind \in {"none", "done", "error"}  BY DEF Route
        <3> QED BY <1>1, <2>1, <2>8, <3>1, <3>2 DEF Route
    <2>11. Room'
        <3> DEFINE left == cfg.calls - Len(sent)
                   rest == cfg.calls - Len(sent')
        <3>0. /\ cfg.calls \in Nat /\ Len(sent) \in Nat /\ Len(sent') \in Nat
              /\ Len(sent') = Len(sent) + 1
            BY <1>2, <1>3, <2>8
        <3>1. left \in Nat /\ rest \in Nat /\ left = rest + 1  BY <2>9, <3>0
        <3>2. len <= left * q.batch + new.pos  OBVIOUS
        <3> HIDE DEF left, rest
        <3>3. (rest + 1) * q.batch = rest * q.batch + q.batch /\ rest * q.batch \in Nat
            BY <1>2, <3>1
        <3>4. len <= rest * q.batch + new.pos + q.batch  BY <1>2, <1>3, <3>1, <3>2, <3>3
        <3> QED BY <2>1, <3>4 DEF Room, rest
    <2>12. Leases'
        <3>1. \A i \in 1..Len(sent') : Lent(sent'[i])
            <4>1. \A i \in 1..Len(sent') : i \in 1..Len(sent) \/ i = Len(sent) + 1
                BY <1>3, <2>8
            <4> QED BY <2>7, <2>8, <4>1 DEF Leases
        <3> QED BY <1>5, <1>6, <2>1, <3>1 DEF Leases
    <2> QED BY <2>1, <2>6, <2>10, <2>11, <2>12
<1>9. CASE ~ (new.pos < len)
    <2>1. /\ req' = NoRequest /\ sent' = sent /\ verdict'.kind \in {"done", "error"}
        BY <1>9 DEF Continue, Judged
    <2>2. Route'  BY <1>1, <2>1 DEF Route
    <2>3. Room'  BY <2>1 DEF Room, NoRequest
    <2>4. Leases'
        <3>1. (\A i \in 1..Len(sent) : Lent(sent[i]))'
            <4>1. \A a : Lent(a) => Lent(a)'  BY <1>6
            <4>2. \A i \in 1..Len(sent) : Lent(sent[i])  BY DEF Leases
            <4> QED BY <2>1, <4>1, <4>2
        <3>2. ~ (req # NoRequest)'  BY <2>1 DEF NoRequest
        <3> QED BY <3>1, <3>2 DEF Leases
    <2> QED BY <2>1, <2>2, <2>3, <2>4
<1> QED BY <1>8, <1>9

\* The ranks do not mind a call that is sent.
LEMMA SentKeeps ==
    ASSUME ForwardInv, sent' = sent \/ \E call \in Calls : sent' = Append(sent, call),
           UNCHANGED <<cfg, rank, joined, mail, chan, broken>>
    PROVE  Workers' /\ Counts' /\ Barrier' /\ Mailed' /\ Sending' /\ Clean' /\ Placed' /\ Faults'
<1>1. /\ Ranks' = Ranks
      /\ \A q : /\ Peers(q)' = Peers(q) /\ IsDriver(q)' = IsDriver(q)
                /\ IsLast(q)' = IsLast(q)
    BY SameGrid
<1>2. Len(sent) <= Len(sent') /\ \A i \in 1..Len(sent) : sent'[i] = sent[i]
    <2>1. sent \in Seq(Calls)  BY DEF ForwardInv, Route
    <2>2. CASE sent' = sent  BY <2>1, <2>2
    <2>3. CASE \E call \in Calls : sent' = Append(sent, call)  BY <2>1, <2>3
    <2> QED BY <2>2, <2>3
<1>3. Len(sent) \in Nat /\ Len(sent') \in Nat
    <2>1. sent \in Seq(Calls)  BY DEF ForwardInv, Route
    <2>2. CASE sent' = sent  BY <2>1, <2>2
    <2>3. CASE \E call \in Calls : sent' = Append(sent, call)  BY <2>1, <2>3
    <2> QED BY <2>1, <2>2, <2>3
<1>4. \A r \in Ranks : /\ rank[r].at \in 0..Len(sent) /\ rank[r].at \in 0..Len(sent')
                       /\ rank[r].pc # "idle" => /\ rank[r].at >= 1
                                                 /\ sent'[rank[r].at] = sent[rank[r].at]
    <2> SUFFICES ASSUME NEW r \in Ranks
                 PROVE  /\ rank[r].at \in 0..Len(sent) /\ rank[r].at \in 0..Len(sent')
                        /\ rank[r].pc # "idle" => /\ rank[r].at >= 1
                                                  /\ sent'[rank[r].at] = sent[rank[r].at]
        OBVIOUS
    <2>1. rank[r].at \in 0..Len(sent) /\ (rank[r].pc # "idle" => rank[r].at >= 1)
        BY DEF ForwardInv, Workers
    <2>2. rank[r].at \in 0..Len(sent')  BY <1>2, <1>3, <2>1
    <2>3. rank[r].pc # "idle" => rank[r].at \in 1..Len(sent)  BY <2>1
    <2> QED BY <1>2, <2>1, <2>2, <2>3
<1>5. Workers'  BY <1>1, <1>4 DEF ForwardInv, Workers
<1>6. Counts'  BY <1>1 DEF ForwardInv, Counts, Before
<1>7. Barrier'  BY <1>1 DEF ForwardInv, Barrier, Before
<1>8. Mailed'
    <2>1. \A r \in Ranks : Due(r)' = Due(r)  BY <1>1 DEF Due
    <2>2. \A r \in Ranks : Due(r) => sent'[rank[r].at] = sent[rank[r].at]  BY <1>4 DEF Due
    <2> QED BY <1>1, <2>1, <2>2 DEF ForwardInv, Mailed
<1>9. Sending'  BY <1>1 DEF ForwardInv, Sending, Before
<1>10. Clean'  BY <1>1 DEF ForwardInv, Clean
<1>11. Placed'
    <2>1. Placed  BY DEF ForwardInv
    <2> QED BY <1>1, <2>1 DEF Placed, Embeds, HasScratch
<1>12. Faults'  BY DEF ForwardInv, Faults
<1> QED BY <1>5, <1>6, <1>7, <1>8, <1>9, <1>10, <1>11, <1>12

\* What the engine lends for a request is enough for each of its chunks.
LEMMA BorrowEnough ==
    ASSUME cfg \in Configs, NEW q \in cfg.requests, NEW free \in cfg.frees, Lends,
           NEW n \in 0..q.batch
    PROVE  LET lease == Borrow(q.batch, q.len, AllGroups, free)
           IN  /\ lease \in Seq(Nat)
               /\ Enough(n, q.len, lease, Stripe(AllGroups, q.len))
<1> DEFINE lease == Borrow(q.batch, q.len, AllGroups, free)
           S == Stripe(AllGroups, q.len)
<1>1. q.batch \in Nat /\ q.len \in Nat /\ free \in Seq(Nat) /\ IsInjective(free)
    BY ConfigAssumption
<1>2. Distinct(free)  BY <1>1 DEF IsInjective, Distinct
<1>3. CASE lease = <<>>
    <2>1. <<>> \in Seq(Nat)  OBVIOUS
    <2> QED BY <1>3, <2>1 DEF Enough
<1>4. CASE lease # <<>>
    <2>1. /\ AllGroups \in SUBSET [g : Nat \ {0}, m : Nat \ {0}] /\ AllGroups # {}
          /\ \A grp \in AllGroups : grp.m % grp.g = 0
        BY GroupsTyped
    <2>2. /\ lease \in Seq(Nat) /\ Distinct(lease)
          /\ \A grp \in AllGroups : Fits(n, q.len, grp, lease, S)
        BY <1>1, <1>2, <1>4, <2>1, LeaseFits
    <2> QED BY <2>2 DEF Enough
<1> QED BY <1>3, <1>4

\* A request, its chunks, its end.
LEMMA RouteKeeps ==
    ASSUME ForwardInv, Begins \/ ChunkAnswered \/ ChunkFails
    PROVE  ForwardInv'
<1>1. Route /\ Room /\ Leases /\ cfg \in Configs  BY DEF ForwardInv, Route
<1>2. UNCHANGED <<cfg, rank, joined, mail, chan, broken>>
    BY DEF Begins, ChunkAnswered, ChunkFails
<1>3. SUFFICES /\ Route' /\ Room' /\ Leases'
               /\ sent' = sent \/ \E call \in Calls : sent' = Append(sent, call)
    BY <1>2, SentKeeps DEF ForwardInv
<1>4. CASE Begins
    <2>1. PICK q \in cfg.requests, free \in cfg.frees :
             /\ Len(sent) + Ceil(Len(q.nonces), q.batch) <= cfg.calls
             /\ Continue([q |-> q, pos |-> 0, arts |-> <<>>, seen |-> {},
                          lease |-> IF Lends THEN Borrow(q.batch, q.len, AllGroups, free)
                                    ELSE <<>>])
        BY <1>4 DEF Begins
    <2> DEFINE lease == IF Lends THEN Borrow(q.batch, q.len, AllGroups, free) ELSE <<>>
               new == [q |-> q, pos |-> 0, arts |-> <<>>, seen |-> {}, lease |-> lease]
    <2>2. Continue(new)  BY <2>1
    <2>3. /\ q.batch \in Nat \ {0} /\ q.len \in Nat /\ q.nonces \in Seq(Range(q.nonces))
          /\ cfg.calls \in Nat
        BY <1>1, ConfigAssumption
    <2>4. 0 \in 0..q.batch /\ <<>> \in Seq(Nat)  BY <2>3
    <2>5. /\ lease \in Seq(Nat)
          /\ \A n \in 0..q.batch : Enough(n, q.len, lease, Stripe(AllGroups, q.len))
        <3>1. CASE Lends  BY <1>1, <2>4, <3>1, BorrowEnough
        <3>2. CASE ~ Lends  BY <2>4, <3>2 DEF Enough
        <3> QED BY <3>1, <3>2
    <2>6. Len(q.nonces) <= (cfg.calls - Len(sent)) * q.batch + 0
        <3> DEFINE c == Ceil(Len(q.nonces), q.batch)
                   len == Len(q.nonces)
                   left == cfg.calls - Len(sent)
        <3>1. len \in Nat /\ Len(sent) \in Nat  BY <1>1, <2>3 DEF Route
        <3>2. c \in Nat /\ len <= c * q.batch  BY <2>3, <3>1, CeilEnough
        <3>3. c <= left /\ left \in Nat
            <4> HIDE DEF c
            <4>1. Len(sent) + c <= cfg.calls  BY <2>1 DEF c
            <4> QED BY <2>3, <3>1, <3>2, <4>1
        <3> HIDE DEF c, len, left
        <3>4. c * q.batch <= left * q.batch  BY <2>3, <3>2, <3>3, Monotone
        <3>5. c * q.batch \in Nat /\ left * q.batch \in Nat  BY <2>3, <3>2, <3>3
        <3>6. len <= left * q.batch + 0  BY <3>1, <3>2, <3>4, <3>5
        <3> QED BY <3>6 DEF len, left
    <2>7. /\ DOMAIN new = {"q", "pos", "arts", "seen", "lease"}
          /\ new.q = q /\ new.pos = 0 /\ new.lease = lease
        OBVIOUS
    <2>8. 0 \in Nat /\ cfg' = cfg  BY <1>2
    <2> HIDE DEF new, lease
    <2> QED BY <1>1, <2>2, <2>5, <2>6, <2>7, <2>8, ContinueKeeps
<1>5. CASE ChunkAnswered
    <2> DEFINE answers == [r \in Ranks |-> rank[r].arts]
               arts == req.arts \o Union(answers)
               seen == req.seen \union {a.nonce : a \in Range(FlattenSeq(answers))}
               new == [req EXCEPT !.pos = @ + req.q.batch, !.arts = arts, !.seen = seen]
    <2>1. req # NoRequest /\ Continue(new)  BY <1>5 DEF ChunkAnswered
    <2> HIDE DEF arts, seen
    <2>2. /\ DOMAIN req = {"q", "pos", "arts", "seen", "lease"}
          /\ req.q \in cfg.requests /\ req.pos \in Nat /\ req.lease \in Seq(Nat)
        BY <1>1, <2>1 DEF Route
    <2>3. /\ req.q.batch \in Nat \ {0} /\ cfg.calls \in Nat
          /\ req.q.nonces \in Seq(Range(req.q.nonces))
        BY <1>1, <2>2, ConfigAssumption
    <2>4. /\ DOMAIN new = {"q", "pos", "arts", "seen", "lease"}
          /\ new.q = req.q /\ new.pos = req.pos + req.q.batch /\ new.lease = req.lease
        BY <2>2
    <2>5. \A n \in 0..new.q.batch :
              Enough(n, new.q.len, new.lease, Stripe(AllGroups, new.q.len))
        BY <1>1, <2>1, <2>4 DEF Leases
    <2>6. Len(new.q.nonces) <= (cfg.calls - Len(sent)) * new.q.batch + new.pos
        <3> DEFINE space == (cfg.calls - Len(sent)) * req.q.batch
        <3>1. Len(req.q.nonces) <= space + req.pos + req.q.batch  BY <1>1, <2>1 DEF Room
        <3>2. space \in Nat
            <4>1. Len(sent) \in Nat /\ Len(sent) <= cfg.calls  BY <1>1 DEF Route
            <4>2. cfg.calls - Len(sent) \in Nat  BY <2>3, <4>1
            <4> QED BY <2>3, <4>2
        <3>3. Len(req.q.nonces) \in Nat  BY <2>3
        <3> HIDE DEF space
        <3>4. Len(req.q.nonces) <= space + (req.pos + req.q.batch)
            BY <2>2, <2>3, <3>1, <3>2, <3>3
        <3> QED BY <2>4, <3>4 DEF space
    <2>7. new.pos \in Nat /\ cfg' = cfg /\ new.q \in cfg.requests /\ new.lease \in Seq(Nat)
        BY <1>2, <2>2, <2>3, <2>4
    <2> HIDE DEF new
    <2> QED BY <1>1, <2>1, <2>4, <2>5, <2>6, <2>7, ContinueKeeps
<1>6. CASE ChunkFails
    <2>1. req' = NoRequest /\ sent' = sent /\ verdict'.kind = "error" /\ cfg' = cfg
        BY <1>2, <1>6 DEF ChunkFails
    <2>2. Route'  BY <1>1, <2>1 DEF Route
    <2>3. Room'  BY <2>1 DEF Room
    <2>4. Leases'
        <3>1. AllGroups' = AllGroups /\ Lends' = Lends  BY <2>1, SameGrid
        <3>2. \A a : Lent(a) => Lent(a)'  BY <3>1 DEF Lent, Enough
        <3>3. \A i \in 1..Len(sent) : Lent(sent[i])  BY <1>1 DEF Leases
        <3>4. (\A i \in 1..Len(sent) : Lent(sent[i]))'  BY <2>1, <3>2, <3>3
        <3>5. ~ (req # NoRequest)'  BY <2>1 DEF NoRequest
        <3> QED BY <3>4, <3>5 DEF Leases
    <2> QED BY <2>1, <2>2, <2>3, <2>4
<1> QED BY <1>4, <1>5, <1>6

\* A deployment starts with idle workers and empty channels.
LEMMA InitInv ==
    ASSUME Init
    PROVE  ForwardInv
<1>1. /\ cfg \in Configs /\ req = NoRequest /\ verdict = [kind |-> "none"] /\ sent = <<>>
      /\ rank = [r \in Ranks |->
                    [pc |-> "idle", at |-> 0, args |-> NoCall,
                     obj |-> [hash |-> NoHash, call |-> 0], regs |-> {},
                     flag |-> FALSE, open |-> FALSE, embeds |-> "none",
                     data |-> NoData, ok |-> TRUE, arts |-> <<>>]]
      /\ joined = [r \in Ranks |-> [cpu |-> 0, gpu |-> 0]]
      /\ mail = [r \in Ranks |-> <<>>] /\ chan = [r \in Ranks |-> <<>>] /\ broken = {}
    BY DEF Init
<1>2. cfg.calls \in Nat /\ cfg.faults \in Nat /\ cfg.tp \in Nat \ {0}
    BY <1>1, ConfigAssumption
<1>3. Len(sent) = 0  BY <1>1
<1>4. \A r \in Ranks :
          /\ DOMAIN rank[r] = Fields /\ rank[r].pc = "idle" /\ rank[r].at = 0
          /\ rank[r].flag = FALSE /\ rank[r].open = FALSE /\ rank[r].ok = TRUE
          /\ rank[r].embeds = "none"
    BY <1>1 DEF Fields
<1>5. Route
    <2>1. sent \in Seq(Calls)  BY <1>1
    <2> QED BY <1>1, <1>2, <1>3, <2>1 DEF Route
<1>6. Room /\ Leases  BY <1>1, <1>3 DEF Room, Leases
<1>7. Faults
    <2>1. IsFiniteSet({}) /\ Cardinality({}) = 0  BY FS_EmptySet
    <2> QED BY <1>1, <1>2, <2>1 DEF Faults
<1>8. Workers
    <2>1. 0 \in 0..Len(sent)  BY <1>3
    <2> QED BY <1>1, <1>4, <2>1 DEF Workers, Places
<1>9. Counts
    <2>1. \A r \in Ranks : joined[r] = [cpu |-> 0, gpu |-> 0]  BY <1>1
    <2>2. 2 * 0 = 0 /\ 0 + 0 = 0 /\ 0 <= 0  OBVIOUS
    <2> QED BY <1>1, <1>4, <2>1, <2>2 DEF Counts, If, Before
<1>10. Barrier
    <2>1. \A r \in Ranks : joined[r].cpu = 0  BY <1>1
    <2>2. \A r \in Ranks : Peers(r) \subseteq Ranks  BY DEF Peers
    <2>3. 0 + If(FALSE, 2) >= 2 * 0 /\ 0 + 1 >= 2 * 0 /\ 0 >= 2 * 0  BY DEF If
    <2>4. \A r \in Ranks : Before(r, {"enter", "ready"}) = FALSE  BY <1>4 DEF Before
    <2> QED BY <1>4, <2>1, <2>2, <2>3, <2>4 DEF Barrier
<1>11. Mailed  BY <1>1, <1>4 DEF Mailed, Due
<1>12. Sending  BY <1>1, <1>4 DEF Sending, Before
<1>13. Clean /\ Placed  BY <1>4 DEF Clean, Placed
<1> QED BY <1>5, <1>6, <1>7, <1>8, <1>9, <1>10, <1>11, <1>12, <1>13 DEF ForwardInv

\* Every step keeps the invariant.
LEMMA NextInv ==
    ASSUME ForwardInv, [Next]_vars
    PROVE  ForwardInv'
<1>1. CASE Begins \/ ChunkAnswered \/ ChunkFails  BY <1>1, RouteKeeps
<1>2. CASE \E r \in Ranks : Runs(r) \/ Raises(r)
    <2> PICK r \in Ranks : Runs(r) \/ Raises(r)  BY <1>2
    <2>1. CASE Starts(r)  BY <2>1, StartsKeeps
    <2>2. CASE Broadcasts(r)  BY <2>2, BroadcastsKeeps
    <2>3. CASE Receives(r)  BY <2>3, ReceivesKeeps
    <2>4. CASE Mid(r)  BY <2>4, MidProceeds, MidKeeps
    <2>5. CASE Closes(r)  BY <2>5, ClosesKeeps
    <2> QED BY <2>1, <2>2, <2>3, <2>4, <2>5 DEF Runs, Raises, Mid
<1>3. CASE UNCHANGED vars
    <2>1. UNCHANGED <<cfg, req, verdict, sent, rank, joined, mail, chan, broken>>
        BY <1>3 DEF vars
    <2>2. Route' /\ Room' /\ Leases'  BY <2>1, RouteUntouched
    <2>3. Workers' /\ Counts' /\ Barrier' /\ Mailed' /\ Sending' /\ Clean' /\ Placed' /\ Faults'
        BY <2>1, SentKeeps
    <2> QED BY <2>2, <2>3 DEF ForwardInv
<1> QED BY <1>1, <1>2, <1>3 DEF Next

\* The invariant holds throughout.
THEOREM Invariance == Spec => []ForwardInv
<1>1. Init => ForwardInv  BY InitInv
<1>2. ForwardInv /\ [Next]_vars => ForwardInv'  BY NextInv
<1> QED BY <1>1, <1>2, PTL DEF Spec

----------------------------------------------------------------------------
(* What follows.                                                           *)

\* The call of a rank that is in one.
LEMMA CallOf ==
    ASSUME ForwardInv, NEW r \in Ranks, rank[r].pc # "idle"
    PROVE  /\ rank[r].at \in 1..Len(sent) /\ rank[r].args = sent[rank[r].at]
           /\ rank[r].args \in Calls /\ Lent(rank[r].args)
<1>1. /\ rank[r].at \in 0..Len(sent) /\ rank[r].at >= 1
      /\ rank[r].args = sent[rank[r].at]
    BY DEF ForwardInv, Workers
<1>2. sent \in Seq(Calls)  BY DEF ForwardInv, Route
<1>3. rank[r].at \in 1..Len(sent)  BY <1>1
<1>4. sent[rank[r].at] \in Calls  BY <1>2, <1>3
<1>5. Lent(sent[rank[r].at])  BY <1>3 DEF ForwardInv, Leases
<1> QED BY <1>1, <1>3, <1>4, <1>5

\* Types and bounds, whatever the deployment: the calls stay within cfg.calls and no
\* channel ever holds two messages.
THEOREM TypeCorrect == Spec => []TypeOK
<1>1. ForwardInv => TypeOK
    <2> SUFFICES ASSUME ForwardInv PROVE TypeOK  OBVIOUS
    <2>1. Route /\ Faults /\ Workers /\ Counts /\ Mailed /\ Sending  BY DEF ForwardInv
    <2>2. Len(sent) \in Nat  BY <2>1 DEF Route
    <2>3. ASSUME NEW r \in Ranks
          PROVE  /\ rank[r].pc \in {"idle", "enter", "ready", "recv", "model", "reduce",
                                    "sent", "post", "close"}
                 /\ rank[r].at \in 0..Len(sent)
                 /\ {rank[r].flag, rank[r].open, rank[r].ok} \subseteq BOOLEAN
        BY <2>1 DEF Workers, Places
    <2>4. ASSUME NEW r \in Ranks
          PROVE  joined[r].cpu \in 0..2 * Len(sent) /\ joined[r].gpu \in 0..Len(sent)
        <3>1. /\ joined[r] \in [cpu : Nat, gpu : Nat]
              /\ joined[r].cpu + If(rank[r].pc = "enter", 1) = If(cfg.tp > 1, 2 * rank[r].at)
              /\ joined[r].gpu + If(Before(r, {"enter", "ready", "recv", "model"}), 1)
                     <= rank[r].at
            BY <2>1 DEF Counts
        <3>2. joined[r].cpu \in Nat /\ joined[r].gpu \in Nat  BY <3>1
        <3>3. \A b \in BOOLEAN : If(b, 1) \in {0, 1}  BY DEF If
        <3>4. Before(r, {"enter", "ready", "recv", "model"}) \in BOOLEAN  BY DEF Before
        <3>5. joined[r].gpu <= rank[r].at  BY <2>2, <2>3, <3>1, <3>2, <3>3, <3>4
        <3>6. joined[r].cpu <= 2 * rank[r].at
            <4>1. If(cfg.tp > 1, 2 * rank[r].at) <= 2 * rank[r].at  BY <2>2, <2>3 DEF If
            <4>2. If(rank[r].pc = "enter", 1) \in {0, 1}  BY DEF If
            <4>3. If(cfg.tp > 1, 2 * rank[r].at) \in Nat  BY <2>2, <2>3 DEF If
            <4> QED BY <2>2, <2>3, <3>1, <3>2, <4>1, <4>2, <4>3
        <3> QED BY <2>2, <2>3, <3>2, <3>5, <3>6
    <2>5. ASSUME NEW r \in Ranks PROVE Len(mail[r]) <= 1 /\ Len(chan[r]) <= 1
        <3> DEFINE Short(s) == \/ s = <<>>
                               \/ \E x : s = <<x>>
        <3>1. \A s : Short(s) => Len(s) <= 1  OBVIOUS
        <3>2. mail[r] = <<>> \/ mail[r] = <<sent[rank[r].at]>>  BY <2>1 DEF Mailed
        <3>3. chan[r] = <<>> \/ chan[r] = <<chan[r][1]>>  BY <2>1 DEF Sending
        <3>4. Short(mail[r]) /\ Short(chan[r])  BY <3>2, <3>3
        <3> HIDE DEF Short
        <3> QED BY <3>1, <3>4
    <2> QED BY <2>1, <2>3, <2>4, <2>5 DEF TypeOK, Route, Faults
<1> QED BY <1>1, Invariance, PTL

\* A call in progress passes the guards of _borrowed_layout (poc_model_runner.py 116-129).
LeasePasses ==
    \A r \in Ranks : rank[r].pc # "idle" => Fitting(rank[r].args, Groups(r))

\* The argument for that.
LEMMA Passes ==
    ASSUME ForwardInv
    PROVE  LeasePasses
<1> SUFFICES ASSUME NEW r \in Ranks, rank[r].pc # "idle",
                    rank[r].args.lease # <<>>, NEW grp \in Groups(r)
             PROVE  Fits(Len(rank[r].args.nonces), rank[r].args.len, grp,
                         rank[r].args.lease, rank[r].args.stripe)
    BY DEF LeasePasses, Fitting
<1>1. Lent(rank[r].args)  BY CallOf
<1>2. grp \in AllGroups  BY GroupsTyped DEF ForwardInv, Route
<1> QED BY <1>1, <1>2 DEF Lent, Enough

\* The guards of _borrowed_layout never raise on a lease: what the engine lends is enough
\* for every chunk, on every group of every stage.
THEOREM GuardsPass == Spec => []LeasePasses
<1>1. ForwardInv => LeasePasses  BY Passes
<1> QED BY <1>1, Invariance, PTL

\* Forwards write and read the blocks that were lent for their call and no others, each
\* token in a slot of its own that attention finds.
THEOREM LeaseKept == Spec => []LeaseOnly
<1>1. ForwardInv => LeaseOnly
    <2> SUFFICES ASSUME ForwardInv, NEW r \in Forwarding, NEW grp \in Groups(r)
                 PROVE  LET layout == LayoutOf(rank[r].args, grp)
                            lease == sent[rank[r].at].lease
                        IN  /\ Injective(layout) /\ ReadsBack(layout, grp)
                            /\ lease # <<>> =>
                                  Written(layout, grp) \union Named(layout, grp)
                                      \subseteq Range(lease)
        BY DEF LeaseOnly
    <2> DEFINE a == rank[r].args
               n == Len(a.nonces)
    <2>1. r \in Ranks /\ rank[r].pc # "idle"  BY DEF Forwarding
    <2>2. a = sent[rank[r].at] /\ a \in Calls /\ Lent(a)  BY <2>1, CallOf
    <2>3. grp \in AllGroups /\ grp \in [g : Nat \ {0}, m : Nat \ {0}]
        BY <2>1, GroupsTyped DEF ForwardInv, Route
    <2>4. n \in Nat /\ a.len \in Nat /\ a.lease \in Seq(Nat) /\ a.stripe \in Nat
        BY <2>2 DEF Calls
    <2> HIDE DEF a, n
    <2>5. CASE a.lease = <<>>
        <3> DEFINE layout == InplaceLayout(n, a.len, grp)
        <3>1. LayoutOf(a, grp) = layout  BY <2>5 DEF LayoutOf, n
        <3> HIDE DEF layout
        <3>2. Injective(layout) /\ ReadsBack(layout, grp)
            BY <2>3, <2>4, InplaceSound DEF layout
        <3> QED BY <2>2, <2>5, <3>1, <3>2 DEF a
    <2>6. CASE a.lease # <<>>
        <3> DEFINE layout == BorrowedLayout(n, a.len, grp, a.lease, a.stripe)
        <3>1. LayoutOf(a, grp) = layout  BY <2>6 DEF LayoutOf, n
        <3>2. Distinct(a.lease) /\ Fits(n, a.len, grp, a.lease, a.stripe)
            BY <2>2, <2>3, <2>6 DEF Lent, Enough, n
        <3>3. /\ Written(layout, grp) \subseteq {a.lease[i] : i \in 1..Len(a.lease)}
              /\ Named(layout, grp) \subseteq {a.lease[i] : i \in 1..Len(a.lease)}
              /\ Injective(layout) /\ ReadsBack(layout, grp)
            BY <2>3, <2>4, <3>2, BorrowedSound
        <3> HIDE DEF layout
        <3>4. {a.lease[i] : i \in 1..Len(a.lease)} = Range(a.lease)  BY <2>4 DEF Range
        <3> QED BY <2>2, <3>1, <3>3, <3>4 DEF a
    <2> QED BY <2>5, <2>6
<1> QED BY <1>1, Invariance, PTL

\* Ranks of a stage that compute together are in the same call.
LEMMA SameCall ==
    ASSUME ForwardInv
    PROVE  StageAgrees
<1> SUFFICES ASSUME ForwardInv, NEW r \in Forwarding, NEW q \in Peers(r),
                    rank[q].pc = "reduce"
             PROVE  rank[q].args = rank[r].args
    BY DEF StageAgrees
<1>1. /\ r \in Ranks /\ q \in Ranks /\ r \in Peers(q)
      /\ rank[r].pc \in {"recv", "model", "reduce"}
    BY DEF Forwarding, Peers
<1>2. rank[r].args = sent[rank[r].at] /\ rank[q].args = sent[rank[q].at]
    BY <1>1, CallOf
<1>3. CASE cfg.tp > 1
    <2>1. /\ joined[q].cpu + If(Before(r, {"enter", "ready"}), 2) >= 2 * rank[r].at
          /\ joined[r].cpu + If(Before(q, {"enter", "ready"}), 2) >= 2 * rank[q].at
        BY <1>1, <1>3 DEF ForwardInv, Barrier
    <2>2. /\ joined[r].cpu + If(rank[r].pc = "enter", 1) = If(cfg.tp > 1, 2 * rank[r].at)
          /\ joined[q].cpu + If(rank[q].pc = "enter", 1) = If(cfg.tp > 1, 2 * rank[q].at)
        BY <1>1 DEF ForwardInv, Counts
    <2>3. /\ joined[q].cpu + 0 >= 2 * rank[r].at /\ joined[r].cpu + 0 >= 2 * rank[q].at
          /\ joined[r].cpu + 0 = 2 * rank[r].at /\ joined[q].cpu + 0 = 2 * rank[q].at
        BY <1>1, <1>3, <2>1, <2>2 DEF If, Before
    <2>4. /\ joined[q].cpu \in Nat /\ joined[r].cpu \in Nat
          /\ rank[q].at \in Nat /\ rank[r].at \in Nat
        <3>1. joined[q] \in [cpu : Nat, gpu : Nat] /\ joined[r] \in [cpu : Nat, gpu : Nat]
            BY <1>1 DEF ForwardInv, Counts
        <3>2. rank[q].at \in 0..Len(sent) /\ rank[r].at \in 0..Len(sent)
            BY <1>1 DEF ForwardInv, Workers
        <3> QED BY <3>1, <3>2
    <2>5. rank[q].at = rank[r].at  BY <2>3, <2>4
    <2> QED BY <1>2, <2>5
<1>4. CASE ~ (cfg.tp > 1)
    <2>1. q = r  BY <1>1, <1>4, Alone DEF ForwardInv, Route
    <2> QED BY <2>1
<1> QED BY <1>3, <1>4

\* Ranks of a stage that compute together compute the same call, for any number of them.
THEOREM StagesAgree == Spec => []StageAgrees
<1>1. ForwardInv => StageAgrees  BY SameCall
<1> QED BY <1>1, Invariance, PTL

\* Embeddings go where they would go without a lease, so a lease changes no bit of them.
THEOREM BitsKept == Spec => []LeaseKeepsBits
<1>1. ForwardInv => LeaseKeepsBits
    <2> SUFFICES ASSUME ForwardInv, NEW r \in Ranks, rank[r].embeds # "none"
                 PROVE  rank[r].embeds = "scratch" <=> HasScratch(rank[r].args, cfg.pool[1])
        BY DEF LeaseKeepsBits
    <2>1. rank[r].pc # "idle" /\ rank[r].embeds = Embeds(rank[r].args, cfg.pool[1])
        BY DEF ForwardInv, Placed
    <2>2. Lent(rank[r].args)  BY <2>1, CallOf
    <2>3. rank[r].args.lease # <<>> => ~ HasScratch(rank[r].args, cfg.pool[1])
        <3> SUFFICES ASSUME rank[r].args.lease # <<>>
                     PROVE  ~ HasScratch(rank[r].args, cfg.pool[1])
            OBVIOUS
        <3>1. Lends  BY <2>2 DEF Lent, Enough
        <3>2. 1 \in 1..cfg.pp
            <4>1. cfg.pp \in Nat \ {0}  BY Grid DEF ForwardInv, Route
            <4> QED BY <4>1
        <3> QED BY <3>1, <3>2 DEF Lends, HasScratch
    <2> QED BY <2>1, <2>3 DEF Embeds
<1> QED BY <1>1, Invariance, PTL

\* Between calls the hooks are off and the workspace is locked, or its lock failed.
THEOREM WorkerClean == Spec => []IdleClean
<1>1. ForwardInv => IdleClean  BY DEF ForwardInv, Clean, IdleClean
<1> QED BY <1>1, Invariance, PTL

----------------------------------------------------------------------------
(* The artifacts of the ranks and what the route makes of them.            *)

\* F has what At takes from the first 0, ..., n members.
SiftOf(F, n, s, S) ==
    F = [i \in 0..n |-> IF i = 0 THEN <<>>
                        ELSE IF i \in S THEN Append(F[i-1], s[i]) ELSE F[i-1]]

\* There is such a function for every length.
LEMMA SiftExists ==
    ASSUME NEW s, NEW S
    PROVE  \A n \in Nat : \E F : SiftOf(F, n, s, S)
<1> DEFINE T == {n \in Nat : \E F : SiftOf(F, n, s, S)}
<1>1. 0 \in T
    <2> DEFINE F == [i \in 0..0 |-> <<>>]
    <2>1. SiftOf(F, 0, s, S)  BY DEF SiftOf
    <2> QED BY <2>1
<1>2. ASSUME NEW n \in T PROVE n + 1 \in T
    <2>1. PICK F : SiftOf(F, n, s, S)  OBVIOUS
    <2> DEFINE last == IF n + 1 \in S THEN Append(F[n], s[n + 1]) ELSE F[n]
               G == [i \in 0..n+1 |-> IF i = n + 1 THEN last ELSE F[i]]
    <2>2. ASSUME NEW i \in 0..n+1
          PROVE  G[i] = IF i = 0 THEN <<>>
                        ELSE IF i \in S THEN Append(G[i-1], s[i]) ELSE G[i-1]
        <3>1. CASE i = 0
            <4>1. G[0] = F[0] /\ F[0] = <<>>  BY <2>1 DEF SiftOf
            <4> QED BY <3>1, <4>1
        <3>2. CASE i \in 1..n
            <4>1. G[i] = F[i] /\ G[i-1] = F[i-1] /\ i \in 0..n /\ i # 0  BY <3>2
            <4> HIDE DEF G
            <4> QED BY <2>1, <4>1 DEF SiftOf
        <3>3. CASE i = n + 1
            <4>1. G[i] = last /\ G[i-1] = F[n] /\ i # 0  BY <3>3
            <4> QED BY <3>3, <4>1
        <3> QED BY <3>1, <3>2, <3>3
    <2>3. G = [i \in 0..n+1 |-> IF i = 0 THEN <<>>
                                ELSE IF i \in S THEN Append(G[i-1], s[i]) ELSE G[i-1]]
        <3>1. G = [i \in 0..n+1 |-> G[i]]  OBVIOUS
        <3> HIDE DEF G
        <3> QED BY <2>2, <3>1
    <2>4. SiftOf(G, n + 1, s, S)  BY <2>3 DEF SiftOf
    <2> QED BY <2>4
<1>3. T = Nat
    <2> HIDE DEF T
    <2>1. T \in SUBSET Nat  BY DEF T
    <2> QED BY <1>1, <1>2, <2>1, Induct
<1> QED BY <1>3

\* u has the members of s at the positions up to n that are in S, each once: member i of u
\* is member e[i] of s.
Takes(e, u, n, s, S) ==
    /\ e \in [1..Len(u) -> {i \in 1..n : i \in S}]
    /\ \A i, j \in 1..Len(u) : e[i] = e[j] => i = j
    /\ \A k \in {i \in 1..n : i \in S} : \E i \in 1..Len(u) : e[i] = k
    /\ \A i \in 1..Len(u) : u[i] = s[e[i]]

\* What At takes.
LEMMA AtIs ==
    ASSUME NEW X, NEW s \in Seq(X), NEW S
    PROVE  /\ At(s, S) \in Seq(X) /\ Len(At(s, S)) <= Len(s)
           /\ \E e : Takes(e, At(s, S), Len(s), s, S)
<1> DEFINE F == CHOOSE F : SiftOf(F, Len(s), s, S)
<1>0. Len(s) \in Nat  OBVIOUS
<1>1. SiftOf(F, Len(s), s, S)  BY <1>0, SiftExists
<1>2. At(s, S) = F[Len(s)]  BY DEF At, SiftOf
<1> HIDE DEF F
<1> DEFINE Good(n) == /\ F[n] \in Seq(X) /\ Len(F[n]) <= n
                      /\ \E e : Takes(e, F[n], n, s, S)
           T == {n \in Nat : n <= Len(s) => Good(n)}
<1>3. 0 \in T
    <2>1. F[0] = <<>>  BY <1>0, <1>1 DEF SiftOf
    <2> DEFINE e == [i \in 1..0 |-> i]
    <2>2. <<>> \in Seq(X) /\ Len(<<>>) = 0  OBVIOUS
    <2>3. Takes(e, <<>>, 0, s, S)  BY <2>2 DEF Takes
    <2>4. Good(0)  BY <2>1, <2>2, <2>3
    <2> QED BY <2>4
<1>4. ASSUME NEW n \in T PROVE n + 1 \in T
    <2> HIDE DEF Good
    <2> SUFFICES ASSUME n + 1 <= Len(s) PROVE Good(n + 1)  OBVIOUS
    <2>0. n \in Nat /\ n <= Len(s) /\ Good(n)  BY <1>0
    <2>1. PICK e : Takes(e, F[n], n, s, S)  BY <2>0 DEF Good
    <2> DEFINE f == F[n]
               g == F[n + 1]
               m == Len(f)
    <2>2. f \in Seq(X) /\ m \in Nat /\ m <= n /\ Takes(e, f, n, s, S)
        <3>1. f \in Seq(X) /\ Len(f) <= n  BY <2>0 DEF Good
        <3>2. Takes(e, f, n, s, S)  BY <2>1
        <3> HIDE DEF f
        <3> QED BY <3>1, <3>2
    <2>3. g = IF n + 1 \in S THEN Append(f, s[n + 1]) ELSE f
        <3>1. n + 1 \in 0..Len(s) /\ n + 1 # 0 /\ (n + 1) - 1 = n  BY <1>0, <2>0
        <3> QED BY <1>1, <3>1 DEF SiftOf
    <2>4. s[n + 1] \in X  BY <1>0, <2>0
    <2>5. \A i \in 1..n + 1 : i \in 1..n \/ i = n + 1  BY <2>0
    <2> HIDE DEF f, g
    <2>6. CASE n + 1 \notin S
        <3>1. g = f  BY <2>3, <2>6
        <3>2. {i \in 1..n+1 : i \in S} = {i \in 1..n : i \in S}  BY <2>0, <2>5, <2>6
        <3>3. Takes(e, g, n + 1, s, S)  BY <2>2, <3>1, <3>2 DEF Takes
        <3>4. g \in Seq(X) /\ Len(g) <= n + 1  BY <2>0, <2>2, <3>1
        <3> QED BY <3>3, <3>4 DEF Good, g
    <2>7. CASE n + 1 \in S
        <3>1. /\ g \in Seq(X) /\ Len(g) = m + 1 /\ g[m + 1] = s[n + 1]
              /\ \A i \in 1..m : g[i] = f[i]
            BY <2>2, <2>3, <2>4, <2>7, AppendProperties
        <3> DEFINE h == [i \in 1..m+1 |-> IF i = m + 1 THEN n + 1 ELSE e[i]]
        <3>2. \A i \in 1..m+1 : i \in 1..m \/ i = m + 1  BY <2>2
        <3>3. \A i \in 1..m : e[i] \in {j \in 1..n : j \in S}  BY <2>2 DEF Takes
        <3>4. {i \in 1..n+1 : i \in S} = {i \in 1..n : i \in S} \union {n + 1}
            BY <2>0, <2>5, <2>7
        <3>5. n + 1 \notin {i \in 1..n : i \in S}  BY <2>0
        <3>6. h[m + 1] = n + 1 /\ \A i \in 1..m : h[i] = e[i]  BY <2>2
        <3>7. h \in [1..m+1 -> {i \in 1..n+1 : i \in S}]  BY <3>2, <3>3, <3>4
        <3>8. m + 1 \in 1..m+1 /\ 1..m \subseteq 1..m+1  BY <2>2
        <3> HIDE DEF h
        <3>9. \A i, j \in 1..m+1 : h[i] = h[j] => i = j
            <4>1. \A i, j \in 1..m : e[i] = e[j] => i = j  BY <2>2 DEF Takes, m
            <4> QED BY <3>2, <3>3, <3>5, <3>6, <4>1
        <3>10. \A k \in {i \in 1..n+1 : i \in S} : \E i \in 1..m+1 : h[i] = k
            <4>1. \A k \in {i \in 1..n : i \in S} : \E i \in 1..m : e[i] = k
                BY <2>2 DEF Takes, m
            <4> QED BY <3>4, <3>6, <3>8, <4>1
        <3>11. \A i \in 1..m+1 : g[i] = s[h[i]]
            <4>1. \A i \in 1..m : f[i] = s[e[i]]  BY <2>2 DEF Takes, m
            <4> QED BY <3>1, <3>2, <3>6, <4>1
        <3>12. Takes(h, g, n + 1, s, S)  BY <3>1, <3>7, <3>9, <3>10, <3>11 DEF Takes
        <3>13. Len(g) <= n + 1  BY <2>0, <2>2, <3>1
        <3> QED BY <3>1, <3>12, <3>13 DEF Good, g
    <2> QED BY <2>6, <2>7
<1>5. T = Nat
    <2> HIDE DEF T
    <2>1. T \in SUBSET Nat  BY DEF T
    <2> QED BY <1>3, <1>4, <2>1, Induct
<1>6. Good(Len(s))  BY <1>0, <1>5
<1> QED BY <1>2, <1>6

\* F has the first 1, ..., n of the sequences in t, joined.
JoinOf(F, n, t) == F = [i \in 1..n |-> IF i = 1 THEN t[i] ELSE F[i-1] \o t[i]]

\* There is such a function for every length but 0.
LEMMA JoinExists ==
    ASSUME NEW t
    PROVE  \A n \in Nat \ {0} : \E F : JoinOf(F, n, t)
<1> DEFINE T == {n \in Nat : \E F : JoinOf(F, n + 1, t)}
<1>1. 0 \in T
    <2> DEFINE F == [i \in 1..1 |-> t[1]]
    <2>1. JoinOf(F, 0 + 1, t)  BY DEF JoinOf
    <2> QED BY <2>1
<1>2. ASSUME NEW n \in T PROVE n + 1 \in T
    <2>0. n \in Nat  OBVIOUS
    <2>1. PICK F : JoinOf(F, n + 1, t)  OBVIOUS
    <2> DEFINE G == [i \in 1..n+2 |-> IF i = n + 2 THEN F[n + 1] \o t[n + 2] ELSE F[i]]
    <2>2. ASSUME NEW i \in 1..n+2
          PROVE  G[i] = IF i = 1 THEN t[i] ELSE G[i-1] \o t[i]
        <3>1. CASE i = 1
            <4>1. G[1] = F[1] /\ 1 \in 1..n+1  BY <2>0
            <4> HIDE DEF G
            <4> QED BY <2>1, <3>1, <4>1 DEF JoinOf
        <3>2. CASE i \in 2..n+1
            <4>1. G[i] = F[i] /\ G[i-1] = F[i-1] /\ i \in 1..n+1 /\ i # 1  BY <2>0, <3>2
            <4> HIDE DEF G
            <4> QED BY <2>1, <4>1 DEF JoinOf
        <3>3. CASE i = n + 2
            <4>0. n + 2 \in 1..n+2  BY <2>0
            <4>1. G[n + 2] = F[n + 1] \o t[n + 2]  BY <4>0, Zenon
            <4>2. n + 1 \in 1..n+2 /\ n + 1 # n + 2 /\ (n + 2) - 1 = n + 1 /\ n + 2 # 1
                BY <2>0
            <4>3. G[n + 1] = F[n + 1]  BY <4>2
            <4> HIDE DEF G
            <4> QED BY <3>3, <4>1, <4>2, <4>3
        <3> QED BY <2>0, <3>1, <3>2, <3>3
    <2>3. G = [i \in 1..n+2 |-> IF i = 1 THEN t[i] ELSE G[i-1] \o t[i]]
        <3>1. G = [i \in 1..n+2 |-> G[i]]  OBVIOUS
        <3> HIDE DEF G
        <3> QED BY <2>2, <3>1
    <2>4. JoinOf(G, n + 2, t)  BY <2>3 DEF JoinOf
    <2>5. (n + 1) + 1 = n + 2  BY <2>0
    <2> HIDE DEF G
    <2> QED BY <2>0, <2>4, <2>5
<1>3. T = Nat
    <2> HIDE DEF T
    <2>1. T \in SUBSET Nat  BY DEF T
    <2> QED BY <1>1, <1>2, <2>1, Induct
<1>4. ASSUME NEW n \in Nat \ {0} PROVE \E F : JoinOf(F, n, t)
    <2>1. n - 1 \in T
        <3> HIDE DEF T
        <3> QED BY <1>3
    <2>2. (n - 1) + 1 = n  OBVIOUS
    <2> QED BY <2>1, <2>2
<1> QED BY <1>4

\* Every member of s comes from one of the first n sequences in t.
ComesFrom(s, t, n) ==
    \A j \in 1..Len(s) : \E i \in 1..n : \E k \in 1..Len(t[i]) : s[j] = t[i][k]

\* The answers of all ranks, joined.
LEMMA JoinedIs ==
    ASSUME NEW X, NEW n \in Nat \ {0}, NEW t, t \in Seq(Seq(X)), Len(t) = n
    PROVE  FlattenSeq(t) \in Seq(X) /\ ComesFrom(FlattenSeq(t), t, n)
<1> DEFINE F == CHOOSE F : JoinOf(F, n, t)
<1>1. JoinOf(F, n, t)  BY JoinExists
<1>2. FlattenSeq(t) = F[n]
    <2>1. Len(t) # 0  OBVIOUS
    <2> QED BY <2>1 DEF FlattenSeq, JoinOf
<1> HIDE DEF F
<1>3. \A i \in 1..n : t[i] \in Seq(X)  OBVIOUS
<1> DEFINE Good(m) == F[m] \in Seq(X) /\ ComesFrom(F[m], t, m)
           T == {m \in Nat : m + 1 <= n => Good(m + 1)}
<1>4. 0 \in T
    <2>1. F[1] = t[1] /\ t[1] \in Seq(X)
        <3>1. 1 \in 1..n  OBVIOUS
        <3> QED BY <1>1, <1>3, <3>1 DEF JoinOf
    <2>2. \A i \in 1..1 : i = 1  OBVIOUS
    <2>3. ComesFrom(t[1], t, 1)  BY <2>2 DEF ComesFrom
    <2>4. Good(0 + 1)  BY <2>1, <2>3
    <2> HIDE DEF Good
    <2> QED BY <2>4
<1>5. ASSUME NEW l \in T PROVE l + 1 \in T
    <2> HIDE DEF Good
    <2> DEFINE m == l + 1
    <2> SUFFICES ASSUME m + 1 <= n PROVE Good(m + 1)  OBVIOUS
    <2>0. m \in Nat \ {0} /\ m <= n /\ Good(m)  OBVIOUS
    <2> HIDE DEF m
    <2> DEFINE f == F[m]
               s == t[m + 1]
               g == F[m + 1]
    <2>1. g = f \o s
        <3>1. m + 1 \in 1..n /\ m + 1 # 1 /\ (m + 1) - 1 = m  BY <2>0
        <3> QED BY <1>1, <3>1 DEF JoinOf
    <2>2. s \in Seq(X)
        <3>1. m + 1 \in 1..n  BY <2>0
        <3> QED BY <1>3, <3>1
    <2>3. f \in Seq(X) /\ ComesFrom(f, t, m)
        <3>1. Good(m)  BY <2>0
        <3> QED BY <3>1 DEF Good
    <2> HIDE DEF f
    <2>4. /\ g \in Seq(X) /\ Len(g) = Len(f) + Len(s) /\ Len(f) \in Nat /\ Len(s) \in Nat
          /\ \A j \in 1..Len(f) : g[j] = f[j]
          /\ \A j \in 1..Len(s) : g[Len(f) + j] = s[j]
        <3> HIDE DEF s, g
        <3> QED BY <2>1, <2>2, <2>3
    <2> HIDE DEF g
    <2>5. \A i \in 1..m+1 : i \in 1..m \/ i = m + 1  BY <2>0
    <2>6. \A j \in 1..Len(g) :
              j \in 1..Len(f) \/ \E k \in 1..Len(s) : j = Len(f) + k
        <3> HIDE DEF s
        <3>1. Len(g) = Len(f) + Len(s) /\ Len(f) \in Nat /\ Len(s) \in Nat  BY <2>4
        <3>2. ASSUME NEW j \in 1..Len(g), j \notin 1..Len(f)
              PROVE  \E k \in 1..Len(s) : j = Len(f) + k
            <4>1. j - Len(f) \in 1..Len(s) /\ j = Len(f) + (j - Len(f))  BY <3>1, <3>2
            <4> QED BY <4>1
        <3> QED BY <3>2
    <2>7. ASSUME NEW j \in 1..Len(g)
          PROVE  \E i \in 1..m+1 : \E k \in 1..Len(t[i]) : g[j] = t[i][k]
        <3>1. CASE j \in 1..Len(f)
            <4>1. PICK i \in 1..m : \E k \in 1..Len(t[i]) : f[j] = t[i][k]
                BY <2>3, <3>1 DEF ComesFrom
            <4>2. i \in 1..m+1  BY <2>0
            <4> QED BY <2>4, <3>1, <4>1, <4>2
        <3>2. CASE \E k \in 1..Len(s) : j = Len(f) + k
            <4>1. PICK k \in 1..Len(s) : j = Len(f) + k  BY <3>2
            <4>2. g[j] = s[k]  BY <2>4, <4>1
            <4>3. m + 1 \in 1..m+1  BY <2>0
            <4> QED BY <4>1, <4>2, <4>3
        <3> QED BY <2>6, <3>1, <3>2
    <2>8. Good(m + 1)  BY <2>4, <2>7 DEF Good, g, ComesFrom
    <2> QED BY <2>8
<1>6. T = Nat
    <2> HIDE DEF T
    <2>1. T \in SUBSET Nat  BY DEF T
    <2> QED BY <1>4, <1>5, <2>1, Induct
<1>7. Good(n)
    <2>1. n - 1 \in T
        <3> HIDE DEF T
        <3> QED BY <1>6
    <2> HIDE DEF Good
    <2>2. (n - 1) + 1 = n  OBVIOUS
    <2> QED BY <2>1, <2>2
<1> QED BY <1>2, <1>7

\* The answers have nonces in N only.
NoncesIn(t, n, N) == \A i \in 1..n : \A k \in 1..Len(t[i]) : t[i][k].nonce \in N

\* What the route counts in: artifacts of the ranks, one for each nonce that has any, and
\* no more than there are nonces.
LEMMA UnionIs ==
    ASSUME NEW X, NEW n \in Nat \ {0}, NEW t, t \in Seq(Seq(X)), Len(t) = n,
           NEW nonces, nonces \in Seq(Range(nonces)),
           NoncesIn(t, n, Range(nonces))
    PROVE  /\ Union(t) \in Seq(X) /\ Len(Union(t)) <= Len(nonces)
           /\ ComesFrom(Union(t), t, n)
           /\ \A a \in Range(FlattenSeq(t)) :
                 \E j \in 1..Len(Union(t)) : Union(t)[j].nonce = a.nonce
<1> DEFINE all == FlattenSeq(t)
           S == {i \in DOMAIN all : \A j \in 1..i-1 : all[j].nonce # all[i].nonce}
           u == Union(t)
<1>1. all \in Seq(X) /\ ComesFrom(all, t, n)  BY JoinedIs
<1>2. u = At(all, S)  BY DEF Union
<1> HIDE DEF all, u
<1>3. DOMAIN all = 1..Len(all) /\ Len(all) \in Nat  BY <1>1
<1>4. /\ u \in Seq(X) /\ \E e : Takes(e, u, Len(all), all, S)
    <2> HIDE DEF S
    <2> QED BY <1>1, <1>2, AtIs
<1>5. PICK e : Takes(e, u, Len(all), all, S)  BY <1>4
<1>6. {i \in 1..Len(all) : i \in S} = S  BY <1>3
<1>7. /\ \A i \in 1..Len(u) : e[i] \in S /\ e[i] \in 1..Len(all) /\ u[i] = all[e[i]]
      /\ \A i, j \in 1..Len(u) : e[i] = e[j] => i = j
      /\ \A k \in S : \E i \in 1..Len(u) : e[i] = k
    <2>1. e \in [1..Len(u) -> S]  BY <1>5, <1>6 DEF Takes
    <2>2. S \subseteq 1..Len(all)  BY <1>3
    <2> HIDE DEF S
    <2>3. \A i \in 1..Len(u) : e[i] \in S /\ e[i] \in 1..Len(all)  BY <2>1, <2>2
    <2> QED BY <1>5, <1>6, <2>3 DEF Takes
<1>8. ComesFrom(u, t, n)
    <2> HIDE DEF S
    <2> SUFFICES ASSUME NEW j \in 1..Len(u)
                 PROVE  \E i \in 1..n : \E k \in 1..Len(t[i]) : u[j] = t[i][k]
        BY DEF ComesFrom
    <2>1. e[j] \in 1..Len(all) /\ u[j] = all[e[j]]  BY <1>7
    <2> QED BY <1>1, <2>1 DEF ComesFrom
<1>9. \A i, j \in 1..Len(u) : u[i].nonce = u[j].nonce => i = j
    <2> SUFFICES ASSUME NEW i \in 1..Len(u), NEW j \in 1..Len(u), u[i].nonce = u[j].nonce
                 PROVE  e[i] = e[j]
        BY <1>7
    <2>1. /\ e[i] \in 1..Len(all) /\ e[j] \in 1..Len(all)
          /\ all[e[i]].nonce = all[e[j]].nonce
        BY <1>7
    <2>2. ~ (e[i] < e[j])
        <3>1. \A k \in 1..e[j]-1 : all[k].nonce # all[e[j]].nonce  BY <1>7
        <3>2. e[i] < e[j] => e[i] \in 1..e[j]-1  BY <2>1
        <3> QED BY <2>1, <3>1, <3>2
    <2>3. ~ (e[j] < e[i])
        <3>1. \A k \in 1..e[i]-1 : all[k].nonce # all[e[i]].nonce  BY <1>7
        <3>2. e[j] < e[i] => e[j] \in 1..e[i]-1  BY <2>1
        <3> QED BY <2>1, <3>1, <3>2
    <2> QED BY <2>1, <2>2, <2>3
<1>10. \A j \in 1..Len(u) : u[j].nonce \in Range(nonces)  BY <1>8 DEF ComesFrom, NoncesIn
<1>11. Len(u) <= Len(nonces)
    <2> DEFINE f == [i \in 1..Len(u) |-> CHOOSE k \in 1..Len(nonces) : nonces[k] = u[i].nonce]
    <2>1. DOMAIN nonces = 1..Len(nonces) /\ Len(nonces) \in Nat /\ Len(u) \in Nat
        <3>1. Len(nonces) \in Nat /\ DOMAIN nonces = 1..Len(nonces)  OBVIOUS
        <3> QED BY <1>4, <3>1
    <2>2. \A i \in 1..Len(u) : f[i] \in 1..Len(nonces) /\ nonces[f[i]] = u[i].nonce
        <3> SUFFICES ASSUME NEW i \in 1..Len(u)
                     PROVE  \E k \in 1..Len(nonces) : nonces[k] = u[i].nonce
            OBVIOUS
        <3> QED BY <1>10, <2>1 DEF Range
    <2>3. f \in [1..Len(u) -> 1..Len(nonces)]
        <3>1. f = [i \in 1..Len(u) |-> f[i]]  OBVIOUS
        <3> HIDE DEF f
        <3> QED BY <2>2, <3>1
    <2> HIDE DEF f
    <2>4. f \in Injection(1..Len(u), 1..Len(nonces))
        <3>1. \A i, j \in 1..Len(u) : f[i] = f[j] => i = j  BY <1>9, <2>2
        <3> QED BY <2>3, <3>1 DEF Injection, IsInjective
    <2>5. /\ IsFiniteSet(1..Len(nonces)) /\ Cardinality(1..Len(nonces)) = Len(nonces)
          /\ Cardinality(1..Len(u)) = Len(u)
        <3>1. \A m \in Nat : IsFiniteSet(1..m) /\ Cardinality(1..m) = m
            <4> SUFFICES ASSUME NEW m \in Nat
                         PROVE  IsFiniteSet(1..m) /\ Cardinality(1..m) = m
                OBVIOUS
            <4>1. IsFiniteSet(1..m) /\ Cardinality(1..m) = IF 1 > m THEN 0 ELSE m - 1 + 1
                BY FS_Interval
            <4> QED BY <4>1
        <3> QED BY <2>1, <3>1
    <2> QED BY <2>4, <2>5, FS_Injection
<1>12. ASSUME NEW a \in Range(all) PROVE \E j \in 1..Len(u) : u[j].nonce = a.nonce
    <2> DEFINE K == {k \in 1..Len(all) : all[k].nonce = a.nonce}
    <2>1. K \in SUBSET Nat /\ K # {}
        <3>1. PICK k \in DOMAIN all : all[k] = a  BY DEF Range
        <3>2. k \in K  BY <1>3, <3>1
        <3> QED BY <1>3, <3>2
    <2> HIDE DEF K
    <2>2. PICK k \in K : \A l \in K : k <= l  BY <2>1, LeastElement
    <2>3. k \in 1..Len(all) /\ all[k].nonce = a.nonce  BY <2>2 DEF K
    <2>4. \A j \in 1..k-1 : all[j].nonce # all[k].nonce
        <3> SUFFICES ASSUME NEW j \in 1..k-1, all[j].nonce = all[k].nonce PROVE FALSE
            OBVIOUS
        <3>1. j \in K  BY <1>3, <2>3 DEF K
        <3> QED BY <2>2, <2>3, <3>1
    <2>5. k \in S  BY <1>3, <2>3, <2>4
    <2>6. PICK j \in 1..Len(u) : e[j] = k  BY <1>7, <2>5
    <2> QED BY <1>7, <2>3, <2>6
<1> QED BY <1>4, <1>8, <1>11, <1>12 DEF u, all

\* A sequence of whatever it holds.
IsSeq(s) == s \in Seq(Range(s))

\* Members of a set, in the two ways to say it.
LEMMA KnownRange ==
    ASSUME NEW X, NEW s \in Seq(X)
    PROVE  IsSeq(s) /\ Range(s) = {s[i] : i \in 1..Len(s)} /\ Range(s) \subseteq X
<1>1. Len(s) \in Nat /\ s \in [1..Len(s) -> X] /\ DOMAIN s = 1..Len(s)  OBVIOUS
<1>2. Range(s) = {s[i] : i \in 1..Len(s)}  BY <1>1 DEF Range
<1>3. s \in [1..Len(s) -> Range(s)]  BY <1>1, <1>2
<1>4. \A Y : \A n \in Nat : \A f \in [1..n -> Y] : f \in Seq(Y)  OBVIOUS
<1>5. IsSeq(s)  BY <1>1, <1>3, <1>4 DEF IsSeq
<1>6. \A i \in 1..Len(s) : s[i] \in X  BY <1>1
<1>7. Range(s) \subseteq X  BY <1>2, <1>6
<1> QED BY <1>2, <1>5, <1>7

\* A list of mismatches has no more entries than artifacts were computed, none if none
\* differs, and the nonce of each that differs.
LEMMA MismatchesAre ==
    ASSUME NEW c, IsSeq(c), NEW v
    PROVE  /\ Len(Mismatches(c, v)) \in Nat /\ Len(Mismatches(c, v)) <= Len(c)
           /\ (\A j \in 1..Len(c) : ~Differs(c[j], v[c[j].nonce])) => Mismatches(c, v) = <<>>
           /\ \A j \in 1..Len(c) :
                 Differs(c[j], v[c[j].nonce]) => c[j].nonce \in Range(Mismatches(c, v))
<1> DEFINE S == {j \in DOMAIN c : Differs(c[j], v[c[j].nonce])}
           bad == At(c, S)
           list == [i \in DOMAIN bad |-> bad[i].nonce]
<1>1. Mismatches(c, v) = list  BY DEF Mismatches
<1>2. c \in Seq(Range(c)) /\ DOMAIN c = 1..Len(c) /\ Len(c) \in Nat
    <2>1. c \in Seq(Range(c))  BY DEF IsSeq
    <2> QED BY <2>1
<1>3. /\ bad \in Seq(Range(c)) /\ Len(bad) <= Len(c)
      /\ \E e : Takes(e, bad, Len(c), c, S)
    <2> HIDE DEF S
    <2> QED BY <1>2, AtIs
<1>4. PICK e : Takes(e, bad, Len(c), c, S)  BY <1>3
<1>5. {i \in 1..Len(c) : i \in S} = S  BY <1>2
<1>6. S = {j \in 1..Len(c) : Differs(c[j], v[c[j].nonce])}  BY <1>2
<1> HIDE DEF S, bad
<1>7. /\ \A i \in 1..Len(bad) : e[i] \in S /\ bad[i] = c[e[i]]
      /\ \A k \in S : \E i \in 1..Len(bad) : e[i] = k
    BY <1>4, <1>5 DEF Takes
<1>8. DOMAIN bad = 1..Len(bad) /\ Len(bad) \in Nat  BY <1>3
<1>9. list \in Seq({bad[i].nonce : i \in 1..Len(bad)}) /\ Len(list) = Len(bad)
    <2>1. list \in [1..Len(bad) -> {bad[i].nonce : i \in 1..Len(bad)}]  BY <1>8
    <2>2. \A Y : \A n \in Nat : \A f \in [1..n -> Y] : f \in Seq(Y) /\ Len(f) = n  OBVIOUS
    <2> HIDE DEF list
    <2> QED BY <1>8, <2>1, <2>2
<1>10. ASSUME \A j \in 1..Len(c) : ~Differs(c[j], v[c[j].nonce]) PROVE list = <<>>
    <2>1. S = {}  BY <1>6, <1>10
    <2>2. Len(bad) = 0
        <3> SUFFICES ASSUME Len(bad) # 0 PROVE FALSE  OBVIOUS
        <3>1. 1 \in 1..Len(bad)  BY <1>8
        <3> QED BY <1>7, <2>1, <3>1
    <2> HIDE DEF list
    <2> QED BY <1>9, <2>2, EmptySeq
<1>11. ASSUME NEW j \in 1..Len(c), Differs(c[j], v[c[j].nonce]) PROVE c[j].nonce \in Range(list)
    <2>1. j \in S  BY <1>6, <1>11
    <2>2. PICK i \in 1..Len(bad) : e[i] = j  BY <1>7, <2>1
    <2>3. bad[i] = c[j]  BY <1>7, <2>2
    <2>4. i \in DOMAIN list /\ list[i] = bad[i].nonce  BY <1>8
    <2> HIDE DEF list
    <2> QED BY <2>3, <2>4 DEF Range
<1> QED BY <1>1, <1>3, <1>9, <1>10, <1>11

\* An artifact of a forward over nonces, from rows of which some were lost.
Made(a, nonces, rows, like) ==
    /\ a.nonce \in Range(nonces)
    /\ \E row : /\ a.vec = [like EXCEPT !.row = row, !.pick = a.nonce]
                /\ rows = nonces => row = a.nonce

\* What a forward makes.
LEMMA ArtifactsAre ==
    ASSUME NEW nonces, IsSeq(nonces), NEW rows, NEW early, NEW late, NEW like
    PROVE  LET arts == Artifacts(nonces, rows, early, late, like)
           IN  IsSeq(arts) /\ \A i \in 1..Len(arts) : Made(arts[i], nonces, rows, like)
<1> DEFINE arts == Artifacts(nonces, rows, early, late, like)
           clean == At(nonces, DOMAIN nonces \ early)
           hidden == At(rows, DOMAIN rows \ early)
           out == [i \in DOMAIN clean |->
                      [nonce |-> clean[i],
                       vec |-> [like EXCEPT !.row = hidden[i], !.pick = clean[i]]]]
<1>1. arts = At(out, DOMAIN out \ late)  BY DEF Artifacts
<1>2. clean \in Seq(Range(nonces))
    <2> DEFINE S == DOMAIN nonces \ early
    <2> HIDE DEF S
    <2>1. At(nonces, S) \in Seq(Range(nonces))  BY AtIs DEF IsSeq
    <2> QED BY <2>1 DEF S
<1>3. rows = nonces => hidden = clean  OBVIOUS
<1> HIDE DEF clean, hidden
<1>4. /\ DOMAIN clean = 1..Len(clean) /\ Len(clean) \in Nat
      /\ \A i \in 1..Len(clean) : clean[i] \in Range(nonces)
    BY <1>2
<1>5. DOMAIN out = 1..Len(clean)  BY <1>4
<1>6. \A i \in 1..Len(clean) : Made(out[i], nonces, rows, like)
    <2> SUFFICES ASSUME NEW i \in 1..Len(clean) PROVE Made(out[i], nonces, rows, like)
        OBVIOUS
    <2>1. /\ out[i].nonce = clean[i]
          /\ out[i].vec = [like EXCEPT !.row = hidden[i], !.pick = clean[i]]
        BY <1>4
    <2> HIDE DEF out
    <2>2. out[i].nonce \in Range(nonces)  BY <1>4, <2>1
    <2>3. rows = nonces => hidden[i] = out[i].nonce  BY <1>3, <2>1
    <2>4. out[i].vec = [like EXCEPT !.row = hidden[i], !.pick = out[i].nonce]  BY <2>1
    <2> QED BY <2>2, <2>3, <2>4 DEF Made
<1> HIDE DEF out
<1> DEFINE X == {out[i] : i \in 1..Len(clean)}
           T == DOMAIN out \ late
<1>7. out \in Seq(X) /\ Len(out) = Len(clean)
    <2>1. out = [i \in 1..Len(clean) |-> out[i]]
        <3>1. out = [i \in DOMAIN out |-> out[i]]  BY DEF out
        <3> QED BY <1>5, <3>1
    <2>2. \A n \in Nat : \A f \in [1..n -> X] : f \in Seq(X) /\ Len(f) = n  OBVIOUS
    <2>3. out \in [1..Len(clean) -> X]  BY <2>1
    <2> HIDE DEF X
    <2> QED BY <1>4, <2>2, <2>3
<1> HIDE DEF T, arts
<1>8. arts \in Seq(X) /\ \E e : Takes(e, arts, Len(out), out, T)
    <2>1. arts = At(out, T)  BY <1>1 DEF T
    <2> HIDE DEF X
    <2> QED BY <1>7, <2>1, AtIs
<1>9. ASSUME NEW i \in 1..Len(arts) PROVE Made(arts[i], nonces, rows, like)
    <2>1. arts[i] \in X
        <3> HIDE DEF X
        <3> QED BY <1>8
    <2> QED BY <1>6, <2>1
<1>10. IsSeq(arts)
    <2> HIDE DEF X
    <2>1. arts \in Seq(X)  BY <1>8
    <2> QED BY <2>1, KnownRange
<1> QED BY <1>9, <1>10 DEF arts

----------------------------------------------------------------------------
(* What a step of a rank does to the data it computes with and to its      *)
(* hooks, step by step.                                                    *)

Whole(a) == [hash |-> a.hash, nonces |-> a.nonces, len |-> a.len, good |-> TRUE]

\* The route and the other ranks look on.
Turn(r) ==
    /\ cfg' = cfg /\ req' = req /\ verdict' = verdict /\ sent' = sent
    /\ DOMAIN rank' = Ranks /\ \A q \in Ranks \ {r} : rank'[q] = rank[q]
    /\ broken \subseteq broken'

SameData(r) == rank'[r].at = rank[r].at /\ rank'[r].data = rank[r].data
SameHooks(r) == rank'[r].obj = rank[r].obj /\ rank'[r].regs = rank[r].regs
SameArts(r) == rank'[r].arts = rank[r].arts
SameOk(r) == rank'[r].ok = rank[r].ok
SameGpu == \A q \in Ranks : joined'[q].gpu = joined[q].gpu
Goes(r, from, to) == rank[r].pc = from /\ rank'[r].pc = to

Began(r) ==
    /\ rank[r].pc = "idle" /\ rank'[r].pc \in {"enter", "ready"}
    /\ rank[r].at < Len(sent) /\ rank'[r].at = rank[r].at + 1
    /\ rank'[r].data = NoData /\ rank'[r].ok /\ rank'[r].arts = <<>>
    /\ SameHooks(r) /\ SameGpu /\ chan' = chan
Entered(r) ==
    /\ Goes(r, "enter", "ready")
    /\ SameData(r) /\ SameArts(r) /\ SameOk(r) /\ SameHooks(r) /\ SameGpu /\ chan' = chan
Prepared(r) ==
    /\ Ready(r)
    /\ IF IsFirst(r)
       THEN rank'[r].pc = "model" /\ rank'[r].data = Whole(rank[r].args)
       ELSE rank'[r].pc = "recv" /\ rank'[r].data = rank[r].data
    /\ rank'[r].at = rank[r].at /\ SameArts(r) /\ SameOk(r)
    /\ rank'[r].obj = Hooked(rank[r]).obj /\ rank'[r].regs = Hooked(rank[r]).regs
    /\ SameGpu /\ chan' = chan
Unprepared(r) ==
    /\ Ready(r) /\ rank'[r].pc = "close" /\ ~rank'[r].ok /\ SameData(r) /\ SameArts(r)
    /\ \/ Breaks(r, "hooks")
       \/ /\ Fitting(rank[r].args, Groups(r)) => Breaks(r, "prepare")
          /\ rank'[r].obj = Hooked(rank[r]).obj /\ rank'[r].regs = Hooked(rank[r]).regs
    /\ SameGpu /\ chan' = chan
Took(r) ==
    /\ Goes(r, "recv", "model")
    /\ chan[r] # <<>> /\ chan' = [chan EXCEPT ![r] = Tail(@)]
    /\ rank'[r].data = Head(chan[r])
    /\ rank'[r].at = rank[r].at /\ SameArts(r) /\ SameOk(r) /\ SameHooks(r) /\ SameGpu
Reduced(r) ==
    /\ Goes(r, "model", "reduce") /\ Joins(r, "gpu")
    /\ SameData(r) /\ SameArts(r) /\ SameOk(r) /\ SameHooks(r) /\ chan' = chan
Computed(r) ==
    /\ rank[r].pc = "reduce" /\ Met(r, "gpu")
    /\ rank'[r].data = [rank[r].data EXCEPT
           !.good = @ /\ \A q \in Peers(r) : Reflects(q, rank[r].args.hash)]
    /\ rank'[r].at = rank[r].at /\ SameArts(r) /\ SameOk(r) /\ SameHooks(r) /\ SameGpu
    /\ IF IsLast(r) THEN rank'[r].pc = "post" /\ chan' = chan
       ELSE /\ rank'[r].pc = IF cfg.eager THEN "close" ELSE "sent"
            /\ chan' = [chan EXCEPT ![r + cfg.tp] = Append(@, rank'[r].data)]
Delivered(r) ==
    /\ Goes(r, "sent", "close") /\ chan[r + cfg.tp] = <<>>
    /\ SameData(r) /\ SameArts(r) /\ SameOk(r) /\ SameHooks(r) /\ SameGpu /\ chan' = chan
Posted(r) ==
    /\ Goes(r, "post", "close")
    /\ \E early, late :
          rank'[r].arts = Artifacts(rank[r].args.nonces, rank[r].data.nonces, early, late,
              [hash |-> rank[r].data.hash, good |-> rank[r].data.good,
               by |-> rank[r].args.hash, row |-> 0, pick |-> 0])
    /\ SameData(r) /\ SameOk(r) /\ SameHooks(r) /\ SameGpu /\ chan' = chan
GaveUp(r) ==
    /\ rank[r].pc \in {"model", "post"} /\ rank'[r].pc = "close" /\ ~rank'[r].ok
    /\ (rank[r].pc = "model" /\ SameShape(rank[r])) => Breaks(r, "model")
    /\ SameData(r) /\ SameArts(r) /\ SameHooks(r) /\ SameGpu /\ chan' = chan
Closed(r) ==
    /\ Goes(r, "close", "idle")
    /\ SameData(r) /\ SameArts(r) /\ SameOk(r) /\ SameHooks(r) /\ SameGpu /\ chan' = chan

Moves(r) ==
    \/ Began(r) \/ Entered(r) \/ Prepared(r) \/ Unprepared(r) \/ Took(r) \/ Reduced(r)
    \/ Computed(r) \/ Delivered(r) \/ Posted(r) \/ GaveUp(r) \/ Closed(r)

\* A step of a rank is one of these.
LEMMA RankMoves ==
    ASSUME ForwardInv, NEW r \in Ranks, Runs(r) \/ Raises(r)
    PROVE  Turn(r) /\ Moves(r)
<1> DEFINE me == rank[r]
           new == rank'[r]
<1>1. DOMAIN rank = Ranks /\ DOMAIN me = Fields  BY DEF ForwardInv, Workers
<1>2. DOMAIN joined = Ranks /\ \A q \in Ranks : joined[q] \in [cpu : Nat, gpu : Nat]
    BY DEF ForwardInv, Counts
<1>3. ASSUME NEW you, Becomes(r, you)
      PROVE  new = you /\ DOMAIN rank' = Ranks /\ \A q \in Ranks \ {r} : rank'[q] = rank[q]
    BY <1>1, <1>3 DEF Becomes
<1>4. joined' = joined => SameGpu  BY DEF SameGpu
<1>5. Joins(r, "cpu") => SameGpu
    <2> SUFFICES ASSUME Joins(r, "cpu") PROVE SameGpu  OBVIOUS
    <2>1. /\ \A q \in Ranks \ {r} : joined'[q] = joined[q]
          /\ joined'[r].gpu = joined[r].gpu
        BY <1>2, JoinsCpu
    <2> QED BY <2>1 DEF SameGpu
<1>6. \A kind : Breaks(r, kind) => broken \subseteq broken'  BY DEF Breaks
<1>7. CASE Starts(r)
    <2> DEFINE you == [me EXCEPT !.pc = IF cfg.tp > 1 THEN "enter" ELSE "ready",
                                 !.at = @ + 1, !.args = sent[rank[r].at + 1],
                                 !.open = cfg.moe, !.data = NoData, !.ok = TRUE,
                                 !.arts = <<>>]
    <2>1. Becomes(r, you) /\ me.pc = "idle" /\ me.at < Len(sent) /\ Joins(r, "cpu")
          /\ UNCHANGED <<cfg, req, verdict, sent, mail, chan, broken>>
        BY <1>7 DEF Starts
    <2>2. /\ you.pc \in {"enter", "ready"} /\ you.at = me.at + 1 /\ you.data = NoData
          /\ you.ok = TRUE /\ you.arts = <<>> /\ you.obj = me.obj /\ you.regs = me.regs
        BY <1>1 DEF Fields
    <2> HIDE DEF you
    <2>3. Turn(r)  BY <1>3, <2>1 DEF Turn
    <2>4. Began(r)  BY <1>3, <1>5, <2>1, <2>2 DEF Began, SameHooks
    <2> QED BY <2>3, <2>4 DEF Moves
<1>8. CASE Broadcasts(r)
    <2> DEFINE you == [me EXCEPT !.pc = "ready"]
    <2>1. Becomes(r, you) /\ me.pc = "enter" /\ Joins(r, "cpu")
          /\ UNCHANGED <<cfg, req, verdict, sent, chan, broken>>
        BY <1>8 DEF Broadcasts
    <2>2. /\ you.pc = "ready" /\ you.at = me.at /\ you.data = me.data /\ you.ok = me.ok
          /\ you.arts = me.arts /\ you.obj = me.obj /\ you.regs = me.regs
        BY <1>1 DEF Fields
    <2> HIDE DEF you
    <2>3. Turn(r)  BY <1>3, <2>1 DEF Turn
    <2>4. Entered(r)
        BY <1>3, <1>5, <2>1, <2>2 DEF Entered, Goes, SameHooks, SameData, SameArts, SameOk
    <2> QED BY <2>3, <2>4 DEF Moves
<1>9. CASE Receives(r)
    <2> DEFINE args == [Head(mail[r]) EXCEPT !.hash = rank[r].args.hash]
               you == [me EXCEPT !.pc = "ready", !.args = args]
    <2>1. Becomes(r, you) /\ me.pc = "enter" /\ Joins(r, "cpu")
          /\ UNCHANGED <<cfg, req, verdict, sent, chan, broken>>
        BY <1>9 DEF Receives
    <2> HIDE DEF args
    <2>2. /\ you.pc = "ready" /\ you.at = me.at /\ you.data = me.data /\ you.ok = me.ok
          /\ you.arts = me.arts /\ you.obj = me.obj /\ you.regs = me.regs
        BY <1>1 DEF Fields
    <2> HIDE DEF you
    <2>3. Turn(r)  BY <1>3, <2>1 DEF Turn
    <2>4. Entered(r)
        BY <1>3, <1>5, <2>1, <2>2 DEF Entered, Goes, SameHooks, SameData, SameArts, SameOk
    <2> QED BY <2>3, <2>4 DEF Moves
<1> DEFINE held == Hooked(me)
<1>10. /\ DOMAIN held = Fields /\ held.at = me.at /\ held.data = me.data
       /\ held.arts = me.arts /\ held.ok = me.ok
    BY <1>1 DEF Hooked, Fields
<1>11. CASE Prepares(r)
    <2> DEFINE emb == Embeds(me.args, cfg.pool[1])
               first == [held EXCEPT !.pc = "model", !.flag = TRUE, !.embeds = emb,
                                     !.data = Whole(me.args)]
               other == [held EXCEPT !.pc = "recv"]
               you == IF IsFirst(r) THEN first ELSE other
    <2>1. Becomes(r, you) /\ Ready(r)
          /\ UNCHANGED <<cfg, req, verdict, sent, joined, mail, chan, broken>>
        BY <1>11 DEF Prepares, Whole
    <2> HIDE DEF held, emb
    <2>2. /\ first.pc = "model" /\ first.data = Whole(me.args)
          /\ first.at = me.at /\ first.arts = me.arts /\ first.ok = me.ok
          /\ first.obj = held.obj /\ first.regs = held.regs
        BY <1>10 DEF Fields
    <2>3. /\ other.pc = "recv" /\ other.data = me.data
          /\ other.at = me.at /\ other.arts = me.arts /\ other.ok = me.ok
          /\ other.obj = held.obj /\ other.regs = held.regs
        BY <1>10 DEF Fields
    <2> HIDE DEF first, other
    <2>4. /\ IF IsFirst(r) THEN you.pc = "model" /\ you.data = Whole(me.args)
             ELSE you.pc = "recv" /\ you.data = me.data
          /\ you.at = me.at /\ you.arts = me.arts /\ you.ok = me.ok
          /\ you.obj = held.obj /\ you.regs = held.regs
        BY <2>2, <2>3
    <2> HIDE DEF you
    <2>5. Turn(r)  BY <1>3, <2>1 DEF Turn
    <2>6. Prepared(r)  BY <1>3, <1>4, <2>1, <2>4 DEF Prepared, SameArts, SameOk, held
    <2> QED BY <2>5, <2>6 DEF Moves
<1>12. CASE PrepareRaises(r)
    <2> DEFINE you == Raised(held)
    <2>1. Becomes(r, you) /\ Ready(r)
          /\ UNCHANGED <<cfg, req, verdict, sent, joined, mail, chan>>
        BY <1>12 DEF PrepareRaises
    <2>2. IF Fitting(me.args, Groups(r)) THEN Breaks(r, "prepare") ELSE UNCHANGED broken
        BY <1>12 DEF PrepareRaises
    <2> HIDE DEF held
    <2>3. /\ you.pc = "close" /\ you.ok = FALSE /\ you.data = me.data
          /\ you.at = me.at /\ you.arts = me.arts
          /\ you.obj = held.obj /\ you.regs = held.regs
        BY <1>10 DEF Fields, Raised
    <2> HIDE DEF you
    <2>4. broken \subseteq broken'  BY <1>6, <2>2
    <2>5. Turn(r)  BY <1>3, <2>1, <2>4 DEF Turn
    <2>6. Unprepared(r)
        BY <1>3, <1>4, <2>1, <2>2, <2>3 DEF Unprepared, SameData, SameArts, held
    <2> QED BY <2>5, <2>6 DEF Moves
<1>13. CASE HooksFail(r)
    <2>1. PICK regs : Becomes(r, [Raised(me) EXCEPT !.regs = regs])  BY <1>13 DEF HooksFail
    <2> DEFINE you == [Raised(me) EXCEPT !.regs = regs]
    <2>2. Becomes(r, you) /\ Ready(r) /\ Breaks(r, "hooks")
          /\ UNCHANGED <<cfg, req, verdict, sent, joined, mail, chan>>
        BY <1>13, <2>1 DEF HooksFail
    <2>3. /\ you.pc = "close" /\ you.ok = FALSE /\ you.data = me.data
          /\ you.at = me.at /\ you.arts = me.arts
        BY <1>1 DEF Fields, Raised
    <2> HIDE DEF you
    <2>4. Turn(r)  BY <1>3, <1>6, <2>2 DEF Turn
    <2>5. Unprepared(r)  BY <1>3, <1>4, <2>2, <2>3 DEF Unprepared, SameData, SameArts
    <2> QED BY <2>4, <2>5 DEF Moves
<1>14. CASE TakesTensors(r)
    <2> DEFINE data == Head(chan[r])
               you == [me EXCEPT !.pc = "model", !.flag = TRUE, !.data = data]
    <2>1. Becomes(r, you) /\ me.pc = "recv" /\ chan[r] # <<>>
          /\ chan' = [chan EXCEPT ![r] = Tail(@)]
          /\ UNCHANGED <<cfg, req, verdict, sent, joined, mail, broken>>
        BY <1>14 DEF TakesTensors
    <2> HIDE DEF data
    <2>2. /\ you.pc = "model" /\ you.data = data /\ you.at = me.at /\ you.ok = me.ok
          /\ you.arts = me.arts /\ you.obj = me.obj /\ you.regs = me.regs
        BY <1>1 DEF Fields
    <2> HIDE DEF you
    <2>3. Turn(r)  BY <1>3, <2>1 DEF Turn
    <2>4. Took(r)
        BY <1>3, <1>4, <2>1, <2>2 DEF Took, Goes, SameHooks, SameArts, SameOk, data
    <2> QED BY <2>3, <2>4 DEF Moves
<1>15. CASE Reduces(r)
    <2> DEFINE you == [me EXCEPT !.pc = "reduce"]
    <2>1. Becomes(r, you) /\ me.pc = "model" /\ Joins(r, "gpu")
          /\ UNCHANGED <<cfg, req, verdict, sent, mail, chan, broken>>
        BY <1>15 DEF Reduces
    <2>2. /\ you.pc = "reduce" /\ you.at = me.at /\ you.data = me.data /\ you.ok = me.ok
          /\ you.arts = me.arts /\ you.obj = me.obj /\ you.regs = me.regs
        BY <1>1 DEF Fields
    <2> HIDE DEF you
    <2>3. Turn(r)  BY <1>3, <2>1 DEF Turn
    <2>4. Reduced(r)
        BY <1>3, <2>1, <2>2 DEF Reduced, Goes, SameHooks, SameData, SameArts, SameOk
    <2> QED BY <2>3, <2>4 DEF Moves
<1>16. CASE ModelRaises(r) \/ PostRaises(r)
    <2> DEFINE you == Raised(me)
    <2>1. Becomes(r, you) /\ me.pc \in {"model", "post"}
          /\ UNCHANGED <<cfg, req, verdict, sent, joined, mail, chan>>
        BY <1>16 DEF ModelRaises, PostRaises
    <2>2. broken \subseteq broken'
        <3>1. (\E kind : Breaks(r, kind)) \/ UNCHANGED broken
            BY <1>16 DEF ModelRaises, PostRaises
        <3> QED BY <1>6, <3>1
    <2>3. /\ you.pc = "close" /\ you.ok = FALSE /\ you.data = me.data
          /\ you.at = me.at /\ you.arts = me.arts /\ you.obj = me.obj /\ you.regs = me.regs
        BY <1>1 DEF Fields, Raised
    <2> HIDE DEF you
    <2>4. Turn(r)  BY <1>3, <2>1, <2>2 DEF Turn
    <2>5. (me.pc = "model" /\ SameShape(me)) => Breaks(r, "model")
        BY <1>16 DEF ModelRaises, PostRaises
    <2>6. GaveUp(r)
        BY <1>3, <1>4, <2>1, <2>3, <2>5 DEF GaveUp, SameData, SameArts, SameHooks
    <2> QED BY <2>4, <2>6 DEF Moves
<1>17. CASE Computes(r)
    <2> DEFINE data == [me.data EXCEPT !.good = @ /\ \A q \in Peers(r) :
                                                         Reflects(q, me.args.hash)]
               done == [me EXCEPT !.flag = FALSE, !.data = data]
    <2>1. /\ me.pc = "reduce" /\ Met(r, "gpu")
          /\ IF IsLast(r)
             THEN Becomes(r, [done EXCEPT !.pc = "post"]) /\ UNCHANGED chan
             ELSE /\ Becomes(r, [done EXCEPT !.pc = IF cfg.eager THEN "close" ELSE "sent"])
                  /\ chan' = [chan EXCEPT ![r + cfg.tp] = Append(@, data)]
          /\ UNCHANGED <<cfg, req, verdict, sent, joined, mail, broken>>
        BY <1>17 DEF Computes
    <2>2. rank'[r].data = data => rank'[r].data = [rank[r].data EXCEPT
           !.good = @ /\ \A q \in Peers(r) : Reflects(q, rank[r].args.hash)]
        OBVIOUS
    <2> HIDE DEF data
    <2>3. \A pc : LET you == [done EXCEPT !.pc = pc] IN
             /\ you.pc = pc /\ you.data = data /\ you.at = me.at /\ you.ok = me.ok
             /\ you.arts = me.arts /\ you.obj = me.obj /\ you.regs = me.regs
        BY <1>1 DEF Fields
    <2>4. PICK pc : /\ Becomes(r, [done EXCEPT !.pc = pc])
                    /\ IF IsLast(r) THEN pc = "post" /\ chan' = chan
                       ELSE /\ pc = IF cfg.eager THEN "close" ELSE "sent"
                            /\ chan' = [chan EXCEPT ![r + cfg.tp] = Append(@, data)]
        BY <2>1
    <2> DEFINE you == [done EXCEPT !.pc = pc]
    <2>5. Becomes(r, you)  BY <2>4
    <2>6. /\ you.pc = pc /\ you.data = data /\ you.at = me.at /\ you.ok = me.ok
          /\ you.arts = me.arts /\ you.obj = me.obj /\ you.regs = me.regs
        BY <2>3
    <2> HIDE DEF you, done
    <2>7. Turn(r)  BY <1>3, <2>1, <2>5 DEF Turn
    <2>8. new = you  BY <1>3, <2>5
    <2>9. rank'[r].data = data  BY <2>6, <2>8
    <2>10. Computed(r)
        BY <1>4, <2>1, <2>2, <2>4, <2>6, <2>8, <2>9 DEF Computed, SameHooks, SameArts, SameOk
    <2> QED BY <2>7, <2>10 DEF Moves
<1>18. CASE SendReturns(r)
    <2> DEFINE you == [me EXCEPT !.pc = "close"]
    <2>1. Becomes(r, you) /\ me.pc = "sent" /\ chan[r + cfg.tp] = <<>>
          /\ UNCHANGED <<cfg, req, verdict, sent, joined, mail, chan, broken>>
        BY <1>18 DEF SendReturns
    <2>2. /\ you.pc = "close" /\ you.at = me.at /\ you.data = me.data /\ you.ok = me.ok
          /\ you.arts = me.arts /\ you.obj = me.obj /\ you.regs = me.regs
        BY <1>1 DEF Fields
    <2> HIDE DEF you
    <2>3. Turn(r)  BY <1>3, <2>1 DEF Turn
    <2>4. Delivered(r)
        BY <1>3, <1>4, <2>1, <2>2 DEF Delivered, Goes, SameHooks, SameData, SameArts, SameOk
    <2> QED BY <2>3, <2>4 DEF Moves
<1>19. CASE Posts(r)
    <2> DEFINE like == [hash |-> me.data.hash, good |-> me.data.good, by |-> me.args.hash,
                        row |-> 0, pick |-> 0]
               Arts(early, late) == Artifacts(me.args.nonces, me.data.nonces, early, late, like)
    <2>1. PICK early, late :
              /\ UNCHANGED broken \/ Breaks(r, "nan")
              /\ Becomes(r, [me EXCEPT !.pc = "close", !.arts = Arts(early, late)])
        BY <1>19 DEF Posts
    <2> DEFINE arts == Arts(early, late)
               you == [me EXCEPT !.pc = "close", !.arts = arts]
    <2>2. Becomes(r, you) /\ me.pc = "post"
          /\ UNCHANGED <<cfg, req, verdict, sent, joined, mail, chan>>
        BY <1>19, <2>1 DEF Posts
    <2> HIDE DEF arts
    <2>3. /\ you.pc = "close" /\ you.at = me.at /\ you.data = me.data /\ you.ok = me.ok
          /\ you.arts = arts /\ you.obj = me.obj /\ you.regs = me.regs
        BY <1>1 DEF Fields
    <2> HIDE DEF you
    <2>4. Turn(r)  BY <1>3, <1>6, <2>1, <2>2 DEF Turn
    <2>5. new.arts = Artifacts(me.args.nonces, me.data.nonces, early, late, like)
        BY <1>3, <2>2, <2>3 DEF arts
    <2>6. Posted(r)
        BY <1>3, <1>4, <2>2, <2>3, <2>5 DEF Posted, Goes, SameHooks, SameData, SameOk
    <2> QED BY <2>4, <2>6 DEF Moves
<1>20. CASE Closes(r)
    <2>1. PICK stuck : /\ (Breaks(r, "lock") \/ UNCHANGED broken)
                       /\ Becomes(r, [me EXCEPT !.pc = "idle", !.open = stuck,
                                                !.args = NoCall, !.embeds = "none"])
        BY <1>20 DEF Closes
    <2> DEFINE you == [me EXCEPT !.pc = "idle", !.open = stuck, !.args = NoCall,
                                 !.embeds = "none"]
    <2>2. Becomes(r, you) /\ me.pc = "close"
          /\ UNCHANGED <<cfg, req, verdict, sent, joined, mail, chan>>
        BY <1>20, <2>1 DEF Closes
    <2>3. /\ you.pc = "idle" /\ you.at = me.at /\ you.data = me.data /\ you.ok = me.ok
          /\ you.arts = me.arts /\ you.obj = me.obj /\ you.regs = me.regs
        BY <1>1 DEF Fields
    <2> HIDE DEF you
    <2>4. Turn(r)  BY <1>3, <1>6, <2>1, <2>2 DEF Turn
    <2>5. Closed(r)
        BY <1>3, <1>4, <2>2, <2>3 DEF Closed, Goes, SameHooks, SameData, SameArts, SameOk
    <2> QED BY <2>4, <2>5 DEF Moves
<1> QED BY <1>7, <1>8, <1>9, <1>11, <1>12, <1>13, <1>14, <1>15, <1>16, <1>17, <1>18, <1>19,
           <1>20 DEF Runs, Raises

----------------------------------------------------------------------------
(* Cheats are charged.                                                     *)

\* What the artifacts of a rank were made from.
Origin(me, a) == [hash |-> me.data.hash, good |-> me.data.good, by |-> a.hash,
                  row |-> 0, pick |-> 0]

\* A rank's artifacts are those of its last call.
Answers ==
    \A r \in Ranks :
        LET me == rank[r]
            a == sent[me.at]
        IN  /\ IsSeq(me.arts)
            /\ me.arts # <<>> => me.pc \in {"close", "idle"} /\ me.at >= 1
            /\ \A i \in 1..Len(me.arts) :
                  Made(me.arts[i], a.nonces, me.data.nonces, Origin(me, a))

\* The call that was sent last is a chunk of the request.
Asked ==
    req # NoRequest =>
        LET a == sent[Len(sent)] IN
        /\ Len(sent) >= 1
        /\ a.hash = req.q.hash /\ Range(a.nonces) \subseteq Range(req.q.nonces)
        /\ Len(a.nonces) <= req.q.batch /\ req.pos + Len(a.nonces) <= Len(req.q.nonces)

\* The artifacts of a request so far: no more than nonces were sent, each for one of them,
\* and at least one for each nonce that was seen.
Tally(t) ==
    /\ IsSeq(t.arts) /\ Len(t.arts) <= t.pos /\ Len(t.arts) <= Len(t.q.nonces)
    /\ \A i \in 1..Len(t.arts) :
          t.arts[i].nonce \in Range(t.q.nonces) /\ t.arts[i].vec.by = t.q.hash
    /\ \A n \in t.seen : \E i \in 1..Len(t.arts) : t.arts[i].nonce = n

\* Answers and the request's count bear the hash that made them; so a cheat is charged.
ChargeInv == Answers /\ Asked /\ (req # NoRequest => Tally(req)) /\ CheatsCharged

\* The artifacts of a nonce, made by a rank in the call a.
LEMMA MadeFor ==
    ASSUME NEW x, NEW me, NEW a, Made(x, a.nonces, me.data.nonces, Origin(me, a))
    PROVE  /\ x.nonce \in Range(a.nonces) /\ x.vec.by = a.hash
           /\ me.data = Whole(a) => x.vec = Right(a, x.nonce)
<1> DEFINE like == Origin(me, a)
<1>1. PICK row : /\ x.vec = [like EXCEPT !.row = row, !.pick = x.nonce]
                 /\ me.data.nonces = a.nonces => row = x.nonce
    BY DEF Made
<1>2. x.nonce \in Range(a.nonces)  BY DEF Made
<1>3. x.vec = [hash |-> me.data.hash, good |-> me.data.good, by |-> a.hash,
               row |-> row, pick |-> x.nonce]
    BY <1>1 DEF Origin
<1>4. me.data = Whole(a) => x.vec = Right(a, x.nonce)
    <2> SUFFICES ASSUME me.data = Whole(a) PROVE x.vec = Right(a, x.nonce)  OBVIOUS
    <2>1. me.data.hash = a.hash /\ me.data.good = TRUE /\ me.data.nonces = a.nonces
        BY DEF Whole
    <2>2. row = x.nonce  BY <1>1, <2>1
    <2>3. x.vec = [hash |-> a.hash, good |-> TRUE, by |-> a.hash,
                   row |-> x.nonce, pick |-> x.nonce]
        BY <1>3, <2>1, <2>2
    <2> QED BY <2>3 DEF Right
<1> QED BY <1>2, <1>3, <1>4

\* A call that is sent leaves the earlier ones as they are.
LEMMA SentGrows ==
    ASSUME Route, sent' = sent \/ \E call : sent' = Append(sent, call)
    PROVE  /\ Len(sent) \in Nat /\ Len(sent') \in Nat /\ Len(sent) <= Len(sent')
           /\ \A i \in 1..Len(sent) : sent'[i] = sent[i]
<1>1. sent \in Seq(Calls)  BY DEF Route
<1>2. CASE sent' = sent  BY <1>1, <1>2
<1>3. CASE \E call : sent' = Append(sent, call)
    <2>1. PICK call : sent' = Append(sent, call)  BY <1>3
    <2> DEFINE S == Calls \union {call}
    <2>2. sent \in Seq(S) /\ call \in S  BY <1>1
    <2> HIDE DEF S
    <2> QED BY <2>1, <2>2, AppendProperties
<1> QED BY <1>2, <1>3

\* No step of a rank touches the artifacts of its last call, and it makes new ones from the
\* data of its call.
LEMMA RankAnswers ==
    ASSUME ForwardInv, Answers, NEW r \in Ranks, Turn(r), Moves(r)
    PROVE  Answers'
<1>1. Ranks' = Ranks  BY SameGrid DEF Turn
<1> DEFINE Fine(me, log) ==
        /\ IsSeq(me.arts)
        /\ me.arts # <<>> => me.pc \in {"close", "idle"} /\ me.at >= 1
        /\ \A i \in 1..Len(me.arts) :
              Made(me.arts[i], log[me.at].nonces, me.data.nonces, Origin(me, log[me.at]))
<1>2. /\ Answers <=> \A q \in Ranks : Fine(rank[q], sent)
      /\ Answers' <=> \A q \in Ranks' : Fine(rank'[q], sent')
    BY DEF Answers, IsSeq, Origin, Made
<1>3. \A q \in Ranks \ {r} : Fine(rank'[q], sent')  BY <1>2 DEF Turn
<1> DEFINE me == rank[r]
           new == rank'[r]
<1>4. sent' = sent /\ Fine(me, sent)  BY <1>2 DEF Turn
<1>5. ASSUME NEW you, you.arts = <<>> PROVE Fine(you, sent)
    <2>1. <<>> \in Seq(Range(<<>>)) /\ Len(<<>>) = 0  OBVIOUS
    <2>2. 1..0 = {}  OBVIOUS
    <2> QED BY <1>5, <2>1, <2>2 DEF IsSeq
<1>6. ASSUME SameArts(r), SameData(r), me.pc \in {"close", "idle"} => new.pc \in {"close", "idle"}
      PROVE  Fine(new, sent)
    <2>1. new.arts = me.arts /\ new.at = me.at /\ new.data = me.data
        BY <1>6 DEF SameArts, SameData
    <2>2. Origin(new, sent[new.at]) = Origin(me, sent[me.at])  BY <2>1 DEF Origin
    <2> QED BY <1>4, <1>6, <2>1, <2>2
<1>7. ASSUME SameArts(r), me.pc \notin {"close", "idle"} PROVE Fine(new, sent)
    <2>1. me.arts = <<>>  BY <1>4, <1>7
    <2>2. new.arts = <<>>  BY <1>7, <2>1 DEF SameArts
    <2> HIDE DEF Fine
    <2> QED BY <1>5, <2>2
<1>8. ASSUME Posted(r) PROVE Fine(new, sent)
    <2>1. PICK early, late :
          new.arts = Artifacts(me.args.nonces, me.data.nonces, early, late, Origin(me, me.args))
        BY <1>8 DEF Posted, Origin
    <2>2. /\ me.pc = "post" /\ new.pc = "close" /\ new.at = me.at /\ new.data = me.data
        BY <1>8 DEF Posted, Goes, SameData
    <2>3. me.args = sent[me.at] /\ me.args \in Calls /\ me.at \in 1..Len(sent)  BY <2>2, CallOf
    <2>4. IsSeq(me.args.nonces)
        <3>1. me.args.nonces \in Seq(Nonces)  BY <2>3 DEF Calls
        <3> QED BY <3>1, KnownRange
    <2> HIDE DEF me, new
    <2>5. /\ IsSeq(new.arts)
          /\ \A i \in 1..Len(new.arts) :
                Made(new.arts[i], me.args.nonces, me.data.nonces, Origin(me, me.args))
        BY <2>1, <2>4, ArtifactsAre
    <2>6. Origin(new, sent[new.at]) = Origin(me, me.args)  BY <2>2, <2>3 DEF Origin
    <2>7. Len(sent) \in Nat  BY DEF ForwardInv, Route
    <2>8. new.at >= 1  BY <2>2, <2>3, <2>7
    <2> QED BY <2>2, <2>3, <2>5, <2>6, <2>8
<1>9. Fine(new, sent)
    <2> HIDE DEF Fine
    <2>1. CASE Began(r)  BY <1>5, <2>1 DEF Began
    <2>2. CASE Entered(r) \/ Unprepared(r) \/ Reduced(r) \/ Delivered(r)
        BY <1>7, <2>2 DEF Entered, Unprepared, Reduced, Delivered, Goes, Ready
    <2>3. CASE Prepared(r)  BY <1>7, <2>3 DEF Prepared, Ready
    <2>4. CASE Took(r)  BY <1>7, <2>4 DEF Took, Goes
    <2>5. CASE Computed(r)  BY <1>7, <2>5 DEF Computed
    <2>6. CASE GaveUp(r)  BY <1>7, <2>6 DEF GaveUp
    <2>7. CASE Closed(r)  BY <1>6, <2>7 DEF Closed, Goes
    <2> QED BY <1>8, <2>1, <2>2, <2>3, <2>4, <2>5, <2>6, <2>7 DEF Moves
<1>10. \A q \in Ranks : Fine(rank'[q], sent')
    <2> HIDE DEF Fine
    <2> QED BY <1>3, <1>4, <1>9
<1> QED BY <1>1, <1>2, <1>10

\* The next chunk is one of the request, and a verdict charges who cheated.
LEMMA ContinueCharges ==
    ASSUME Route, CheatsCharged, NEW new, new.q \in cfg.requests, new.pos \in Nat,
           Tally(new), Continue(new)
    PROVE  Asked' /\ (req' # NoRequest => Tally(req')) /\ CheatsCharged'
<1> DEFINE q == new.q
           len == Len(q.nonces)
<1>1. cfg \in Configs /\ sent \in Seq(Calls)  BY DEF Route
<1>2. IsSeq(q.nonces) /\ q.batch \in Nat \ {0}  BY <1>1, ConfigAssumption DEF IsSeq
<1>3. /\ q.nonces \in Seq(Range(q.nonces)) /\ len \in Nat /\ Len(sent) \in Nat
      /\ \A i \in 1..len : q.nonces[i] \in Range(q.nonces)
    <2>1. q.nonces \in Seq(Range(q.nonces))  BY <1>2 DEF IsSeq
    <2> HIDE DEF q
    <2> QED BY <1>1, <2>1
<1>4. CASE new.pos < len
    <2> DEFINE to == Min({new.pos + q.batch, len})
               chunk == SubSeq(q.nonces, new.pos + 1, to)
               stripe == IF new.lease = <<>> THEN 0 ELSE Stripe(AllGroups, q.len)
               call == [hash |-> q.hash, len |-> q.len, lease |-> new.lease,
                        stripe |-> stripe, nonces |-> chunk]
    <2>1. req' = new /\ sent' = Append(sent, call) /\ verdict' = verdict
        BY <1>4 DEF Continue
    <2>2. to \in Nat /\ to <= len /\ to <= new.pos + q.batch /\ new.pos < to
        <3> DEFINE b == new.pos + q.batch
        <3>1. b \in Nat /\ new.pos < b  BY <1>2
        <3> HIDE DEF b
        <3>2. Min({b, len}) \in {b, len} /\ Min({b, len}) <= b /\ Min({b, len}) <= len
            BY <1>3, <3>1, MinOfTwo
        <3>3. Min({b, len}) \in Nat /\ new.pos < Min({b, len})
            BY <1>3, <1>4, <3>1, <3>2
        <3> QED BY <3>2, <3>3 DEF b
    <2> HIDE DEF to
    <2>3. /\ chunk \in Seq(Range(q.nonces)) /\ Len(chunk) = to - new.pos
        <3>1. new.pos + 1 \in 1..len+1 /\ to \in new.pos..len  BY <1>2, <1>3, <2>2
        <3>2. chunk \in Seq(Range(q.nonces))  BY <1>3, <2>2, <3>1
        <3>3. Len(chunk) = to - (new.pos + 1) + 1  BY <1>3, <2>2, <3>1
        <3>4. to - (new.pos + 1) + 1 = to - new.pos  BY <2>2
        <3> QED BY <3>2, <3>3, <3>4
    <2>4. Range(chunk) \subseteq Range(q.nonces)
        <3> HIDE DEF chunk, q
        <3> QED BY <2>3, KnownRange
    <2> HIDE DEF chunk, stripe
    <2>5. Len(chunk) <= q.batch /\ new.pos + Len(chunk) <= len
        BY <1>2, <1>3, <2>2, <2>3
    <2>6. call.hash = q.hash /\ call.nonces = chunk  OBVIOUS
    <2> HIDE DEF call
    <2>7. sent'[Len(sent')] = call /\ Len(sent') >= 1  BY <1>1, <1>3, <2>1
    <2>8. Asked'  BY <2>1, <2>4, <2>5, <2>6, <2>7 DEF Asked
    <2>9. CheatsCharged'  BY <2>1 DEF CheatsCharged
    <2> QED BY <2>1, <2>8, <2>9
<1>5. CASE ~ (new.pos < len) /\ Undecodable(new.arts, q.validation)
    <2>1. req' = NoRequest /\ verdict' = [kind |-> "error"]  BY <1>5 DEF Continue, Judged
    <2>2. CheatsCharged'  BY <2>1 DEF CheatsCharged
    <2>3. Asked'  BY <2>1 DEF Asked, NoRequest
    <2> QED BY <2>1, <2>2, <2>3
<1>6. CASE ~ (new.pos < len) /\ ~Undecodable(new.arts, q.validation)
    <2> DEFINE mis == Mismatches(new.arts, q.validation)
    <2>1. /\ req' = NoRequest
          /\ verdict' = [kind |-> "done", q |-> q, seen |-> new.seen, mismatch |-> mis,
                         fraud |-> Fraud(Len(mis), Len(q.nonces), Tolerated)]
        BY <1>6 DEF Continue, Judged
    <2>2. IsSeq(new.arts) /\ Len(new.arts) <= len  BY DEF Tally
    <2>3. /\ Len(mis) <= Len(new.arts)
          /\ \A j \in 1..Len(new.arts) :
                Differs(new.arts[j], q.validation[new.arts[j].nonce])
                    => new.arts[j].nonce \in Range(mis)
        BY <2>2, MismatchesAre
    <2>4. Len(new.arts) \in Nat /\ Len(mis) \in Nat
        <3>1. new.arts \in Seq(Range(new.arts))  BY <2>2 DEF IsSeq
        <3>2. Len(new.arts) \in Nat  BY <3>1
        <3> QED BY <2>2, <3>2, MismatchesAre
    <2> HIDE DEF mis
    <2>5. Len(mis) <= len  BY <1>3, <2>2, <2>3, <2>4
    <2>6. ASSUME NEW n \in new.seen,
                 \/ q.validation[n].kind = "malformed"
                 \/ q.validation[n].kind = "vector" /\ q.validation[n].vec.by # q.hash
          PROVE  n \in Range(mis)
        <3>1. PICK i \in 1..Len(new.arts) : new.arts[i].nonce = n  BY DEF Tally
        <3>2. new.arts[i].vec.by = q.hash  BY DEF Tally
        <3>3. Differs(new.arts[i], q.validation[n])  BY <2>6, <3>2 DEF Differs
        <3> QED BY <2>3, <3>1, <3>3
    <2>7. ASSUME NEW n \in new.seen PROVE q.validation[n].kind # "undecodable"
        <3>1. PICK i \in 1..Len(new.arts) : new.arts[i].nonce = n  BY DEF Tally
        <3>2. DOMAIN new.arts = 1..Len(new.arts)
            <4>1. new.arts \in Seq(Range(new.arts))  BY <2>2 DEF IsSeq
            <4> QED BY <4>1
        <3> QED BY <1>6, <3>1, <3>2 DEF Undecodable
    <2>8. CheatsCharged'  BY <2>1, <2>5, <2>6, <2>7 DEF CheatsCharged
    <2>9. Asked'  BY <2>1 DEF Asked, NoRequest
    <2> QED BY <2>1, <2>8, <2>9
<1> QED BY <1>4, <1>5, <1>6

\* The artifacts that a chunk brings.
Counted == [req EXCEPT !.pos = @ + req.q.batch,
                       !.arts = @ \o Union([r \in Ranks |-> rank[r].arts]),
                       !.seen = @ \union {a.nonce : a \in
                                    Range(FlattenSeq([r \in Ranks |-> rank[r].arts]))}]

\* Each was there before or is a rank's.
LEMMA ChunkTally ==
    ASSUME ForwardInv, Answers, Asked, req # NoRequest, Tally(req), AllWell
    PROVE  /\ Counted.q = req.q /\ Counted.pos \in Nat
           /\ Tally(Counted)
           /\ \A i \in 1..Len(Counted.arts) :
                 \/ \E j \in 1..Len(req.arts) : Counted.arts[i] = req.arts[j]
                 \/ \E r \in Ranks : \E k \in 1..Len(rank[r].arts) :
                       Counted.arts[i] = rank[r].arts[k]
<1> DEFINE a == sent[Len(sent)]
           t == [r \in Ranks |-> rank[r].arts]
           n == cfg.tp * cfg.pp
           u == Union(t)
           all == FlattenSeq(t)
           X == UNION {Range(rank[r].arts) : r \in Ranks}
           old == req.arts
           arts == old \o u
           seen == {x.nonce : x \in Range(all)}
<1>1. cfg \in Configs /\ req.q \in cfg.requests /\ req.pos \in Nat /\ sent \in Seq(Calls)
      /\ DOMAIN req = {"q", "pos", "arts", "seen", "lease"}
    BY DEF ForwardInv, Route
<1>2. req.q.batch \in Nat \ {0} /\ cfg.tp \in Nat \ {0} /\ cfg.pp \in Nat \ {0}
    BY <1>1, ConfigAssumption
<1>3. n \in Nat \ {0} /\ Ranks = 1..n
    <2>1. \A x, y \in Nat \ {0} : x * y \in Nat \ {0}
        <3> SUFFICES ASSUME NEW x \in Nat \ {0}, NEW y \in Nat \ {0}
                     PROVE  x * y \in Nat \ {0}
            OBVIOUS
        <3>1. 1 * y <= x * y  BY Monotone
        <3>2. x * y \in Nat /\ 1 * y = y  OBVIOUS
        <3> QED BY <3>1, <3>2
    <2> QED BY <1>2, <2>1 DEF Ranks
<1>4. Counted.q = req.q /\ Counted.pos = req.pos + req.q.batch /\ Counted.arts = arts
      /\ Counted.seen = req.seen \union seen
    BY <1>1 DEF Counted
<1>5. Len(sent) \in Nat /\ Len(sent) >= 1 /\ a \in Calls
      /\ a.hash = req.q.hash /\ Range(a.nonces) \subseteq Range(req.q.nonces)
      /\ Len(a.nonces) <= req.q.batch /\ req.pos + Len(a.nonces) <= Len(req.q.nonces)
    <2>1. Len(sent) \in Nat  BY <1>1
    <2>2. Len(sent) >= 1  BY DEF Asked
    <2>3. a \in Calls  BY <1>1, <2>1, <2>2
    <2> QED BY <2>1, <2>2, <2>3 DEF Asked
<1>6. a.nonces \in Seq(Range(a.nonces))
    <2>1. a.nonces \in Seq(Nonces)  BY <1>5 DEF Calls
    <2> HIDE DEF a
    <2> QED BY <2>1, KnownRange DEF IsSeq
<1>7. Len(a.nonces) \in Nat /\ Len(req.q.nonces) \in Nat
    <2>1. req.q.nonces \in Seq(Range(req.q.nonces))  BY <1>1, ConfigAssumption
    <2> HIDE DEF a
    <2> QED BY <1>6, <2>1
<1>8. \A r \in Ranks : rank[r].at = Len(sent)  BY DEF AllWell, Answered
<1>9. \A r \in Ranks : \A k \in 1..Len(rank[r].arts) :
          rank[r].arts[k].nonce \in Range(a.nonces) /\ rank[r].arts[k].vec.by = a.hash
    <2> SUFFICES ASSUME NEW r \in Ranks, NEW k \in 1..Len(rank[r].arts)
                 PROVE  /\ rank[r].arts[k].nonce \in Range(a.nonces)
                        /\ rank[r].arts[k].vec.by = a.hash
        OBVIOUS
    <2>1. Made(rank[r].arts[k], a.nonces, rank[r].data.nonces, Origin(rank[r], a))
        BY <1>8 DEF Answers
    <2> HIDE DEF a
    <2> QED BY <2>1, MadeFor
<1>10. \A r \in Ranks : rank[r].arts \in Seq(X)
    <2> SUFFICES ASSUME NEW r \in Ranks PROVE rank[r].arts \in Seq(X)  OBVIOUS
    <2> DEFINE s == rank[r].arts
    <2>1. s \in Seq(Range(s))  BY DEF Answers, IsSeq
    <2>2. Range(s) \subseteq X  OBVIOUS
    <2> HIDE DEF s, X
    <2>3. s \in Seq(X)  BY <2>1, <2>2
    <2> QED BY <2>3 DEF s
<1> HIDE DEF n, X
<1>11. t \in Seq(Seq(X)) /\ Len(t) = n
    <2>1. t \in [1..n -> Seq(X)]  BY <1>3, <1>10
    <2>2. \A Y : \A m \in Nat : \A f \in [1..m -> Y] : f \in Seq(Y) /\ Len(f) = m  OBVIOUS
    <2> HIDE DEF t
    <2> QED BY <1>3, <2>1, <2>2
<1>12. \A r \in Ranks : t[r] = rank[r].arts  OBVIOUS
<1> HIDE DEF a, t
<1>13. /\ u \in Seq(X) /\ Len(u) <= Len(a.nonces) /\ ComesFrom(u, t, n)
       /\ \A x \in Range(all) : \E j \in 1..Len(u) : u[j].nonce = x.nonce
    <2>1. NoncesIn(t, n, Range(a.nonces))  BY <1>3, <1>9, <1>12 DEF NoncesIn
    <2> QED BY <1>3, <1>6, <1>11, <2>1, UnionIs
<1> HIDE DEF u, all
<1>14. \A j \in 1..Len(u) : \E r \in Ranks : \E k \in 1..Len(rank[r].arts) :
           u[j] = rank[r].arts[k]
    <2> SUFFICES ASSUME NEW j \in 1..Len(u)
                 PROVE  \E r \in Ranks : \E k \in 1..Len(rank[r].arts) : u[j] = rank[r].arts[k]
        OBVIOUS
    <2>1. PICK i \in 1..n : \E k \in 1..Len(t[i]) : u[j] = t[i][k]  BY <1>13 DEF ComesFrom
    <2>2. i \in Ranks /\ t[i] = rank[i].arts  BY <1>3, <1>12
    <2> QED BY <2>1, <2>2
<1>15. IsSeq(old) /\ Len(old) <= req.pos /\ Len(old) <= Len(req.q.nonces)
    BY DEF Tally
<1> DEFINE Y == Range(old) \union X
<1>16. old \in Seq(Y) /\ u \in Seq(Y)
    <2>1. old \in Seq(Range(old)) /\ Range(old) \subseteq Y /\ X \subseteq Y
        BY <1>15 DEF IsSeq
    <2> HIDE DEF Y, old
    <2> QED BY <1>13, <2>1
<1> HIDE DEF Y
<1>17. /\ arts \in Seq(Y) /\ Len(arts) = Len(old) + Len(u)
       /\ Len(old) \in Nat /\ Len(u) \in Nat
       /\ \A j \in 1..Len(old) : arts[j] = old[j]
       /\ \A j \in 1..Len(u) : arts[Len(old) + j] = u[j]
    <2> HIDE DEF old
    <2> QED BY <1>16
<1> HIDE DEF arts, old
<1>18. IsSeq(arts)  BY <1>17, KnownRange
<1>19. \A i \in 1..Len(arts) : i \in 1..Len(old) \/ \E j \in 1..Len(u) : i = Len(old) + j
    <2> SUFFICES ASSUME NEW i \in 1..Len(arts), i \notin 1..Len(old)
                 PROVE  \E j \in 1..Len(u) : i = Len(old) + j
        OBVIOUS
    <2>1. Len(arts) = Len(old) + Len(u) /\ Len(old) \in Nat /\ Len(u) \in Nat  BY <1>17
    <2>2. i - Len(old) \in 1..Len(u) /\ i = Len(old) + (i - Len(old))  BY <2>1
    <2> QED BY <2>2
<1>20. \A i \in 1..Len(arts) :
           \/ \E j \in 1..Len(old) : arts[i] = old[j]
           \/ \E r \in Ranks : \E k \in 1..Len(rank[r].arts) : arts[i] = rank[r].arts[k]
    <2> SUFFICES ASSUME NEW i \in 1..Len(arts)
                 PROVE  \/ \E j \in 1..Len(old) : arts[i] = old[j]
                        \/ \E r \in Ranks : \E k \in 1..Len(rank[r].arts) :
                              arts[i] = rank[r].arts[k]
        OBVIOUS
    <2>1. CASE i \in 1..Len(old)  BY <1>17, <2>1
    <2>2. CASE \E j \in 1..Len(u) : i = Len(old) + j
        <3>1. PICK j \in 1..Len(u) : i = Len(old) + j  BY <2>2
        <3>2. arts[i] = u[j]  BY <1>17, <3>1
        <3> QED BY <1>14, <3>2
    <2> QED BY <1>19, <2>1, <2>2
<1>21. \A i \in 1..Len(arts) :
           arts[i].nonce \in Range(req.q.nonces) /\ arts[i].vec.by = req.q.hash
    <2> SUFFICES ASSUME NEW i \in 1..Len(arts)
                 PROVE  arts[i].nonce \in Range(req.q.nonces) /\ arts[i].vec.by = req.q.hash
        OBVIOUS
    <2>1. CASE \E j \in 1..Len(old) : arts[i] = old[j]
        BY <2>1 DEF Tally, old
    <2>2. CASE \E r \in Ranks : \E k \in 1..Len(rank[r].arts) : arts[i] = rank[r].arts[k]
        BY <1>5, <1>9, <2>2
    <2> QED BY <1>20, <2>1, <2>2
<1>22. \A m \in req.seen \union seen : \E i \in 1..Len(arts) : arts[i].nonce = m
    <2>1. ASSUME NEW m \in req.seen PROVE \E i \in 1..Len(arts) : arts[i].nonce = m
        <3>1. PICK i \in 1..Len(old) : old[i].nonce = m  BY DEF Tally, old
        <3>2. i \in 1..Len(arts) /\ arts[i].nonce = m  BY <1>17, <3>1
        <3> QED BY <3>2
    <2>2. ASSUME NEW m \in seen PROVE \E i \in 1..Len(arts) : arts[i].nonce = m
        <3>1. PICK x \in Range(all) : x.nonce = m  OBVIOUS
        <3>2. PICK j \in 1..Len(u) : u[j].nonce = m  BY <1>13, <3>1
        <3>3. Len(old) + j \in 1..Len(arts) /\ arts[Len(old) + j].nonce = m
            BY <1>17, <3>2
        <3> QED BY <3>3
    <2> QED BY <2>1, <2>2
<1>23. Len(arts) <= req.pos + req.q.batch /\ Len(arts) <= Len(req.q.nonces)
    <2>1. Len(arts) = Len(old) + Len(u) /\ Len(old) \in Nat /\ Len(u) \in Nat  BY <1>17
    <2>2. Len(old) <= req.pos /\ Len(u) <= Len(a.nonces)  BY <1>13, <1>15
    <2>3. /\ req.pos \in Nat /\ req.q.batch \in Nat
          /\ Len(a.nonces) \in Nat /\ Len(req.q.nonces) \in Nat
        BY <1>1, <1>2, <1>7
    <2>4. Len(a.nonces) <= req.q.batch /\ req.pos + Len(a.nonces) <= Len(req.q.nonces)
        BY <1>5
    <2> QED BY <2>1, <2>2, <2>3, <2>4
<1>24. Tally(Counted)
    <2> HIDE DEF seen
    <2> QED BY <1>4, <1>18, <1>21, <1>22, <1>23 DEF Tally
<1>25. Counted.pos \in Nat  BY <1>1, <1>2, <1>4
<1>26. \A i \in 1..Len(Counted.arts) :
           \/ \E j \in 1..Len(req.arts) : Counted.arts[i] = req.arts[j]
           \/ \E r \in Ranks : \E k \in 1..Len(rank[r].arts) :
                 Counted.arts[i] = rank[r].arts[k]
    BY <1>4, <1>20 DEF old
<1> QED BY <1>4, <1>24, <1>25, <1>26

\* Calls that are sent leave the answers to the earlier ones alone.
LEMMA SentAnswers ==
    ASSUME ForwardInv, Answers, UNCHANGED <<cfg, rank>>,
           sent' = sent \/ \E call : sent' = Append(sent, call)
    PROVE  Answers'
<1>1. Ranks' = Ranks  BY SameGrid
<1>2. \A i \in 1..Len(sent) : sent'[i] = sent[i]
    BY SentGrows DEF ForwardInv
<1>3. ASSUME NEW r \in Ranks
      PROVE  \/ Len(rank[r].arts) = 0
             \/ sent'[rank[r].at] = sent[rank[r].at]
    <2>1. IsSeq(rank[r].arts)  BY DEF Answers
    <2>2. rank[r].arts = <<>> => Len(rank[r].arts) = 0  OBVIOUS
    <2>3. CASE rank[r].arts # <<>>
        <3>1. rank[r].at >= 1 /\ rank[r].at \in 0..Len(sent)
            BY <2>3 DEF Answers, ForwardInv, Workers
        <3>2. Len(sent) \in Nat  BY DEF ForwardInv, Route
        <3>3. rank[r].at \in 1..Len(sent)  BY <3>1, <3>2
        <3> QED BY <1>2, <3>3
    <2> QED BY <2>2, <2>3
<1>4. ASSUME NEW r \in Ranks
      PROVE  LET me == rank[r]
                 a == sent'[me.at]
             IN  /\ IsSeq(me.arts)
                 /\ me.arts # <<>> => me.pc \in {"close", "idle"} /\ me.at >= 1
                 /\ \A i \in 1..Len(me.arts) :
                       Made(me.arts[i], a.nonces, me.data.nonces, Origin(me, a))
    <2>1. CASE Len(rank[r].arts) = 0
        <3>1. 1..0 = {}  OBVIOUS
        <3> QED BY <2>1, <3>1 DEF Answers
    <2>2. CASE sent'[rank[r].at] = sent[rank[r].at]  BY <2>2 DEF Answers
    <2> QED BY <1>3, <2>1, <2>2
<1> DEFINE Fine(me, log) ==
        /\ IsSeq(me.arts)
        /\ me.arts # <<>> => me.pc \in {"close", "idle"} /\ me.at >= 1
        /\ \A i \in 1..Len(me.arts) :
              Made(me.arts[i], log[me.at].nonces, me.data.nonces, Origin(me, log[me.at]))
<1>5. Answers' <=> \A q \in Ranks' : Fine(rank'[q], sent')
    BY DEF Answers, IsSeq, Origin, Made
<1>6. \A q \in Ranks : Fine(rank[q], sent')  BY <1>4
<1> HIDE DEF Fine
<1> QED BY <1>1, <1>5, <1>6

\* A request that has just begun has nothing to tally.
LEMMA NothingYet ==
    ASSUME cfg \in Configs, NEW q \in cfg.requests, NEW lease
    PROVE  LET new == [q |-> q, pos |-> 0, arts |-> <<>>, seen |-> {}, lease |-> lease]
           IN  new.q = q /\ new.pos \in Nat /\ new.arts = <<>> /\ Tally(new)
<1> DEFINE new == [q |-> q, pos |-> 0, arts |-> <<>>, seen |-> {}, lease |-> lease]
<1>1. new.q = q /\ new.pos = 0 /\ new.arts = <<>> /\ new.seen = {}  OBVIOUS
<1>2. <<>> \in Seq(Range(<<>>)) /\ Len(<<>>) = 0  OBVIOUS
<1>3. Len(q.nonces) \in Nat
    <2>1. q.nonces \in Seq(Range(q.nonces))  BY ConfigAssumption
    <2> QED BY <2>1
<1>4. 1..0 = {}  OBVIOUS
<1> HIDE DEF new
<1>5. Tally(new)  BY <1>1, <1>2, <1>3, <1>4 DEF Tally, IsSeq
<1> QED BY <1>1, <1>5 DEF new

\* The next call, or none.
LEMMA ContinueSends ==
    ASSUME NEW new, Continue(new)
    PROVE  sent' = sent \/ \E call : sent' = Append(sent, call)
<1>1. CASE new.pos < Len(new.q.nonces)  BY <1>1 DEF Continue
<1>2. CASE ~ (new.pos < Len(new.q.nonces))  BY <1>2 DEF Continue
<1> QED BY <1>1, <1>2

\* Every step keeps what the verdict rests on.
LEMMA NextCharges ==
    ASSUME ForwardInv, ChargeInv, [Next]_vars
    PROVE  ChargeInv'
<1>1. Answers /\ Asked /\ (req # NoRequest => Tally(req)) /\ CheatsCharged  BY DEF ChargeInv
<1>2. Route /\ cfg \in Configs  BY DEF ForwardInv, Route
<1>3. CASE Begins
    <2>1. PICK q \in cfg.requests, free \in cfg.frees :
              Continue([q |-> q, pos |-> 0, arts |-> <<>>, seen |-> {},
                        lease |-> IF Lends THEN Borrow(q.batch, q.len, AllGroups, free)
                                  ELSE <<>>])
        BY <1>3 DEF Begins
    <2> DEFINE lease == IF Lends THEN Borrow(q.batch, q.len, AllGroups, free) ELSE <<>>
               new == [q |-> q, pos |-> 0, arts |-> <<>>, seen |-> {}, lease |-> lease]
    <2>2. Continue(new)  BY <2>1
    <2> HIDE DEF lease
    <2>3. new.q \in cfg.requests /\ new.pos \in Nat /\ Tally(new)  BY <1>2, NothingYet
    <2> HIDE DEF new
    <2>4. UNCHANGED <<cfg, rank>>  BY <1>3 DEF Begins
    <2>5. Answers'  BY <1>1, <2>2, <2>4, ContinueSends, SentAnswers
    <2>6. Asked' /\ (req' # NoRequest => Tally(req')) /\ CheatsCharged'
        BY <1>1, <1>2, <2>2, <2>3, ContinueCharges
    <2> QED BY <2>5, <2>6 DEF ChargeInv, Tally, IsSeq, NoRequest
<1>4. CASE ChunkAnswered
    <2>1. Continue(Counted) /\ req # NoRequest /\ AllWell /\ UNCHANGED <<cfg, rank>>
        BY <1>4 DEF ChunkAnswered, Counted
    <2>2. Counted.q = req.q /\ Counted.pos \in Nat /\ Tally(Counted)  BY <1>1, <2>1, ChunkTally
    <2>3. Counted.q \in cfg.requests  BY <2>1, <2>2 DEF ForwardInv, Route
    <2>4. Answers'  BY <1>1, <2>1, ContinueSends, SentAnswers
    <2>5. Asked' /\ (req' # NoRequest => Tally(req')) /\ CheatsCharged'
        BY <1>1, <1>2, <2>1, <2>2, <2>3, ContinueCharges
    <2> QED BY <2>4, <2>5 DEF ChargeInv, Tally, IsSeq, NoRequest
<1>5. CASE ChunkFails
    <2>1. /\ req' = NoRequest /\ verdict' = [kind |-> "error"]
          /\ UNCHANGED <<cfg, sent, rank>>
        BY <1>5 DEF ChunkFails
    <2>2. Answers'  BY <1>1, <2>1, SentAnswers
    <2>3. Asked' /\ ~ (req # NoRequest)'  BY <2>1 DEF Asked, NoRequest
    <2>4. CheatsCharged'  BY <2>1 DEF CheatsCharged
    <2> QED BY <2>2, <2>3, <2>4 DEF ChargeInv
<1>6. CASE \E r \in Ranks : Runs(r) \/ Raises(r)
    <2> PICK r \in Ranks : Runs(r) \/ Raises(r)  BY <1>6
    <2>1. Turn(r) /\ Moves(r)  BY RankMoves
    <2>2. Answers'  BY <1>1, <2>1, RankAnswers
    <2>3. cfg' = cfg /\ req' = req /\ verdict' = verdict /\ sent' = sent  BY <2>1 DEF Turn
    <2>4. Asked' /\ CheatsCharged'  BY <1>1, <2>3 DEF Asked, CheatsCharged, NoRequest
    <2>5. (req # NoRequest => Tally(req))'  BY <1>1, <2>3 DEF Tally, IsSeq, NoRequest
    <2> QED BY <2>2, <2>4, <2>5 DEF ChargeInv
<1>7. CASE UNCHANGED vars
    <2>1. UNCHANGED <<cfg, req, verdict, sent, rank>>  BY <1>7 DEF vars
    <2>2. Answers'  BY <1>1, <2>1, SentAnswers
    <2>3. Asked' /\ CheatsCharged'  BY <1>1, <2>1 DEF Asked, CheatsCharged, NoRequest
    <2>4. (req # NoRequest => Tally(req))'  BY <1>1, <2>1 DEF Tally, IsSeq, NoRequest
    <2> QED BY <2>2, <2>3, <2>4 DEF ChargeInv
<1> QED BY <1>3, <1>4, <1>5, <1>6, <1>7 DEF Next

\* At first there is nothing to charge.
LEMMA InitCharges ==
    ASSUME Init
    PROVE  ChargeInv
<1>1. /\ req = NoRequest /\ verdict = [kind |-> "none"]
      /\ \A r \in Ranks : rank[r].arts = <<>>
    BY DEF Init
<1>2. <<>> \in Seq(Range(<<>>)) /\ Len(<<>>) = 0 /\ 1..0 = {}  OBVIOUS
<1>3. Answers  BY <1>1, <1>2 DEF Answers, IsSeq
<1> QED BY <1>1, <1>3 DEF ChargeInv, Asked, CheatsCharged

\* No validation request that ends with a verdict lets a wrong or malformed artifact pass
\* if some rank computed its nonce, had one there that cannot be decoded, or charges more
\* of them than there are: over any number of ranks and chunks, after any faults, in this
\* request or an earlier one.
THEOREM CheatsAreCharged == Spec => []CheatsCharged
<1>1. Init => ChargeInv  BY InitCharges
<1>2. ForwardInv /\ ChargeInv /\ [Next]_vars => ChargeInv'  BY NextCharges
<1>3. ChargeInv => CheatsCharged  BY DEF ChargeInv
<1> QED BY <1>1, <1>2, <1>3, Invariance, PTL DEF Spec

----------------------------------------------------------------------------
(* Hooks and collectives, as long as no hook constructor fails.            *)

\* The hooks of an object: one per layer, for its hash.
HookOf(o) ==
    IF o.hash = NoHash THEN {}
    ELSE {[hash |-> o.hash, call |-> o.call, upto |-> Layers]}

\* No hooks but those of the worker's object, and a forward has those for its hash.
Hooks ==
    \A r \in Ranks :
        /\ rank[r].regs = HookOf(rank[r].obj)
        /\ rank[r].pc \in {"recv", "model", "reduce"} => rank[r].obj.hash = rank[r].args.hash

\* A rank is ahead of a peer by the collective it waits in at most; a peer that has
\* entered that one has the hooks for the same call until the rank leaves it.
Collective ==
    \A r \in Ranks : \A q \in Peers(r) :
        /\ joined[r].gpu > joined[q].gpu =>
               joined[r].gpu = joined[q].gpu + 1 /\ rank[r].pc = "reduce"
        /\ (rank[r].pc = "reduce" /\ joined[q].gpu >= joined[r].gpu) =>
               Reflects(q, rank[r].args.hash)

\* What is skewed stays skewed; unless it is, hooks are installed and no later stage of a
\* deployment whose sends return at once raises before it receives.
LEMMA Straight ==
    ASSUME ForwardInv, NEW r \in Ranks, Turn(r), Moves(r), ~Skewed'
    PROVE  /\ ~Skewed
           /\ Unprepared(r) => /\ rank'[r].obj = Hooked(rank[r]).obj
                               /\ rank'[r].regs = Hooked(rank[r]).regs
                               /\ cfg.eager => IsFirst(r)
<1>1. cfg' = cfg /\ broken \subseteq broken' /\ \A q : Stage(q)' = Stage(q)
    BY SameGrid DEF Turn
<1>2. ~Skewed
    <2> SUFFICES ASSUME Skewed PROVE FALSE  OBVIOUS
    <2>1. PICK f \in broken : \/ f.kind = "hooks"
                              \/ cfg.eager /\ Stage(f.rank) > 1 /\ f.kind = "prepare"
        BY DEF Skewed
    <2>2. f \in broken' /\ cfg'.eager = cfg.eager /\ Stage(f.rank)' = Stage(f.rank)
        BY <1>1
    <2>3. Skewed'  BY <2>1, <2>2 DEF Skewed
    <2> QED BY <2>3
<1>3. ASSUME Unprepared(r)
      PROVE  /\ rank'[r].obj = Hooked(rank[r]).obj /\ rank'[r].regs = Hooked(rank[r]).regs
             /\ cfg.eager => IsFirst(r)
    <2>1. rank[r].pc = "ready"  BY <1>3 DEF Unprepared, Ready
    <2>2. Fitting(rank[r].args, Groups(r))  BY <2>1, Passes DEF LeasePasses
    <2>3. ~ Breaks(r, "hooks")
        <3> SUFFICES ASSUME Breaks(r, "hooks") PROVE FALSE  OBVIOUS
        <3>1. [kind |-> "hooks", rank |-> r, call |-> rank[r].at] \in broken'  BY DEF Breaks
        <3> QED BY <3>1 DEF Skewed
    <2>4. Breaks(r, "prepare")  BY <1>3, <2>2, <2>3 DEF Unprepared
    <2>5. ASSUME cfg.eager, ~IsFirst(r) PROVE FALSE
        <3>0. [kind |-> "prepare", rank |-> r, call |-> rank[r].at] \in broken'
            BY <2>4 DEF Breaks
        <3>1. PICK f \in broken' : f.kind = "prepare" /\ f.rank = r  BY <3>0
        <3>2. Stage(r) > 1
            <4>1. Stage(r) \in 1..cfg.pp /\ cfg.pp \in Nat /\ Stage(r) # 1
                BY <2>5, Grid DEF ForwardInv, Route, IsFirst
            <4> QED BY <4>1
        <3>3. cfg'.eager /\ Stage(f.rank)' > 1
            <4>1. Stage(f.rank)' = Stage(r)  BY <1>1, <3>1
            <4> QED BY <1>1, <2>5, <3>2, <4>1
        <3> QED BY <3>1, <3>3 DEF Skewed
    <2> QED BY <1>3, <2>3, <2>5 DEF Unprepared
<1> QED BY <1>2, <1>3

\* Installing hooks leaves those of the new object and no others.
LEMMA HookedIs ==
    ASSUME NEW me, DOMAIN me = Fields, me.regs = HookOf(me.obj), me.args.hash # NoHash
    PROVE  LET you == Hooked(me) IN
           /\ you.regs = HookOf(you.obj) /\ you.obj.hash = me.args.hash
           /\ me.obj.hash = me.args.hash => you = me
<1>1. CASE me.obj.hash = me.args.hash  BY <1>1 DEF Hooked
<1>2. CASE me.obj.hash # me.args.hash
    <2> DEFINE o == [hash |-> me.args.hash, call |-> me.at]
               h == [hash |-> me.args.hash, call |-> me.at, upto |-> Layers]
               regs == Detached(me) \union {h}
               you == [me EXCEPT !.obj = o, !.regs = regs]
    <2>1. Hooked(me) = you  BY <1>2 DEF Hooked
    <2>2. Detached(me) = {}  BY DEF Detached, HookOf
    <2>3. regs = HookOf(o)  BY <2>2 DEF HookOf
    <2>4. o.hash = me.args.hash  OBVIOUS
    <2> HIDE DEF o, regs
    <2>5. you.obj = o /\ you.regs = regs  BY DEF Fields
    <2> HIDE DEF you
    <2> QED BY <1>2, <2>1, <2>3, <2>4, <2>5
<1> QED BY <1>1, <1>2

\* The arguments of a call do not change.
LEMMA SameArgs ==
    ASSUME ForwardInv, ForwardInv', NEW r \in Ranks, Turn(r), rank[r].pc # "idle",
           rank'[r].pc # "idle", rank'[r].at = rank[r].at
    PROVE  rank'[r].args = rank[r].args /\ rank[r].args.hash # NoHash
<1>1. Ranks' = Ranks /\ sent' = sent  BY SameGrid DEF Turn
<1>2. rank[r].args = sent[rank[r].at] /\ rank[r].args \in Calls  BY CallOf
<1>3. rank'[r].args = sent'[rank'[r].at]  BY <1>1 DEF ForwardInv, Workers
<1>4. NoHash \notin Hashes  BY ConfigAssumption DEF Hashes
<1>5. rank[r].args.hash \in Hashes  BY <1>2 DEF Calls
<1> QED BY <1>1, <1>2, <1>3, <1>4, <1>5

\* A step of a rank keeps the hooks in order.
LEMMA RankHooks ==
    ASSUME ForwardInv, ForwardInv', Hooks, NEW r \in Ranks, Turn(r), Moves(r), ~Skewed'
    PROVE  Hooks'
<1> DEFINE me == rank[r]
           new == rank'[r]
           Fine(you) == /\ you.regs = HookOf(you.obj)
                        /\ you.pc \in {"recv", "model", "reduce"} => you.obj.hash = you.args.hash
<1>1. Ranks' = Ranks /\ (Hooks' <=> \A q \in Ranks' : Fine(rank'[q]))
    BY SameGrid DEF Turn, Hooks, HookOf
<1>2. Fine(me) /\ \A q \in Ranks \ {r} : Fine(rank'[q])  BY DEF Turn, Hooks
<1>3. DOMAIN me = Fields  BY DEF ForwardInv, Workers
<1>4. ASSUME SameHooks(r),
             \/ new.pc \notin {"recv", "model", "reduce"}
             \/ me.pc \in {"recv", "model"} /\ new.at = me.at
      PROVE  Fine(new)
    <2>1. CASE new.pc \notin {"recv", "model", "reduce"}
        BY <1>2, <1>4, <2>1 DEF SameHooks
    <2>2. CASE me.pc \in {"recv", "model"} /\ new.at = me.at /\ new.pc \in {"recv", "model", "reduce"}
        <3>1. new.args = me.args  BY <2>2, SameArgs
        <3> QED BY <1>2, <1>4, <2>2, <3>1 DEF SameHooks
    <2> QED BY <1>4, <2>1, <2>2
<1>5. ASSUME new.obj = Hooked(me).obj, new.regs = Hooked(me).regs, me.pc = "ready",
             new.pc # "idle", new.at = me.at
      PROVE  Fine(new)
    <2>1. new.args = me.args /\ me.args.hash # NoHash  BY <1>5, SameArgs
    <2>2. me.regs = HookOf(me.obj)  BY <1>2
    <2> HIDE DEF me, new
    <2>3. Hooked(me).regs = HookOf(Hooked(me).obj) /\ Hooked(me).obj.hash = me.args.hash
        BY <1>3, <2>1, <2>2, HookedIs
    <2> QED BY <1>5, <2>1, <2>3
<1>6. Fine(new)
    <2> HIDE DEF Fine
    <2>1. CASE Began(r)  BY <1>4, <2>1 DEF Began
    <2>2. CASE Entered(r) \/ Delivered(r) \/ Posted(r) \/ Closed(r)
        BY <1>4, <2>2 DEF Entered, Delivered, Posted, Closed, Goes
    <2>3. CASE Prepared(r)
        <3>1. /\ new.obj = Hooked(me).obj /\ new.regs = Hooked(me).regs /\ me.pc = "ready"
              /\ new.pc # "idle" /\ new.at = me.at
            BY <2>3 DEF Prepared, Ready
        <3> QED BY <1>5, <3>1
    <2>4. CASE Unprepared(r)
        <3>1. new.obj = Hooked(me).obj /\ new.regs = Hooked(me).regs  BY <2>4, Straight
        <3>2. me.pc = "ready" /\ new.pc # "idle" /\ new.at = me.at
            BY <2>4 DEF Unprepared, Ready, SameData
        <3> QED BY <1>5, <3>1, <3>2
    <2>5. CASE Took(r) \/ Reduced(r)  BY <1>4, <2>5 DEF Took, Reduced, Goes, SameData
    <2>6. CASE Computed(r)
        <3>1. SameHooks(r) /\ new.pc \in {"post", "close", "sent"}  BY <2>6 DEF Computed
        <3> QED BY <1>4, <3>1
    <2>7. CASE GaveUp(r)  BY <1>4, <2>7 DEF GaveUp
    <2> QED BY <2>1, <2>2, <2>3, <2>4, <2>5, <2>6, <2>7 DEF Moves
<1>7. \A q \in Ranks : Fine(rank'[q])
    <2> HIDE DEF Fine
    <2> QED BY <1>2, <1>6
<1> HIDE DEF Fine
<1> QED BY <1>1, <1>7

\* A rank past the second barrier of its call and one that computes with it are in the
\* same call.
LEMMA SameBarrier ==
    ASSUME ForwardInv, NEW r \in Ranks, NEW q \in Peers(r), rank[r].pc = "reduce", Ready(q)
    PROVE  rank[q].args = rank[r].args
<1>1. q \in Ranks /\ r \in Peers(q) /\ rank[q].pc = "ready" /\ joined[r].cpu >= joined[q].cpu
    BY DEF Peers, Ready, Met
<1>2. rank[r].args = sent[rank[r].at] /\ rank[q].args = sent[rank[q].at]
    BY <1>1, CallOf
<1>3. CASE cfg.tp > 1
    <2>1. joined[q].cpu + If(Before(r, {"enter", "ready"}), 2) >= 2 * rank[r].at
        <3>1. \A x \in Ranks : \A y \in Peers(x) :
                  joined[y].cpu + If(Before(x, {"enter", "ready"}), 2) >= 2 * rank[x].at
            BY <1>3 DEF ForwardInv, Barrier
        <3> QED BY <3>1
    <2>2. /\ joined[r].cpu + If(rank[r].pc = "enter", 1) = If(cfg.tp > 1, 2 * rank[r].at)
          /\ joined[q].cpu + If(rank[q].pc = "enter", 1) = If(cfg.tp > 1, 2 * rank[q].at)
        BY <1>1 DEF ForwardInv, Counts
    <2>3. /\ joined[q].cpu + 0 >= 2 * rank[r].at
          /\ joined[r].cpu + 0 = 2 * rank[r].at /\ joined[q].cpu + 0 = 2 * rank[q].at
        BY <1>1, <1>3, <2>1, <2>2 DEF If, Before
    <2>4. /\ joined[q].cpu \in Nat /\ joined[r].cpu \in Nat
          /\ rank[q].at \in Nat /\ rank[r].at \in Nat
        <3>1. joined[q] \in [cpu : Nat, gpu : Nat] /\ joined[r] \in [cpu : Nat, gpu : Nat]
            BY <1>1 DEF ForwardInv, Counts
        <3>2. rank[q].at \in 0..Len(sent) /\ rank[r].at \in 0..Len(sent)
            BY <1>1 DEF ForwardInv, Workers
        <3> QED BY <3>1, <3>2
    <2>5. rank[q].at = rank[r].at  BY <1>1, <2>3, <2>4
    <2> QED BY <1>2, <2>5
<1>4. CASE ~ (cfg.tp > 1)
    <2>1. q = r  BY <1>1, <1>4, Alone DEF ForwardInv, Route
    <2> QED BY <2>1
<1> QED BY <1>3, <1>4

\* Hooks for a hash.
LEMMA ReflectsIs ==
    ASSUME Hooks, NEW q \in Ranks, NEW hash, hash # NoHash
    PROVE  Reflects(q, hash) <=> rank[q].obj.hash = hash
<1>1. rank[q].regs = HookOf(rank[q].obj)  BY DEF Hooks
<1>2. CASE rank[q].obj.hash = NoHash
    <2>1. rank[q].regs = {}  BY <1>1, <1>2 DEF HookOf
    <2> QED BY <1>2, <2>1 DEF Reflects
<1>3. CASE rank[q].obj.hash # NoHash
    <2> DEFINE h == [hash |-> rank[q].obj.hash, call |-> rank[q].obj.call, upto |-> Layers]
    <2>1. rank[q].regs = {h}  BY <1>1, <1>3 DEF HookOf
    <2>2. h.hash = rank[q].obj.hash /\ h.upto = Layers  OBVIOUS
    <2> HIDE DEF h
    <2> QED BY <2>1, <2>2 DEF Reflects
<1> QED BY <1>2, <1>3

\* A step of a rank keeps the collectives in step.
LEMMA RankCollective ==
    ASSUME ForwardInv, ForwardInv', Hooks, Collective, NEW r \in Ranks, Turn(r), Moves(r),
           ~Skewed'
    PROVE  Collective'
<1>1. Ranks' = Ranks /\ \A x : Peers(x)' = Peers(x)  BY SameGrid DEF Turn
<1>2. \A x \in Ranks : \A y \in Peers(x) : y \in Ranks /\ x \in Peers(y)  BY DEF Peers
<1>3. \A x \in Ranks : joined[x].gpu \in Nat
    <2>1. \A x \in Ranks : joined[x] \in [cpu : Nat, gpu : Nat]  BY DEF ForwardInv, Counts
    <2> QED BY <2>1
<1>4. \A x \in Ranks \ {r} : rank'[x] = rank[x]  BY DEF Turn
<1>5. SameGpu \/ (Reduced(r) /\ cfg.tp > 1 /\ joined'[r].gpu = joined[r].gpu + 1
                  /\ \A x \in Ranks \ {r} : joined'[x].gpu = joined[x].gpu)
    <2>1. CASE Reduced(r) /\ cfg.tp > 1
        <3>1. joined' = [joined EXCEPT ![r] = [joined[r] EXCEPT !.gpu = joined[r].gpu + 1]]
            BY <2>1 DEF Reduced, Joins
        <3>2. DOMAIN joined = Ranks /\ joined[r] \in [cpu : Nat, gpu : Nat]
            BY DEF ForwardInv, Counts
        <3>3. joined'[r] = [joined[r] EXCEPT !.gpu = joined[r].gpu + 1]  BY <3>1, <3>2
        <3>4. joined'[r].gpu = joined[r].gpu + 1  BY <3>2, <3>3
        <3>5. \A x \in Ranks \ {r} : joined'[x] = joined[x]  BY <3>1, <3>2
        <3> QED BY <2>1, <3>4, <3>5
    <2>2. CASE Reduced(r) /\ ~ (cfg.tp > 1)
        <3>1. joined' = joined  BY <2>2 DEF Reduced, Joins
        <3> QED BY <3>1 DEF SameGpu
    <2>3. CASE ~Reduced(r)
        BY <2>3 DEF Moves, Began, Entered, Prepared, Unprepared, Took, Computed, Delivered,
                    Posted, GaveUp, Closed
    <2> QED BY <2>1, <2>2, <2>3
<1>6. Hooks'  BY RankHooks
\* The counters.
<1>7. ASSUME NEW x \in Ranks, NEW y \in Peers(x), joined'[x].gpu > joined'[y].gpu
      PROVE  joined'[x].gpu = joined'[y].gpu + 1 /\ rank'[x].pc = "reduce"
    <2>0. y \in Ranks /\ x \in Peers(y)  BY <1>2
    <2>1. CASE SameGpu
        <3>1. joined[x].gpu > joined[y].gpu /\ joined[x].gpu = joined[y].gpu + 1
              /\ rank[x].pc = "reduce"
            BY <1>7, <2>0, <2>1 DEF SameGpu, Collective
        <3>2. rank'[x].pc = "reduce"
            <4>1. CASE x # r  BY <1>4, <3>1, <4>1
            <4>2. CASE x = r
                <5>1. Computed(r)
                    BY <3>1, <4>2 DEF Moves, Began, Entered, Prepared, Unprepared, Took,
                          Delivered, Posted, GaveUp, Closed, Goes, Ready, Reduced
                <5>2. joined[y].gpu >= joined[x].gpu  BY <4>2, <5>1 DEF Computed, Met
                <5> QED BY <1>3, <2>0, <3>1, <5>2
            <4> QED BY <4>1, <4>2
        <3> QED BY <2>0, <2>1, <3>1, <3>2 DEF SameGpu
    <2>2. CASE /\ Reduced(r) /\ cfg.tp > 1 /\ joined'[r].gpu = joined[r].gpu + 1
               /\ \A z \in Ranks \ {r} : joined'[z].gpu = joined[z].gpu
        <3>1. rank[r].pc = "model" /\ rank'[r].pc = "reduce"  BY <2>2 DEF Reduced, Goes
        <3>2. CASE x = r
            <4>1. y # r  BY <1>3, <1>7, <2>2, <3>2
            <4>2. ~ (joined[r].gpu > joined[y].gpu)  BY <2>0, <3>1, <3>2 DEF Collective
            <4>3. joined'[y].gpu = joined[y].gpu  BY <2>0, <2>2, <4>1
            <4> QED BY <1>3, <1>7, <2>0, <2>2, <3>1, <3>2, <4>2, <4>3
        <3>3. CASE x # r
            <4>1. joined'[x].gpu = joined[x].gpu /\ rank'[x] = rank[x]  BY <1>4, <2>2, <3>3
            <4>2. CASE y = r
                <5>1. joined[x].gpu > joined[r].gpu + 1  BY <1>7, <2>2, <4>1, <4>2
                <5>2. joined[x].gpu > joined[r].gpu  BY <1>3, <5>1
                <5>3. joined[x].gpu = joined[r].gpu + 1  BY <4>2, <5>2 DEF Collective
                <5> QED BY <1>3, <5>1, <5>3
            <4>3. CASE y # r
                <5>1. joined'[y].gpu = joined[y].gpu  BY <2>0, <2>2, <4>3
                <5> QED BY <1>7, <4>1, <5>1 DEF Collective
            <4> QED BY <4>2, <4>3
        <3> QED BY <3>2, <3>3
    <2> QED BY <1>5, <2>1, <2>2
\* The hooks.
<1>8. ASSUME NEW x \in Ranks, NEW y \in Peers(x), rank'[x].pc = "reduce",
             joined'[y].gpu >= joined'[x].gpu
      PROVE  Reflects(y, rank[x].args.hash)' /\ rank'[x].args = rank[x].args
    <2>0. y \in Ranks /\ x \in Peers(y)  BY <1>2
    <2>1. /\ rank[x].pc # "idle" /\ rank'[x].args = rank[x].args
          /\ rank[x].args.hash # NoHash
          /\ x = r => rank[x].pc = "model"
        <3>1. CASE x = r
            <4>1. Reduced(r)
                BY <1>8, <3>1 DEF Moves, Began, Entered, Prepared, Unprepared, Took, Computed,
                          Delivered, Posted, GaveUp, Closed, Goes
            <4>2. rank[r].pc = "model" /\ rank'[r].pc = "reduce" /\ rank'[r].at = rank[r].at
                BY <4>1 DEF Reduced, Goes, SameData
            <4> QED BY <3>1, <4>2, SameArgs
        <3>2. CASE x # r
            <4>1. rank'[x] = rank[x]  BY <1>4, <3>2
            <4>2. rank[x].args \in Calls  BY <1>8, <4>1, CallOf
            <4>3. rank[x].args.hash \in Hashes  BY <4>2 DEF Calls
            <4>4. NoHash \notin Hashes  BY ConfigAssumption DEF Hashes
            <4> QED BY <1>8, <3>2, <4>1, <4>3, <4>4
        <3> QED BY <3>1, <3>2
    <2> DEFINE hash == rank[x].args.hash
    <2>2. rank'[y].obj.hash = hash
        <3>1. CASE x = r /\ y = r
            <4>1. rank'[r].obj.hash = rank'[r].args.hash  BY <1>6, <1>1, <1>8, <3>1 DEF Hooks
            <4> QED BY <2>1, <3>1, <4>1
        <3>2. CASE x = r /\ y # r
            <4>1. Reduced(r) /\ rank[r].pc = "model"
                BY <1>8, <3>2 DEF Moves, Began, Entered, Prepared, Unprepared, Took, Computed,
                          Delivered, Posted, GaveUp, Closed, Goes, Reduced
            <4>2. cfg.tp > 1
                <5> SUFFICES ASSUME ~ (cfg.tp > 1) PROVE FALSE  OBVIOUS
                <5>1. y = x  BY Alone DEF ForwardInv, Route
                <5> QED BY <3>2, <5>1
            <4>3. joined'[r].gpu = joined[r].gpu + 1 /\ joined'[y].gpu = joined[y].gpu
                <5>1. DOMAIN joined = Ranks /\ joined[r] \in [cpu : Nat, gpu : Nat]
                    BY DEF ForwardInv, Counts
                <5>2. joined' = [joined EXCEPT ![r] =
                                    [joined[r] EXCEPT !.gpu = joined[r].gpu + 1]]
                    BY <4>1, <4>2 DEF Reduced, Joins
                <5>3. joined'[r] = [joined[r] EXCEPT !.gpu = joined[r].gpu + 1]  BY <5>1, <5>2
                <5>4. joined'[y] = joined[y]  BY <2>0, <3>2, <5>1, <5>2
                <5> QED BY <5>1, <5>3, <5>4
            <4>4. joined[y].gpu > joined[r].gpu  BY <1>3, <1>8, <2>0, <3>2, <4>3
            <4>5. rank[y].pc = "reduce"  BY <2>0, <3>2, <4>4 DEF Collective
            <4>6. rank[y].args = rank[r].args
                BY <3>2, <4>1, <4>5, SameCall DEF StageAgrees, Forwarding
            <4>7. rank[y].obj.hash = rank[y].args.hash  BY <2>0, <4>5 DEF Hooks
            <4>8. rank'[y] = rank[y]  BY <1>4, <2>0, <3>2
            <4> QED BY <3>2, <4>6, <4>7, <4>8
        <3>3. CASE x # r /\ y # r
            <4>1. rank'[x] = rank[x] /\ rank'[y] = rank[y]  BY <1>4, <2>0, <3>3
            <4>2. joined'[x].gpu = joined[x].gpu /\ joined'[y].gpu = joined[y].gpu
                BY <1>5, <2>0, <3>3 DEF SameGpu
            <4>3. Reflects(y, hash)  BY <1>8, <4>1, <4>2 DEF Collective
            <4> QED BY <2>0, <2>1, <4>1, <4>3, ReflectsIs
        <3>4. CASE x # r /\ y = r
            <4>1. rank'[x] = rank[x] /\ rank[x].pc = "reduce"  BY <1>4, <1>8, <3>4
            <4>2. CASE Reduced(r)
                <5>1. rank[r].pc = "model" /\ rank'[r].obj = rank[r].obj
                    BY <4>2 DEF Reduced, Goes, SameHooks
                <5>2. rank[x].args = rank[r].args
                    BY <2>0, <3>4, <4>1, <5>1, SameCall DEF StageAgrees, Forwarding
                <5>3. rank[r].obj.hash = rank[r].args.hash  BY <5>1 DEF Hooks
                <5> QED BY <3>4, <5>1, <5>2, <5>3
            <4>3. CASE ~Reduced(r)
                <5>1. joined'[x].gpu = joined[x].gpu /\ joined'[y].gpu = joined[y].gpu
                    BY <1>5, <2>0, <4>3 DEF SameGpu
                <5>2. Reflects(y, hash)  BY <1>8, <4>1, <5>1 DEF Collective
                <5>3. rank[r].obj.hash = hash  BY <2>0, <2>1, <3>4, <5>2, ReflectsIs
                <5>4. CASE SameHooks(r)  BY <3>4, <5>3, <5>4 DEF SameHooks
                <5>5. CASE Prepared(r) \/ Unprepared(r)
                    <6>1. Ready(r) /\ rank'[r].obj = Hooked(rank[r]).obj
                        BY <5>5, Straight DEF Prepared, Unprepared
                    <6>2. rank[r].args = rank[x].args  BY <3>4, <4>1, <6>1, SameBarrier
                    <6>3. Hooked(rank[r]) = rank[r]  BY <5>3, <6>2 DEF Hooked
                    <6> QED BY <3>4, <5>3, <6>1, <6>3
                <5> QED BY <4>3, <5>4, <5>5 DEF Moves, Began, Entered, Took, Computed,
                           Delivered, Posted, GaveUp, Closed
            <4> QED BY <4>2, <4>3
        <3> QED BY <3>1, <3>2, <3>3, <3>4
    <2>3. rank'[y].regs = HookOf(rank'[y].obj)  BY <1>1, <1>6, <2>0 DEF Hooks, HookOf
    <2>4. rank'[y].regs = {[hash |-> hash, call |-> rank'[y].obj.call, upto |-> Layers]}
        BY <2>1, <2>2, <2>3 DEF HookOf
    <2> QED BY <2>1, <2>4 DEF Reflects
<1>9. \A x \in Ranks : \A y \in Peers(x) :
          (rank'[x].pc = "reduce" /\ joined'[y].gpu >= joined'[x].gpu) =>
               Reflects(y, rank[x].args.hash)' /\ rank'[x].args = rank[x].args
    BY <1>8
<1> QED BY <1>1, <1>7, <1>9 DEF Collective, Reflects

----------------------------------------------------------------------------
(* Hidden states on their way from stage to stage.                         *)

\* Hidden states that a rank may hold.
Datas == [hash : Hashes \union {NoHash}, nonces : Seq(Nonces), len : Nat, good : {TRUE}]

\* The forward of the last call has its hidden states, or it has sent them on.
Passed(me) ==
    \/ me.pc \in {"model", "reduce", "sent", "post"}
    \/ me.pc \in {"close", "idle"} /\ me.ok /\ me.at > 0
Gave(me) == me.pc = "sent" \/ (me.pc \in {"close", "idle"} /\ me.ok /\ me.at > 0)

\* Calls in which a rank has taken or sent hidden states by now, or never will.
Taken(me) == IF me.pc \in {"enter", "ready", "recv"} THEN me.at - 1 ELSE me.at
Given(me) == IF me.pc \in {"enter", "ready", "recv", "model", "reduce"} THEN me.at - 1 ELSE me.at

\* A rank, its successor and what is on its way between them: what was sent is what the
\* rank computed with, and so is what has arrived.
Edge(me, you, line, eager) ==
    /\ line # <<>> => (Gave(me) /\ me.data = line[1]) \/ me.pc \in {"enter", "ready"}
    /\ (me.at = you.at /\ Gave(me) /\ Passed(you) /\ line = <<>>) => you.data = me.data
    /\ IF eager THEN Taken(you) + Len(line) <= Given(me) ELSE line # <<>> => me.pc = "sent"

\* Hidden states are good, the first stage has those of its call, and answers without an
\* exception come from ranks that had none.
Held(me, line, first, last, log) ==
    /\ me.data \in Datas /\ (line # <<>> => line[1] \in Datas)
    /\ me.pc \notin {"close", "idle"} => me.ok
    /\ (first => me.pc # "recv") /\ (me.pc = "post" => last)
    /\ (first /\ Passed(me)) => me.data = Whole(log[me.at])

\* Every rank has what it should, and the later stages what was sent to them.
Flow ==
    /\ \A r \in Ranks : Held(rank[r], chan[r], IsFirst(r), IsLast(r), sent)
    /\ \A s \in Ranks : ~IsLast(s) => Edge(rank[s], rank[s + cfg.tp], chan[s + cfg.tp], cfg.eager)

\* The artifacts of the request are what an honest miner has.
Upright ==
    req # NoRequest =>
        \A i \in 1..Len(req.arts) : req.arts[i].vec = Right(req.q, req.arts[i].nonce)

\* Unless ranks are skewed, what arrives at the route is what an honest miner has.
StraightInv == /\ ~Skewed => Hooks /\ Collective /\ Flow /\ Upright
               /\ HonestCleared

\* The stages in a row.
LEMMA StageAfter ==
    ASSUME cfg \in Configs, NEW r \in Ranks
    PROVE  /\ Stage(r + cfg.tp) = Stage(r) + 1 /\ ~IsFirst(r + cfg.tp)
           /\ ~IsFirst(r) => \E s \in Ranks : r = s + cfg.tp /\ ~IsLast(s)
<1> DEFINE tp == cfg.tp
           pp == cfg.pp
           p == Stage(r)
           x == (r - 1) % tp
<1>1. tp \in Nat \ {0} /\ pp \in Nat \ {0}  BY Grid
<1>2. r \in Nat /\ p \in 1..pp /\ x \in 0..tp-1 /\ r = (p - 1) * tp + x + 1  BY Grid
<1>3. Ranks = 1..(tp * pp) /\ tp * pp \in Nat  BY <1>1 DEF Ranks
<1>4. \A y : Stage(y) = ((y - 1) \div tp) + 1  BY DEF Stage
<1>5. (IsFirst(r) <=> p = 1) /\ (IsFirst(r + tp) <=> Stage(r + tp) = 1)  BY DEF IsFirst
<1>6. \A y : IsLast(y) <=> Stage(y) = pp  BY DEF IsLast
<1> HIDE DEF tp, pp, p, x
<1>7. p \in Nat /\ p >= 1 /\ p <= pp  BY <1>1, <1>2
<1>8. \A k \in Nat : (k + 1) * tp = k * tp + tp /\ k * tp \in Nat  BY <1>1
<1>9. Stage(r + tp) = p + 1
    <2>1. p - 1 \in Nat /\ (p - 1) + 1 = p  BY <1>7
    <2>2. p * tp = (p - 1) * tp + tp /\ (p - 1) * tp \in Nat /\ p * tp \in Nat
        BY <1>7, <1>8, <2>1
    <2>3. (r + tp) - 1 = p * tp + x  BY <1>1, <1>2, <2>2
    <2>4. (p * tp + x) \div tp = p  BY <1>1, <1>2, <1>7, DivOf
    <2> QED BY <1>4, <2>3, <2>4
<1>10. Stage(r + tp) # 1  BY <1>7, <1>9
<1>11. ASSUME ~IsFirst(r) PROVE \E s \in Ranks : r = s + tp /\ ~IsLast(s)
    <2> DEFINE k == p - 2
               s == k * tp + x + 1
    <2>1. k \in Nat /\ p - 1 = k + 1  BY <1>5, <1>7, <1>11
    <2>2. (p - 1) * tp = k * tp + tp /\ k * tp \in Nat  BY <1>8, <2>1
    <2>3. s \in Nat /\ s >= 1 /\ r = s + tp /\ s - 1 = k * tp + x
        BY <1>1, <1>2, <2>2
    <2>4. s \in Ranks  BY <1>1, <1>3, <2>3
    <2>5. (k * tp + x) \div tp = k  BY <1>1, <1>2, <2>1, DivOf
    <2> HIDE DEF s
    <2>6. Stage(s) = k + 1  BY <1>4, <2>3, <2>5
    <2>7. Stage(s) # pp  BY <1>7, <2>1, <2>6
    <2> QED BY <1>6, <2>3, <2>4, <2>7
<1> QED BY <1>5, <1>9, <1>10, <1>11 DEF tp, p

\* An edge, when its sender goes on and nothing is sent.
LEMMA SenderGoes ==
    ASSUME NEW me, NEW new, NEW you, NEW line, NEW eager,
           Edge(me, you, line, eager), me.at \in Nat, you.at \in Nat, Len(line) \in Nat,
           line # <<>> => \/ new.pc \in {"enter", "ready"}
                          \/ Gave(new) /\ new.data = me.data /\ Gave(me),
           Gave(new) => Gave(me) /\ new.at = me.at /\ new.data = me.data,
           eager => Given(me) <= Given(new) /\ Given(new) \in Int,
           me.pc = "sent" => new.pc = "sent" \/ line = <<>>
    PROVE  Edge(new, you, line, eager)
<1>1. line # <<>> => (Gave(new) /\ new.data = line[1]) \/ new.pc \in {"enter", "ready"}
    <2> SUFFICES ASSUME line # <<>>, new.pc \notin {"enter", "ready"}
                 PROVE  Gave(new) /\ new.data = line[1]
        OBVIOUS
    <2>1. Gave(new) /\ new.data = me.data /\ Gave(me)  OBVIOUS
    <2>2. me.pc \notin {"enter", "ready"}  BY <2>1 DEF Gave
    <2> QED BY <2>1, <2>2 DEF Edge
<1>2. (new.at = you.at /\ Gave(new) /\ Passed(you) /\ line = <<>>) => you.data = new.data
    BY DEF Edge
<1>3. ASSUME eager PROVE Taken(you) + Len(line) <= Given(new)
    <2>1. Taken(you) + Len(line) <= Given(me)  BY <1>3 DEF Edge
    <2>2. Taken(you) \in Int /\ Given(me) \in Int  BY DEF Taken, Given
    <2> QED BY <1>3, <2>1, <2>2
<1>4. ~eager => (line # <<>> => new.pc = "sent")  BY DEF Edge
<1> QED BY <1>1, <1>2, <1>3, <1>4 DEF Edge

\* An edge, when its receiver goes on and takes nothing.
LEMMA ReceiverGoes ==
    ASSUME NEW me, NEW you, NEW new, NEW line, NEW eager,
           Edge(me, you, line, eager), me.at \in Nat, you.at \in Nat, Len(line) \in Nat,
           Passed(new) => Passed(you) /\ new.at = you.at /\ new.data = you.data,
           eager => Taken(new) <= Taken(you) /\ Taken(new) \in Int
    PROVE  Edge(me, new, line, eager)
<1>1. line # <<>> => (Gave(me) /\ me.data = line[1]) \/ me.pc \in {"enter", "ready"}
    BY DEF Edge
<1>2. (me.at = new.at /\ Gave(me) /\ Passed(new) /\ line = <<>>) => new.data = me.data
    BY DEF Edge
<1>3. ASSUME eager PROVE Taken(new) + Len(line) <= Given(me)
    <2>1. Taken(you) + Len(line) <= Given(me)  BY <1>3 DEF Edge
    <2>2. Taken(you) \in Int /\ Given(me) \in Int  BY DEF Taken, Given
    <2> QED BY <1>3, <2>1, <2>2
<1>4. ~eager => (line # <<>> => me.pc = "sent")  BY DEF Edge
<1> QED BY <1>1, <1>2, <1>3, <1>4 DEF Edge

\* The hidden states of a rank that computes stay as they are.
LEMMA ComputedSame ==
    ASSUME Collective, NEW r \in Ranks, Computed(r), rank[r].data \in Datas
    PROVE  rank'[r].data = rank[r].data
<1> DEFINE good == rank[r].data.good /\ \A q \in Peers(r) : Reflects(q, rank[r].args.hash)
           d == rank[r].data
<1>1. rank'[r].data = [d EXCEPT !.good = good]  BY DEF Computed
<1>2. d.good = TRUE  BY DEF Datas
<1>3. rank[r].pc = "reduce" /\ \A q \in Peers(r) : joined[q].gpu >= joined[r].gpu
    BY DEF Computed, Met
<1>4. good = TRUE
    <2>1. \A q \in Peers(r) : Reflects(q, rank[r].args.hash)  BY <1>3 DEF Collective
    <2> QED BY <1>2, <2>1
<1> HIDE DEF good
<1>5. d \in Datas  OBVIOUS
<1> HIDE DEF d
<1>6. [d EXCEPT !.good = good] = d  BY <1>2, <1>4, <1>5 DEF Datas
<1> QED BY <1>1, <1>6 DEF d

\* What is on its way is nothing or one message.
LEMMA Lines ==
    ASSUME ForwardInv, NEW r \in Ranks
    PROVE  /\ rank[r].at \in Nat
           /\ chan[r] = <<>> \/ chan[r] = <<chan[r][1]>>
           /\ Len(chan[r]) \in Nat
           /\ chan[r] # <<>> => Len(chan[r]) = 1 /\ Head(chan[r]) = chan[r][1] /\ Tail(chan[r]) = <<>>
<1> DEFINE line == chan[r]
           x == chan[r][1]
<1>1. line = <<>> \/ line = <<x>>  BY DEF ForwardInv, Sending
<1>2. rank[r].at \in Nat
    <2>1. rank[r].at \in 0..Len(sent) /\ Len(sent) \in Nat  BY DEF ForwardInv, Workers, Route
    <2> QED BY <2>1
<1> HIDE DEF x, line
<1>3. /\ Len(line) \in Nat
      /\ line # <<>> => Len(line) = 1 /\ Head(line) = x /\ Tail(line) = <<>>
    <2>1. \A y : Len(<<y>>) = 1 /\ Head(<<y>>) = y /\ Tail(<<y>>) = <<>>  OBVIOUS
    <2>2. Len(<<>>) = 0  OBVIOUS
    <2>3. CASE line = <<>>  BY <2>2, <2>3
    <2>4. CASE line = <<x>>  BY <2>1, <2>4
    <2> QED BY <1>1, <2>3, <2>4
<1> QED BY <1>1, <1>2, <1>3 DEF line, x

\* The data of a call that has some is kept, unless a step gets it from the call or from
\* the stage before.
LEMMA PassedOn ==
    ASSUME ForwardInv, Collective, Flow, NEW r \in Ranks, Turn(r), Moves(r), ~Took(r),
           ~ (Prepared(r) /\ IsFirst(r))
    PROVE  /\ Passed(rank'[r]) => /\ Passed(rank[r]) /\ rank'[r].at = rank[r].at
                                  /\ rank'[r].data = rank[r].data
           /\ rank'[r].data \in Datas
           /\ ~Unprepared(r) => Taken(rank'[r]) = Taken(rank[r])
<1> DEFINE me == rank[r]
           new == rank'[r]
<1>1. me.data \in Datas  BY DEF Flow, Held
<1>2. me.at \in Nat  BY Lines
<1>3. CASE Began(r)
    <2>1. NoData \in Datas
        <3>1. <<>> \in Seq(Nonces) /\ 0 \in Nat  OBVIOUS
        <3> QED BY <3>1 DEF NoData, Datas
    <2>2. (new.at) - 1 = me.at  BY <1>2, <1>3 DEF Began
    <2> QED BY <1>3, <2>1, <2>2 DEF Began, Passed, Taken
<1>4. CASE Entered(r)  BY <1>1, <1>4 DEF Entered, Goes, SameData, Passed, Taken
<1>5. CASE Prepared(r)
    <2>1. ~IsFirst(r)  BY <1>5
    <2> QED BY <1>1, <1>5, <2>1 DEF Prepared, Ready, Passed, Taken
<1>6. CASE Unprepared(r)  BY <1>1, <1>6 DEF Unprepared, SameData, Passed
<1>7. CASE Reduced(r)  BY <1>1, <1>7 DEF Reduced, Goes, SameData, Passed, Taken
<1>8. CASE Computed(r)
    <2>1. new.data = me.data  BY <1>1, <1>8, ComputedSame
    <2>2. new.pc \in {"post", "close", "sent"}  BY <1>8 DEF Computed
    <2> QED BY <1>1, <1>8, <2>1, <2>2 DEF Computed, Passed, Taken
<1>9. CASE Delivered(r)  BY <1>1, <1>9 DEF Delivered, Goes, SameData, Passed, Taken
<1>10. CASE Posted(r)  BY <1>1, <1>10 DEF Posted, Goes, SameData, Passed, Taken
<1>11. CASE GaveUp(r)  BY <1>1, <1>11 DEF GaveUp, SameData, Passed, Taken
<1>12. CASE Closed(r)  BY <1>1, <1>12 DEF Closed, Goes, SameData, SameOk, Passed, Taken
<1> QED BY <1>3, <1>4, <1>5, <1>6, <1>7, <1>8, <1>9, <1>10, <1>11, <1>12 DEF Moves

\* A rank that is not in the last stage sends nothing but what it has computed.
LEMMA GaveOn ==
    ASSUME ForwardInv, Flow, NEW r \in Ranks, Turn(r), Moves(r), ~Computed(r), ~IsLast(r)
    PROVE  LET me == rank[r]
               new == rank'[r]
               line == chan[r + cfg.tp]
           IN  /\ line # <<>> => \/ new.pc \in {"enter", "ready"}
                                 \/ Gave(new) /\ new.data = me.data /\ Gave(me)
               /\ Gave(new) => Gave(me) /\ new.at = me.at /\ new.data = me.data
               /\ Given(me) <= Given(new) /\ Given(new) \in Int
               /\ me.pc = "sent" => new.pc = "sent" \/ line = <<>>
<1> DEFINE me == rank[r]
           new == rank'[r]
           line == chan[r + cfg.tp]
           you == rank[r + cfg.tp]
<1>1. Edge(me, you, line, cfg.eager)  BY DEF Flow
<1>2. line # <<>> => Gave(me) \/ me.pc \in {"enter", "ready"}  BY <1>1 DEF Edge
<1>3. me.at \in Nat  BY Lines
<1>4. me.pc # "post"  BY DEF Flow, Held
<1>5. \A n \in Nat : n - 1 <= n /\ n <= n /\ n - 1 \in Int /\ (n + 1) - 1 = n /\ n - 1 <= n - 1
    OBVIOUS
<1> HIDE DEF line, you
<1>6. CASE Began(r)  BY <1>3, <1>5, <1>6 DEF Began, Gave, Given
<1>7. CASE Entered(r)  BY <1>3, <1>5, <1>7 DEF Entered, Goes, SameData, Gave, Given
<1>8. CASE Prepared(r)
    <2>1. line = <<>> /\ me.pc = "ready" /\ new.at = me.at /\ new.pc \in {"model", "recv"}
        BY <1>8 DEF Prepared, Ready, line
    <2> QED BY <1>3, <1>5, <2>1 DEF Gave, Given, line
<1>9. CASE Unprepared(r)
    <2>1. line = <<>> /\ me.pc = "ready" /\ new.at = me.at /\ new.pc = "close" /\ ~new.ok
        BY <1>9 DEF Unprepared, Ready, line, SameData
    <2> QED BY <1>3, <1>5, <2>1 DEF Gave, Given, line
<1>10. CASE Took(r) \/ Reduced(r)
    <2>1. /\ me.pc \in {"recv", "model"} /\ new.at = me.at /\ new.pc \in {"model", "reduce"}
        BY <1>10 DEF Took, Reduced, Goes, SameData
    <2> QED BY <1>2, <1>3, <1>5, <2>1 DEF Gave, Given, line
<1>11. CASE Delivered(r)
    <2>1. line = <<>>  BY <1>11 DEF Delivered, line
    <2> QED BY <1>3, <1>5, <1>11, <2>1 DEF Delivered, Goes, SameData, SameOk, Gave, Given
<1>12. CASE Posted(r)  BY <1>4, <1>12 DEF Posted, Goes
<1>13. CASE GaveUp(r)
    <2>1. me.pc = "model" /\ new.at = me.at /\ new.pc = "close" /\ ~new.ok
        BY <1>4, <1>13 DEF GaveUp, SameData
    <2> QED BY <1>2, <1>3, <1>5, <2>1 DEF Gave, Given, line
<1>14. CASE Closed(r)
    <2>1. /\ me.pc = "close" /\ new.pc = "idle" /\ new.ok = me.ok
          /\ new.at = me.at /\ new.data = me.data
        BY <1>14 DEF Closed, Goes, SameData, SameOk
    <2> QED BY <1>2, <1>3, <1>5, <2>1 DEF Gave, Given, line
<1> QED BY <1>6, <1>7, <1>8, <1>9, <1>10, <1>11, <1>12, <1>13, <1>14 DEF Moves, line

\* A step of a rank leaves its data and what it sends good.
LEMMA RankHeld ==
    ASSUME ForwardInv, ForwardInv', Collective, Flow, NEW r \in Ranks, Turn(r), Moves(r)
    PROVE  \A x \in Ranks : Held(rank'[x], chan'[x], IsFirst(x), IsLast(x), sent)
<1> DEFINE me == rank[r]
           new == rank'[r]
<1>1. \A x \in Ranks : Held(rank[x], chan[x], IsFirst(x), IsLast(x), sent)
    BY DEF Flow
<1>2. \A x \in Ranks \ {r} : rank'[x] = rank[x]  BY DEF Turn
<1>3. DOMAIN chan = Ranks  BY DEF ForwardInv, Sending
<1>4. /\ me.data \in Datas /\ (IsFirst(r) => me.pc # "recv")
      /\ me.pc \notin {"close", "idle"} => me.ok
      /\ (IsFirst(r) /\ Passed(me)) => me.data = Whole(sent[me.at])
      /\ chan[r] # <<>> => chan[r][1] \in Datas
    BY <1>1 DEF Held
<1>5. Prepared(r) => Whole(me.args) \in Datas /\ me.args = sent[me.at] /\ new.at = me.at
    <2> SUFFICES ASSUME Prepared(r)
                 PROVE  Whole(me.args) \in Datas /\ me.args = sent[me.at] /\ new.at = me.at
        OBVIOUS
    <2>1. me.pc = "ready" /\ new.at = me.at  BY DEF Prepared, Ready
    <2>2. me.args \in Calls /\ me.args = sent[me.at]  BY <2>1, CallOf
    <2> QED BY <2>1, <2>2 DEF Whole, Calls, Datas
<1>6. new.data \in Datas
    <2>1. CASE Took(r)
        <3>1. chan[r] # <<>> /\ new.data = Head(chan[r])  BY <2>1 DEF Took
        <3>2. new.data = chan[r][1]  BY <3>1, Lines
        <3> QED BY <1>4, <3>1, <3>2
    <2>2. CASE Prepared(r) /\ IsFirst(r)  BY <1>5, <2>2 DEF Prepared
    <2>3. CASE ~Took(r) /\ ~ (Prepared(r) /\ IsFirst(r))  BY <2>3, PassedOn
    <2> QED BY <2>1, <2>2, <2>3
<1>7. (IsFirst(r) /\ Passed(new)) => new.data = Whole(sent[new.at])
    <2>1. CASE Took(r)  BY <1>4, <2>1 DEF Took, Goes
    <2>2. CASE Prepared(r) /\ IsFirst(r)  BY <1>5, <2>2 DEF Prepared
    <2>3. CASE ~Took(r) /\ ~ (Prepared(r) /\ IsFirst(r))  BY <1>4, <2>3, PassedOn
    <2> QED BY <2>1, <2>2, <2>3
<1>8. /\ new.pc \notin {"close", "idle"} => new.ok
      /\ (IsFirst(r) => new.pc # "recv") /\ (new.pc = "post" => IsLast(r))
    <2>1. CASE Began(r) \/ Unprepared(r) \/ GaveUp(r)
        BY <2>1 DEF Began, Unprepared, GaveUp
    <2>2. CASE Prepared(r)  BY <1>4, <2>2 DEF Prepared, Ready, SameOk
    <2>3. CASE Computed(r)
        <3>1. me.pc = "reduce" /\ new.ok = me.ok  BY <2>3 DEF Computed, SameOk
        <3>2. IF IsLast(r) THEN new.pc = "post" ELSE new.pc \in {"close", "sent"}
            BY <2>3 DEF Computed
        <3> QED BY <1>4, <3>1, <3>2
    <2>4. CASE Entered(r) \/ Took(r) \/ Reduced(r) \/ Delivered(r) \/ Posted(r) \/ Closed(r)
        BY <1>4, <2>4 DEF Entered, Took, Reduced, Delivered, Posted, Closed, Goes, SameOk
    <2> QED BY <2>1, <2>2, <2>3, <2>4 DEF Moves
<1>9. ASSUME NEW x \in Ranks PROVE chan'[x] # <<>> => chan'[x][1] \in Datas
    <2>0. chan[x] # <<>> => chan[x][1] \in Datas  BY <1>1 DEF Held
    <2>1. CASE Took(r)
        <3>1. chan' = [chan EXCEPT ![r] = Tail(@)] /\ Tail(chan[r]) = <<>>
            BY <2>1, Lines DEF Took
        <3> QED BY <1>3, <2>0, <3>1
    <2>2. CASE Computed(r) /\ ~IsLast(r)
        <3> DEFINE n == r + cfg.tp
                   d == new.data
        <3>1. chan' = [chan EXCEPT ![n] = Append(@, d)]  BY <2>2 DEF Computed
        <3>2. me.pc = "reduce"  BY <2>2 DEF Computed
        <3>3. chan[n] = <<>>  BY <2>2, <3>2 DEF ForwardInv, Sending, Before
        <3> HIDE DEF n, d
        <3>4. chan' = [chan EXCEPT ![n] = <<d>>]  BY <3>1, <3>3
        <3>5. x = n => chan'[x] = <<d>>  BY <1>3, <3>4
        <3>6. x # n => chan'[x] = chan[x]  BY <1>3, <3>4
        <3>7. d \in Datas  BY <1>6 DEF d
        <3> QED BY <2>0, <3>5, <3>6, <3>7
    <2>3. CASE ~Took(r) /\ ~ (Computed(r) /\ ~IsLast(r))
        <3>1. chan' = chan
            BY <2>3 DEF Moves, Began, Entered, Prepared, Unprepared, Reduced, Computed,
                        Delivered, Posted, GaveUp, Closed
        <3> QED BY <2>0, <3>1
    <2> QED BY <2>1, <2>2, <2>3
<1> HIDE DEF me, new
<1>10. ASSUME NEW x \in Ranks PROVE Held(rank'[x], chan'[x], IsFirst(x), IsLast(x), sent)
    <2>1. CASE x = r  BY <1>6, <1>7, <1>8, <1>9, <2>1 DEF Held, new
    <2>2. CASE x # r  BY <1>1, <1>2, <1>9, <2>2 DEF Held
    <2> QED BY <2>1, <2>2
<1> QED BY <1>10

\* A step of a rank keeps what goes from stage to stage in order.
LEMMA RankEdges ==
    ASSUME ForwardInv, ForwardInv', Collective, Flow, NEW r \in Ranks, Turn(r), Moves(r),
           ~Skewed', NEW s \in Ranks, ~IsLast(s)
    PROVE  Edge(rank'[s], rank'[s + cfg.tp], chan'[s + cfg.tp], cfg.eager)
<1> DEFINE n == s + cfg.tp
           me == rank[s]
           you == rank[n]
           line == chan[n]
<1>1. n \in Ranks /\ n # s /\ ~IsFirst(n)  BY NextStage, StageAfter DEF ForwardInv, Route
<1>2. Edge(me, you, line, cfg.eager)  BY DEF Flow
<1>3. me.at \in Nat /\ you.at \in Nat /\ Len(line) \in Nat  BY <1>1, Lines
<1>4. \A x \in Ranks \ {r} : rank'[x] = rank[x]  BY DEF Turn
<1>5. DOMAIN chan = Ranks  BY DEF ForwardInv, Sending
<1>6. CASE Took(r) /\ n = r
    <2> DEFINE new == rank'[n]
    <2>1. /\ you.pc = "recv" /\ new.pc = "model" /\ new.at = you.at /\ line # <<>>
          /\ new.data = Head(line) /\ chan' = [chan EXCEPT ![n] = Tail(@)]
        BY <1>6 DEF Took, Goes
    <2>2. Len(line) = 1 /\ Head(line) = line[1] /\ Tail(line) = <<>>  BY <1>1, <2>1, Lines
    <2>3. chan'[n] = <<>>  BY <1>1, <1>5, <2>1, <2>2
    <2>4. rank'[s] = me  BY <1>1, <1>4, <1>6
    <2>5. Gave(me) => new.data = me.data
        <3>1. Gave(me) => me.pc \notin {"enter", "ready"}  BY DEF Gave
        <3> QED BY <1>2, <2>1, <2>2, <3>1 DEF Edge
    <2>6. ASSUME cfg.eager PROVE Taken(new) + 0 <= Given(me)
        <3>1. Taken(you) + 1 <= Given(me)  BY <1>2, <2>2, <2>6 DEF Edge
        <3>2. Taken(you) = you.at - 1 /\ Taken(new) = you.at  BY <2>1 DEF Taken
        <3>3. (you.at - 1) + 1 = you.at /\ you.at + 0 = you.at  BY <1>3
        <3> QED BY <3>1, <3>2, <3>3
    <2>7. Len(<<>>) = 0  OBVIOUS
    <2> HIDE DEF new, me
    <2>8. Edge(me, new, <<>>, cfg.eager)  BY <2>5, <2>6, <2>7 DEF Edge
    <2> QED BY <2>3, <2>4, <2>8 DEF new
<1>7. CASE Computed(r) /\ s = r
    <2> DEFINE new == rank'[s]
               d == new.data
    <2>1. /\ me.pc = "reduce" /\ new.pc = (IF cfg.eager THEN "close" ELSE "sent")
          /\ new.at = me.at /\ new.ok = me.ok /\ chan' = [chan EXCEPT ![n] = Append(@, d)]
        BY <1>7 DEF Computed, SameOk
    <2>2. line = <<>>  BY <2>1 DEF ForwardInv, Sending, Before
    <2>3. me.ok /\ me.at > 0
        <3>1. me.ok  BY <2>1 DEF Flow, Held
        <3>2. me.at >= 1  BY <2>1 DEF ForwardInv, Workers
        <3> QED BY <1>3, <3>1, <3>2
    <2>4. rank'[n] = you  BY <1>1, <1>4, <1>7
    <2> HIDE DEF d
    <2>5. chan'[n] = <<d>>  BY <1>1, <1>5, <2>1, <2>2
    <2>6. Gave(new)  BY <2>1, <2>3 DEF Gave
    <2>7. Len(<<d>>) = 1 /\ <<d>> # <<>> /\ <<d>>[1] = d  OBVIOUS
    <2>8. ASSUME cfg.eager PROVE Taken(you) + 1 <= Given(new)
        <3>1. Taken(you) + Len(line) <= Given(me)  BY <1>2, <2>8 DEF Edge
        <3>2. Len(line) = 0  BY <2>2
        <3>3. Given(me) = me.at - 1 /\ Given(new) = me.at  BY <2>1, <2>8 DEF Given
        <3>4. Taken(you) \in Int  BY <1>3 DEF Taken
        <3> QED BY <1>3, <3>1, <3>2, <3>3, <3>4
    <2>9. ~cfg.eager => new.pc = "sent"  BY <2>1
    <2>10. new.data = d  BY DEF d
    <2> HIDE DEF new, you
    <2>11. Edge(new, you, <<d>>, cfg.eager)  BY <2>6, <2>7, <2>8, <2>9, <2>10 DEF Edge
    <2> QED BY <2>4, <2>5, <2>11 DEF new
<1>8. CASE ~ (Took(r) /\ n = r) /\ ~ (Computed(r) /\ s = r)
    <2>1. chan'[n] = line
        <3>1. CASE Took(r)
            <4>1. chan' = [chan EXCEPT ![r] = Tail(@)] /\ n # r  BY <1>8, <3>1 DEF Took
            <4> QED BY <1>1, <1>5, <4>1
        <3>2. CASE Computed(r) /\ ~IsLast(r)
            <4>1. chan' = [chan EXCEPT ![r + cfg.tp] = Append(@, rank'[r].data)] /\ s # r
                BY <1>8, <3>2 DEF Computed
            <4>2. n # r + cfg.tp
                <5>1. cfg.tp \in Nat /\ s \in Nat /\ r \in Nat
                    BY Grid DEF ForwardInv, Route
                <5> QED BY <4>1, <5>1
            <4> QED BY <1>1, <1>5, <4>1, <4>2
        <3>3. CASE ~Took(r) /\ ~ (Computed(r) /\ ~IsLast(r))
            <4>1. chan' = chan
                BY <3>3 DEF Moves, Began, Entered, Prepared, Unprepared, Reduced, Computed,
                            Delivered, Posted, GaveUp, Closed
            <4> QED BY <4>1
        <3> QED BY <3>1, <3>2, <3>3
    <2>2. CASE s = r
        <3> DEFINE new == rank'[s]
        <3>1. rank'[n] = you  BY <1>1, <1>4, <2>2
        <3>2. /\ line # <<>> => \/ new.pc \in {"enter", "ready"}
                                \/ Gave(new) /\ new.data = me.data /\ Gave(me)
              /\ Gave(new) => Gave(me) /\ new.at = me.at /\ new.data = me.data
              /\ Given(me) <= Given(new) /\ Given(new) \in Int
              /\ me.pc = "sent" => new.pc = "sent" \/ line = <<>>
            BY <1>8, <2>2, GaveOn
        <3> HIDE DEF new, me, you, line
        <3>3. Edge(new, you, line, cfg.eager)  BY <1>2, <1>3, <3>2, SenderGoes
        <3> QED BY <2>1, <3>1, <3>3 DEF new
    <2>3. CASE n = r
        <3> DEFINE new == rank'[n]
        <3>1. rank'[s] = me  BY <1>1, <1>4, <2>3
        <3>2. /\ Passed(new) => Passed(you) /\ new.at = you.at /\ new.data = you.data
              /\ ~Unprepared(r) => Taken(new) = Taken(you)
            BY <1>1, <1>8, <2>3, PassedOn
        <3>3. Unprepared(r) => ~cfg.eager  BY <1>1, <2>3, Straight
        <3>4. Taken(you) \in Int  BY <1>3 DEF Taken
        <3>5. cfg.eager => Taken(new) <= Taken(you) /\ Taken(new) \in Int
            BY <3>2, <3>3, <3>4
        <3> HIDE DEF new, me, you, line
        <3>6. Edge(me, new, line, cfg.eager)  BY <1>2, <1>3, <3>2, <3>5, ReceiverGoes
        <3> QED BY <2>1, <3>1, <3>6 DEF new
    <2>4. CASE s # r /\ n # r
        <3>1. rank'[s] = me /\ rank'[n] = you  BY <1>1, <1>4, <2>4
        <3> QED BY <1>2, <2>1, <3>1
    <2> QED BY <2>2, <2>3, <2>4
<1> QED BY <1>6, <1>7, <1>8

\* Both together.
LEMMA RankFlow ==
    ASSUME ForwardInv, ForwardInv', Collective, Flow, NEW r \in Ranks, Turn(r), Moves(r),
           ~Skewed'
    PROVE  Flow'
<1>1. /\ Ranks' = Ranks /\ cfg' = cfg /\ sent' = sent
      /\ \A x : IsFirst(x)' = IsFirst(x) /\ IsLast(x)' = IsLast(x)
    BY SameGrid DEF Turn, IsFirst
<1>2. \A x \in Ranks : Held(rank'[x], chan'[x], IsFirst(x), IsLast(x), sent)  BY RankHeld
<1>3. \A s \in Ranks : ~IsLast(s) =>
          Edge(rank'[s], rank'[s + cfg.tp], chan'[s + cfg.tp], cfg.eager)
    BY RankEdges
<1> QED BY <1>1, <1>2, <1>3 DEF Flow

\* When every rank has answered without an exception, each has computed with the hidden
\* states of the call that was sent last: stage after stage, whatever happened before.
LEMMA AllSame ==
    ASSUME ForwardInv, Flow, AllWell, Len(sent) >= 1
    PROVE  \A r \in Ranks : rank[r].data = Whole(sent[Len(sent)])
<1> DEFINE a == sent[Len(sent)]
           Wrong == {r \in Ranks : rank[r].data # Whole(a)}
<1>1. cfg \in Configs /\ Len(sent) \in Nat  BY DEF ForwardInv, Route
<1>2. \A r \in Ranks : rank[r].pc = "idle" /\ rank[r].at = Len(sent) /\ rank[r].ok
    BY DEF AllWell, Answered
<1>3. \A r \in Ranks : Passed(rank[r]) /\ Gave(rank[r])  BY <1>1, <1>2 DEF Passed, Gave
<1>4. ASSUME NEW s \in Ranks, ~IsLast(s) PROVE rank[s + cfg.tp].data = rank[s].data
    <2> DEFINE n == s + cfg.tp
    <2>1. n \in Ranks  BY <1>1, <1>4, NextStage
    <2>2. Edge(rank[s], rank[n], chan[n], cfg.eager)  BY <1>4 DEF Flow
    <2> HIDE DEF n
    <2>3. chan[n] = <<>>
        <3> SUFFICES ASSUME chan[n] # <<>> PROVE FALSE  OBVIOUS
        <3>1. Len(chan[n]) = 1  BY <2>1, Lines
        <3>2. CASE cfg.eager
            <4>1. Taken(rank[n]) + 1 <= Given(rank[s])  BY <2>2, <3>1, <3>2 DEF Edge
            <4>2. Taken(rank[n]) = Len(sent) /\ Given(rank[s]) = Len(sent)
                BY <1>2, <2>1 DEF Taken, Given
            <4> QED BY <1>1, <4>1, <4>2
        <3>3. CASE ~cfg.eager
            <4>1. rank[s].pc = "sent"  BY <2>2, <3>3 DEF Edge
            <4> QED BY <1>2, <4>1
        <3> QED BY <3>2, <3>3
    <2>4. rank[s].at = rank[n].at  BY <1>2, <2>1
    <2>5. rank[n].data = rank[s].data  BY <1>3, <2>1, <2>2, <2>3, <2>4 DEF Edge
    <2> QED BY <2>5 DEF n
<1>5. Wrong = {}
    <2> SUFFICES ASSUME Wrong # {} PROVE FALSE  OBVIOUS
    <2>1. Wrong \in SUBSET Nat
        <3>1. \A r \in Ranks : r \in Nat  BY <1>1, Grid
        <3> QED BY <3>1
    <2> HIDE DEF Wrong
    <2>2. PICK r \in Wrong : \A q \in Wrong : r <= q  BY <2>1, LeastElement
    <2>3. r \in Ranks /\ rank[r].data # Whole(a)  BY <2>2 DEF Wrong
    <2>4. CASE IsFirst(r)  BY <1>2, <1>3, <2>3, <2>4 DEF Flow, Held
    <2>5. CASE ~IsFirst(r)
        <3>1. PICK s \in Ranks : r = s + cfg.tp /\ ~IsLast(s)
            BY <1>1, <2>3, <2>5, StageAfter
        <3>2. rank[s].data # Whole(a)  BY <1>4, <2>3, <3>1
        <3>3. s \in Wrong  BY <3>2 DEF Wrong
        <3>4. s \in Nat /\ cfg.tp \in Nat \ {0}  BY <1>1, Grid
        <3>5. ~ (r <= s)  BY <3>1, <3>4
        <3> QED BY <2>2, <3>3, <3>5
    <2> QED BY <2>4, <2>5
<1> QED BY <1>5

\* The next chunk leaves the artifacts so far upright, and the verdict clears who is honest.
LEMMA ContinueClears ==
    ASSUME Route, HonestCleared, NEW new, new.q \in cfg.requests, Tally(new), Continue(new),
           UNCHANGED <<cfg, broken>>,
           ~Skewed => \A i \in 1..Len(new.arts) :
                          new.arts[i].vec = Right(new.q, new.arts[i].nonce)
    PROVE  HonestCleared' /\ (~Skewed => Upright') /\ (Skewed' <=> Skewed)
<1> DEFINE q == new.q
<1>1. Skewed' <=> Skewed
    <2>1. \A f : Stage(f)' = Stage(f)  BY SameGrid
    <2> QED BY <2>1 DEF Skewed, Stage
<1>2. CASE new.pos < Len(q.nonces)
    <2>1. req' = new /\ verdict' = verdict  BY <1>2 DEF Continue
    <2>2. HonestCleared'  BY <1>1, <2>1 DEF HonestCleared, Honest
    <2>3. ~Skewed => Upright'  BY <2>1 DEF Upright, Right
    <2> QED BY <1>1, <2>2, <2>3
<1>3. CASE ~ (new.pos < Len(q.nonces)) /\ Undecodable(new.arts, q.validation)
    <2>1. req' = NoRequest /\ verdict'.kind = "error"  BY <1>3 DEF Continue, Judged
    <2>2. HonestCleared' /\ Upright'  BY <2>1 DEF HonestCleared, Upright, NoRequest
    <2> QED BY <1>1, <2>2
<1>4. CASE ~ (new.pos < Len(q.nonces)) /\ ~Undecodable(new.arts, q.validation)
    <2> DEFINE mis == Mismatches(new.arts, q.validation)
               fraud == Fraud(Len(mis), Len(q.nonces), Tolerated)
    <2>1. /\ req' = NoRequest
          /\ verdict' = [kind |-> "done", q |-> q, seen |-> new.seen, mismatch |-> mis,
                         fraud |-> fraud]
        BY <1>4 DEF Continue, Judged
    <2>2. ASSUME ~Skewed, Honest(q) PROVE mis = <<>> /\ ~fraud
        <3>1. IsSeq(new.arts)  BY DEF Tally
        <3>2. ASSUME NEW j \in 1..Len(new.arts)
              PROVE  ~Differs(new.arts[j], q.validation[new.arts[j].nonce])
            <4>1. new.arts[j].vec = Right(q, new.arts[j].nonce)  BY <2>2
            <4>2. new.arts[j].nonce \in Range(q.nonces)  BY DEF Tally
            <4>3. q.validation[new.arts[j].nonce] =
                      [kind |-> "vector", vec |-> Right(q, new.arts[j].nonce)]
                BY <2>2, <4>2 DEF Honest
            <4> QED BY <4>1, <4>3 DEF Differs
        <3>3. mis = <<>>  BY <3>1, <3>2, MismatchesAre
        <3> HIDE DEF mis
        <3>4. Len(mis) = 0  BY <3>3
        <3>5. ~ (Len(mis) > Tolerated)  BY <3>4, NumbersAssumption
        <3>6. ~fraud  BY <3>5 DEF Fraud
        <3> QED BY <3>3, <3>6
    <2> HIDE DEF mis, fraud
    <2>3. /\ verdict'.q = q /\ verdict'.mismatch = mis /\ verdict'.fraud = fraud
        BY <2>1
    <2>4. Honest(verdict'.q) => (mis = <<>> /\ ~fraud) \/ Skewed'  BY <1>1, <2>2, <2>3
    <2>5. HonestCleared'  BY <2>3, <2>4 DEF HonestCleared, Honest, Right
    <2>6. Upright'  BY <2>1 DEF Upright, NoRequest
    <2> QED BY <1>1, <2>5, <2>6
<1> QED BY <1>2, <1>3, <1>4

\* The ranks do not notice that the route sends a call or gives up.
LEMMA SentFlow ==
    ASSUME ForwardInv, UNCHANGED <<cfg, rank, joined, chan, broken>>,
           sent' = sent \/ \E call : sent' = Append(sent, call),
           Hooks, Collective, Flow
    PROVE  Hooks' /\ Collective' /\ Flow'
<1>1. /\ Ranks' = Ranks /\ \A x : Peers(x)' = Peers(x)
      /\ \A x : IsFirst(x)' = IsFirst(x) /\ IsLast(x)' = IsLast(x)
    BY SameGrid DEF IsFirst
<1>2. \A i \in 1..Len(sent) : sent'[i] = sent[i]  BY SentGrows DEF ForwardInv
<1>3. Hooks'  BY <1>1 DEF Hooks, HookOf
<1>4. Collective'  BY <1>1 DEF Collective, Reflects
<1>5. ASSUME NEW r \in Ranks, IsFirst(r), Passed(rank[r])
      PROVE  rank[r].data = Whole(sent'[rank[r].at])
    <2>1. rank[r].data = Whole(sent[rank[r].at])  BY <1>5 DEF Flow, Held
    <2>2. rank[r].at \in 0..Len(sent) /\ (rank[r].pc # "idle" => rank[r].at >= 1)
        BY DEF ForwardInv, Workers
    <2>3. Len(sent) \in Nat  BY DEF ForwardInv, Route
    <2>4. rank[r].at > 0  BY <1>5, <2>2, <2>3 DEF Passed
    <2>5. rank[r].at \in 1..Len(sent)  BY <2>2, <2>3, <2>4
    <2> QED BY <1>2, <2>1, <2>5
<1>6. \A r \in Ranks : Held(rank[r], chan[r], IsFirst(r), IsLast(r), sent')
    BY <1>5 DEF Flow, Held
<1>7. Flow'  BY <1>1, <1>6 DEF Flow
<1> QED BY <1>3, <1>4, <1>7

\* Every step keeps honest requests clear.
LEMMA NextClears ==
    ASSUME ForwardInv, ForwardInv', ChargeInv, StraightInv, [Next]_vars
    PROVE  StraightInv'
<1>1. /\ Answers /\ Asked /\ (req # NoRequest => Tally(req))
      /\ ~Skewed => Hooks /\ Collective /\ Flow /\ Upright
      /\ HonestCleared
    BY DEF ChargeInv, StraightInv
<1>2. Route /\ cfg \in Configs  BY DEF ForwardInv, Route
<1>3. CASE Begins
    <2>1. PICK q \in cfg.requests, free \in cfg.frees :
              Continue([q |-> q, pos |-> 0, arts |-> <<>>, seen |-> {},
                        lease |-> IF Lends THEN Borrow(q.batch, q.len, AllGroups, free)
                                  ELSE <<>>])
        BY <1>3 DEF Begins
    <2> DEFINE lease == IF Lends THEN Borrow(q.batch, q.len, AllGroups, free) ELSE <<>>
               new == [q |-> q, pos |-> 0, arts |-> <<>>, seen |-> {}, lease |-> lease]
    <2>2. Continue(new)  BY <2>1
    <2> HIDE DEF lease
    <2>3. new.q \in cfg.requests /\ Tally(new) /\ new.arts = <<>>  BY <1>2, NothingYet
    <2> HIDE DEF new
    <2>4. \A i \in 1..Len(new.arts) : new.arts[i].vec = Right(new.q, new.arts[i].nonce)
        <3>1. Len(<<>>) = 0 /\ 1..0 = {}  OBVIOUS
        <3> QED BY <2>3, <3>1
    <2>5. UNCHANGED <<cfg, rank, joined, chan, broken>>  BY <1>3 DEF Begins
    <2>6. HonestCleared' /\ (~Skewed => Upright') /\ (Skewed' <=> Skewed)
        BY <1>1, <1>2, <2>2, <2>3, <2>4, <2>5, ContinueClears
    <2>7. ~Skewed => Hooks' /\ Collective' /\ Flow'
        BY <1>1, <2>2, <2>5, ContinueSends, SentFlow
    <2> QED BY <2>6, <2>7 DEF StraightInv
<1>4. CASE ChunkAnswered
    <2>1. /\ Continue(Counted) /\ req # NoRequest /\ AllWell
          /\ UNCHANGED <<cfg, rank, joined, chan, broken>>
        BY <1>4 DEF ChunkAnswered, Counted
    <2>2. /\ Counted.q = req.q /\ Tally(Counted)
          /\ \A i \in 1..Len(Counted.arts) :
                \/ \E j \in 1..Len(req.arts) : Counted.arts[i] = req.arts[j]
                \/ \E r \in Ranks : \E k \in 1..Len(rank[r].arts) :
                      Counted.arts[i] = rank[r].arts[k]
        BY <1>1, <2>1, ChunkTally
    <2>3. Counted.q \in cfg.requests  BY <2>1, <2>2 DEF ForwardInv, Route
    <2>4. ASSUME ~Skewed, NEW i \in 1..Len(Counted.arts)
          PROVE  Counted.arts[i].vec = Right(Counted.q, Counted.arts[i].nonce)
        <3> DEFINE x == Counted.arts[i]
                   a == sent[Len(sent)]
        <3>1. CASE \E j \in 1..Len(req.arts) : x = req.arts[j]
            BY <1>1, <2>1, <2>2, <2>4, <3>1 DEF Upright
        <3>2. CASE \E r \in Ranks : \E k \in 1..Len(rank[r].arts) : x = rank[r].arts[k]
            <4>1. PICK r \in Ranks : \E k \in 1..Len(rank[r].arts) : x = rank[r].arts[k]
                BY <3>2
            <4>2. rank[r].at = Len(sent)  BY <2>1 DEF AllWell, Answered
            <4>3. Made(x, a.nonces, rank[r].data.nonces, Origin(rank[r], a))
                BY <1>1, <4>1, <4>2 DEF Answers
            <4>4. a.hash = req.q.hash /\ Len(sent) >= 1  BY <1>1, <2>1 DEF Asked
            <4>5. rank[r].data = Whole(a)  BY <1>1, <2>1, <2>4, <4>4, AllSame
            <4> HIDE DEF x, a
            <4>6. x.vec = Right(a, x.nonce)  BY <4>3, <4>5, MadeFor
            <4>7. Right(a, x.nonce) = Right(req.q, x.nonce)  BY <4>4 DEF Right
            <4>8. x.vec = Right(Counted.q, x.nonce)  BY <2>2, <4>6, <4>7
            <4> QED BY <4>8 DEF x
        <3> QED BY <2>2, <3>1, <3>2
    <2>5. HonestCleared' /\ (~Skewed => Upright') /\ (Skewed' <=> Skewed)
        BY <1>1, <1>2, <2>1, <2>2, <2>3, <2>4, ContinueClears
    <2>6. ~Skewed => Hooks' /\ Collective' /\ Flow'
        BY <1>1, <2>1, ContinueSends, SentFlow
    <2> QED BY <2>5, <2>6 DEF StraightInv
<1>5. CASE ChunkFails \/ UNCHANGED vars
    <2>1. UNCHANGED <<cfg, sent, rank, joined, chan, broken>>
        BY <1>5 DEF ChunkFails, vars
    <2>2. Skewed' <=> Skewed
        <3>1. \A f : Stage(f)' = Stage(f)  BY <2>1, SameGrid
        <3> QED BY <2>1, <3>1 DEF Skewed, Stage
    <2>3. ~Skewed => Hooks' /\ Collective' /\ Flow'  BY <1>1, <2>1, SentFlow
    <2>4. CASE ChunkFails
        <3>1. req' = NoRequest /\ verdict'.kind = "error"  BY <2>4 DEF ChunkFails
        <3>2. Upright' /\ HonestCleared'  BY <3>1 DEF Upright, HonestCleared, NoRequest
        <3> QED BY <2>2, <2>3, <3>2 DEF StraightInv
    <2>5. CASE UNCHANGED vars
        <3>1. req' = req /\ verdict' = verdict  BY <2>5 DEF vars
        <3>2. ~Skewed => Upright'  BY <1>1, <3>1 DEF Upright, NoRequest, Right
        <3>3. HonestCleared'  BY <1>1, <2>2, <3>1 DEF HonestCleared, Honest, Right
        <3> QED BY <2>2, <2>3, <3>2, <3>3 DEF StraightInv
    <2> QED BY <1>5, <2>4, <2>5
<1>6. CASE \E r \in Ranks : Runs(r) \/ Raises(r)
    <2> PICK r \in Ranks : Runs(r) \/ Raises(r)  BY <1>6
    <2>1. Turn(r) /\ Moves(r)  BY RankMoves
    <2>2. ASSUME ~Skewed' PROVE Hooks' /\ Collective' /\ Flow' /\ Upright'
        <3>1. ~Skewed  BY <2>1, <2>2, Straight
        <3>2. Hooks /\ Collective /\ Flow /\ Upright  BY <1>1, <3>1
        <3>3. Hooks' /\ Collective' /\ Flow'
            BY <2>1, <2>2, <3>2, RankHooks, RankCollective, RankFlow
        <3>4. req' = req  BY <2>1 DEF Turn
        <3>5. Upright'  BY <3>2, <3>4 DEF Upright, NoRequest, Right
        <3> QED BY <3>3, <3>5
    <2>3. HonestCleared'
        <3>1. ~Skewed' => ~Skewed  BY <2>1, Straight
        <3>2. verdict' = verdict  BY <2>1 DEF Turn
        <3> QED BY <1>1, <3>1, <3>2 DEF HonestCleared, Honest, Right
    <2> QED BY <2>2, <2>3 DEF StraightInv
<1> QED BY <1>3, <1>4, <1>5, <1>6 DEF Next

\* At first no rank has hooks, data or anything to judge.
LEMMA InitClears ==
    ASSUME Init
    PROVE  StraightInv
<1>1. /\ cfg \in Configs /\ req = NoRequest /\ verdict = [kind |-> "none"]
      /\ \A r \in Ranks :
            /\ rank[r].pc = "idle" /\ rank[r].at = 0 /\ rank[r].regs = {}
            /\ rank[r].obj = [hash |-> NoHash, call |-> 0] /\ rank[r].data = NoData
            /\ rank[r].ok = TRUE
            /\ joined[r] = [cpu |-> 0, gpu |-> 0] /\ chan[r] = <<>>
    BY DEF Init
<1>2. Hooks
    <2> SUFFICES ASSUME NEW r \in Ranks
                 PROVE  /\ rank[r].regs = HookOf(rank[r].obj)
                        /\ rank[r].pc \in {"recv", "model", "reduce"} =>
                               rank[r].obj.hash = rank[r].args.hash
        BY DEF Hooks
    <2>1. rank[r].obj.hash = NoHash /\ rank[r].regs = {} /\ rank[r].pc = "idle"  BY <1>1
    <2>2. HookOf(rank[r].obj) = {}  BY <2>1 DEF HookOf
    <2> QED BY <2>1, <2>2
<1>3. Collective
    <2>1. \A r \in Ranks : joined[r].gpu = 0  BY <1>1
    <2>2. \A r \in Ranks : \A q \in Peers(r) : q \in Ranks  BY DEF Peers
    <2>3. ~ (0 > 0)  OBVIOUS
    <2> QED BY <1>1, <2>1, <2>2, <2>3 DEF Collective
<1>4. Flow
    <2>1. NoData \in Datas
        <3>1. <<>> \in Seq(Nonces) /\ 0 \in Nat  OBVIOUS
        <3> QED BY <3>1 DEF NoData, Datas
    <2>2. ASSUME NEW r \in Ranks
          PROVE  ~Passed(rank[r]) /\ ~Gave(rank[r]) /\ Taken(rank[r]) = 0 /\ Given(rank[r]) = 0
        <3>1. ~ (0 > 0)  OBVIOUS
        <3> QED BY <1>1, <3>1 DEF Passed, Gave, Taken, Given
    <2>3. ASSUME NEW s \in Ranks, ~IsLast(s)
          PROVE  Edge(rank[s], rank[s + cfg.tp], chan[s + cfg.tp], cfg.eager)
        <3>1. s + cfg.tp \in Ranks  BY <1>1, <2>3, NextStage
        <3>2. 0 + Len(<<>>) <= 0  OBVIOUS
        <3> QED BY <1>1, <2>2, <3>1, <3>2 DEF Edge
    <2>4. ASSUME NEW r \in Ranks
          PROVE  Held(rank[r], chan[r], IsFirst(r), IsLast(r), sent)
        BY <1>1, <2>1, <2>2, <2>4 DEF Held
    <2> QED BY <2>3, <2>4 DEF Flow
<1>5. Upright /\ HonestCleared  BY <1>1 DEF Upright, HonestCleared
<1> QED BY <1>2, <1>3, <1>4, <1>5 DEF StraightInv

\* An honest request that ends with a verdict is cleared: for any number of ranks, stages,
\* chunks and earlier requests, whatever raised, was lost or timed out, unless a hook
\* constructor failed, or a rank raised that should have received from a stage whose sends
\* return at once.
THEOREM HonestAreCleared == Spec => []HonestCleared
<1>1. Init => StraightInv  BY InitClears
<1>2. Init => ChargeInv  BY InitCharges
<1>3. ForwardInv /\ ChargeInv /\ [Next]_vars => ChargeInv'  BY NextCharges
<1>4. ForwardInv /\ ForwardInv' /\ ChargeInv /\ StraightInv /\ [Next]_vars => StraightInv'
    BY NextClears
<1>5. StraightInv => HonestCleared  BY DEF StraightInv
<1> QED BY <1>1, <1>2, <1>3, <1>4, <1>5, Invariance, PTL DEF Spec

----------------------------------------------------------------------------
(* Nobody waits in a circle.                                               *)

\* Numbers of hidden states.
Rows(a) == Len(a.nonces) * a.len

\* The first stage does not receive, the last one does not send.
Ends ==
    \A r \in Ranks : (IsFirst(r) => rank[r].pc # "recv") /\ (IsLast(r) => rank[r].pc # "sent")

\* A rank has entered a collective of the model in each call up to this one.
Level ==
    cfg.tp > 1 =>
        \A r \in Ranks :
            joined[r].gpu + If(Before(r, {"enter", "ready", "recv", "model"}), 1) = rank[r].at

\* What a rank has sent is what its successor has taken and what is on its way, which has
\* the shape of the call that it was sent in.
Carry(me, you, line, log) ==
    /\ Taken(you) + Len(line) = Given(me)
    /\ line # <<>> => Rows(line[1]) = Rows(log[Given(me)])
Carried ==
    \A s \in Ranks : ~IsLast(s) => Carry(rank[s], rank[s + cfg.tp], chan[s + cfg.tp], sent)

\* A model gets hidden states of the shape of its call.
Shaped(me, log) == me.pc \in {"model", "reduce"} => Rows(me.data) = Rows(log[me.at])
Shapes == \A r \in Ranks : Shaped(rank[r], sent)

\* Unless a rank of several has raised before or in its model, ranks are in step.
StepInv == Ends /\ (~OutOfStep => Level /\ Carried /\ Shapes)

\* There are several ranks where one has a peer or a successor.
LEMMA SeveralRanks ==
    ASSUME cfg \in Configs, cfg.tp > 1 \/ \E s \in Ranks : ~IsLast(s)
    PROVE  Cardinality(Ranks) > 1
<1> DEFINE tp == cfg.tp
           pp == cfg.pp
           k == tp * pp
<1>1. tp \in Nat \ {0} /\ pp \in Nat \ {0} /\ k \in Nat /\ Ranks = 1..k
    <2>1. tp \in Nat \ {0} /\ pp \in Nat \ {0}  BY ConfigAssumption
    <2>2. k \in Nat  BY <2>1
    <2> QED BY <2>1, <2>2 DEF Ranks
<1>2. k > 1
    <2>1. CASE tp > 1
        <3>1. 1 * tp <= pp * tp
            <4>1. 1 <= pp /\ pp \in Nat /\ tp \in Nat /\ 1 \in Nat  BY <1>1
            <4> HIDE DEF tp, pp
            <4> QED BY <4>1, Monotone
        <3>2. pp * tp = k /\ 1 * tp = tp  BY <1>1
        <3> QED BY <1>1, <2>1, <3>1, <3>2
    <2>2. CASE \E s \in Ranks : ~IsLast(s)
        <3>1. PICK s \in Ranks : ~IsLast(s)  BY <2>2
        <3>2. s + tp \in Ranks  BY <3>1, NextStage
        <3> HIDE DEF k, tp
        <3> QED BY <1>1, <3>2
    <2> QED BY <2>1, <2>2
<1> HIDE DEF k
<1>3. Cardinality(1..k) = k  BY <1>1, FS_Interval
<1> QED BY <1>1, <1>2, <1>3

\* Where ranks are in step after a step they were before, and nobody raised in it before
\* its collectives.
LEMMA Undisturbed ==
    ASSUME ForwardInv, StepInv, NEW r \in Ranks, Turn(r), Moves(r), ~OutOfStep'
    PROVE  /\ ~OutOfStep
           /\ Cardinality(Ranks) > 1 => ~Unprepared(r) /\ (GaveUp(r) => rank[r].pc = "post")
<1>1. cfg' = cfg /\ broken \subseteq broken' /\ Ranks' = Ranks  BY SameGrid DEF Turn
<1>2. ~OutOfStep
    <2> SUFFICES ASSUME OutOfStep PROVE FALSE  OBVIOUS
    <2>1. Cardinality(Ranks') > 1  BY <1>1 DEF OutOfStep
    <2>2. \E f \in broken' : f.kind \in {"hooks", "prepare", "model"}
        BY <1>1 DEF OutOfStep
    <2> QED BY <2>1, <2>2 DEF OutOfStep
<1>3. ASSUME Cardinality(Ranks) > 1, NEW kind \in {"hooks", "prepare", "model"},
             Breaks(r, kind)
      PROVE  FALSE
    <2>1. [kind |-> kind, rank |-> r, call |-> rank[r].at] \in broken'  BY <1>3 DEF Breaks
    <2>2. \E f \in broken' : f.kind \in {"hooks", "prepare", "model"}  BY <2>1
    <2>3. Cardinality(Ranks') > 1  BY <1>1, <1>3
    <2> QED BY <2>2, <2>3 DEF OutOfStep
<1>4. ASSUME Cardinality(Ranks) > 1, Unprepared(r) PROVE FALSE
    <2>1. rank[r].pc = "ready"  BY <1>4 DEF Unprepared, Ready
    <2>2. Fitting(rank[r].args, Groups(r))  BY <2>1, Passes DEF LeasePasses
    <2>3. Breaks(r, "hooks") \/ Breaks(r, "prepare")  BY <1>4, <2>2 DEF Unprepared
    <2> QED BY <1>3, <1>4, <2>3
<1>5. ASSUME Cardinality(Ranks) > 1, GaveUp(r), rank[r].pc # "post" PROVE FALSE
    <2>1. rank[r].pc = "model"  BY <1>5 DEF GaveUp
    <2>2. Rows(rank[r].data) = Rows(sent[rank[r].at])
        BY <1>2, <2>1 DEF StepInv, Shapes, Shaped
    <2>3. rank[r].args = sent[rank[r].at]  BY <2>1, CallOf
    <2>4. SameShape(rank[r])  BY <2>2, <2>3 DEF SameShape, Rows
    <2>5. Breaks(r, "model")  BY <1>5, <2>1, <2>4 DEF GaveUp
    <2> QED BY <1>3, <1>5, <2>5
<1> QED BY <1>2, <1>4, <1>5

\* A step of a rank leaves the first and the last stage what they are.
LEMMA RankEnds ==
    ASSUME Ends, NEW r \in Ranks, Turn(r), Moves(r)
    PROVE  Ends'
<1>1. /\ Ranks' = Ranks
      /\ \A x : IsFirst(x)' = IsFirst(x) /\ IsLast(x)' = IsLast(x)
    BY SameGrid DEF Turn, IsFirst
<1>2. (IsFirst(r) => rank'[r].pc # "recv") /\ (IsLast(r) => rank'[r].pc # "sent")
    BY DEF Moves, Began, Entered, Prepared, Unprepared, Took, Reduced, Computed, Delivered,
           Posted, GaveUp, Closed, Goes
<1>3. \A x \in Ranks \ {r} : rank'[x] = rank[x]  BY DEF Turn
<1>4. \A x \in Ranks : (IsFirst(x) => rank'[x].pc # "recv") /\ (IsLast(x) => rank'[x].pc # "sent")
    BY <1>2, <1>3 DEF Ends
<1> QED BY <1>1, <1>4 DEF Ends

\* A step of a rank keeps the collectives level.
LEMMA RankLevel ==
    ASSUME ForwardInv, Level, NEW r \in Ranks, Turn(r), Moves(r), cfg.tp > 1,
           ~Unprepared(r), GaveUp(r) => rank[r].pc = "post"
    PROVE  Level'
<1> DEFINE first == {"enter", "ready", "recv", "model"}
<1>1. Ranks' = Ranks /\ cfg' = cfg  BY SameGrid DEF Turn
<1>2. \A x \in Ranks : joined[x].gpu \in Nat /\ rank[x].at \in Nat
    <2>1. \A x \in Ranks : joined[x] \in [cpu : Nat, gpu : Nat]  BY DEF ForwardInv, Counts
    <2>2. \A x \in Ranks : rank[x].at \in 0..Len(sent)  BY DEF ForwardInv, Workers
    <2> QED BY <2>1, <2>2
<1>3. \A x \in Ranks : joined[x].gpu + If(rank[x].pc \in first, 1) = rank[x].at
    BY DEF Level, Before
<1>4. \A x \in Ranks \ {r} : rank'[x] = rank[x]  BY DEF Turn
<1>5. ASSUME NEW x \in Ranks
      PROVE  joined'[x].gpu + If(rank'[x].pc \in first, 1) = rank'[x].at
    <2>1. CASE Reduced(r)
        <3>1. joined' = [joined EXCEPT ![r] = [joined[r] EXCEPT !.gpu = joined[r].gpu + 1]]
            BY <2>1 DEF Reduced, Joins
        <3>2. DOMAIN joined = Ranks /\ joined[r] \in [cpu : Nat, gpu : Nat]
            BY DEF ForwardInv, Counts
        <3>3. joined'[r] = [joined[r] EXCEPT !.gpu = joined[r].gpu + 1]  BY <3>1, <3>2
        <3>4. joined'[r].gpu = joined[r].gpu + 1  BY <3>2, <3>3
        <3>5. \A y \in Ranks \ {r} : joined'[y] = joined[y]  BY <3>1, <3>2
        <3>6. rank[r].pc = "model" /\ rank'[r].pc = "reduce" /\ rank'[r].at = rank[r].at
            BY <2>1 DEF Reduced, Goes, SameData
        <3>7. joined[r].gpu + 1 = rank[r].at  BY <1>3, <3>6 DEF If
        <3>8. joined'[r].gpu + 0 = rank'[r].at  BY <1>2, <3>4, <3>6, <3>7
        <3>9. x = r => joined'[x].gpu + If(rank'[x].pc \in first, 1) = rank'[x].at
            BY <3>6, <3>8 DEF If
        <3>10. x # r => joined'[x].gpu + If(rank'[x].pc \in first, 1) = rank'[x].at
            BY <1>3, <1>4, <3>5
        <3> QED BY <3>9, <3>10
    <2>2. CASE ~Reduced(r)
        <3>1. SameGpu
            BY <2>2 DEF Moves, Began, Entered, Prepared, Took, Computed, Delivered, Posted,
                        GaveUp, Closed
        <3>2. joined'[x].gpu = joined[x].gpu  BY <3>1 DEF SameGpu
        <3>3. CASE x # r  BY <1>3, <1>4, <3>2, <3>3
        <3>4. CASE x = r
            <4>1. CASE Began(r)
                <5>1. rank[r].pc \notin first /\ rank'[r].pc \in first
                      /\ rank'[r].at = rank[r].at + 1
                    BY <4>1 DEF Began
                <5>2. joined[r].gpu + 0 = rank[r].at  BY <1>3, <5>1 DEF If
                <5>3. joined'[r].gpu + 1 = rank'[r].at  BY <1>2, <3>2, <3>4, <5>1, <5>2
                <5> QED BY <3>4, <5>1, <5>3 DEF If
            <4>2. CASE ~Began(r)
                <5>1. rank'[r].at = rank[r].at
                    BY <2>2, <4>2 DEF Moves, Entered, Prepared, Took, Computed, Delivered,
                           Posted, GaveUp, Closed, SameData
                <5>2. rank'[r].pc \in first <=> rank[r].pc \in first
                    BY <2>2, <4>2 DEF Moves, Entered, Prepared, Took, Computed, Delivered,
                           Posted, GaveUp, Closed, Goes, Ready
                <5> QED BY <1>3, <3>2, <3>4, <5>1, <5>2
            <4> QED BY <4>1, <4>2
        <3> QED BY <3>3, <3>4
    <2> QED BY <2>1, <2>2
<1> QED BY <1>1, <1>5 DEF Level, Before

\* A step of a rank counts what is sent and taken.
LEMMA RankCarries ==
    ASSUME ForwardInv, Carried, Shapes, NEW r \in Ranks, Turn(r), Moves(r),
           ~Unprepared(r), GaveUp(r) => rank[r].pc = "post",
           NEW s \in Ranks, ~IsLast(s)
    PROVE  Carry(rank'[s], rank'[s + cfg.tp], chan'[s + cfg.tp], sent)
<1> DEFINE n == s + cfg.tp
           me == rank[s]
           you == rank[n]
           line == chan[n]
<1>1. n \in Ranks /\ n # s  BY NextStage DEF ForwardInv, Route
<1>2. Carry(me, you, line, sent)  BY DEF Carried
<1>3. me.at \in Nat /\ you.at \in Nat /\ Len(line) \in Nat  BY <1>1, Lines
<1>4. \A x \in Ranks \ {r} : rank'[x] = rank[x]  BY DEF Turn
<1>5. DOMAIN chan = Ranks  BY DEF ForwardInv, Sending
<1>6. Len(<<>>) = 0  OBVIOUS
<1>7. CASE Took(r) /\ n = r
    <2> DEFINE new == rank'[n]
    <2>1. /\ you.pc = "recv" /\ new.pc = "model" /\ new.at = you.at /\ line # <<>>
          /\ chan' = [chan EXCEPT ![n] = Tail(@)]
        BY <1>7 DEF Took, Goes
    <2>2. Len(line) = 1 /\ Tail(line) = <<>>  BY <1>1, <2>1, Lines
    <2>3. chan'[n] = <<>>  BY <1>1, <1>5, <2>1, <2>2
    <2>4. rank'[s] = me  BY <1>1, <1>4, <1>7
    <2>5. Taken(you) = you.at - 1 /\ Taken(new) = you.at  BY <2>1 DEF Taken
    <2>6. (you.at - 1) + 1 = Given(me)  BY <1>2, <2>2, <2>5 DEF Carry
    <2>7. Taken(new) + 0 = Given(me)  BY <1>3, <2>5, <2>6
    <2> HIDE DEF new, me
    <2> QED BY <1>6, <2>3, <2>4, <2>7 DEF Carry, new
<1>8. CASE Computed(r) /\ s = r
    <2> DEFINE new == rank'[s]
               d == new.data
    <2>1. /\ me.pc = "reduce" /\ new.pc \in {"close", "sent"}
          /\ new.at = me.at /\ chan' = [chan EXCEPT ![n] = Append(@, d)]
        BY <1>8 DEF Computed
    <2>2. line = <<>>  BY <2>1 DEF ForwardInv, Sending, Before
    <2>3. rank'[n] = you  BY <1>1, <1>4, <1>8
    <2>4. Rows(me.data) = Rows(sent[me.at])  BY <2>1 DEF Shapes, Shaped
    <2>5. Rows(d) = Rows(me.data)
        <3>1. \E good : d = [me.data EXCEPT !.good = good]  BY <1>8 DEF Computed
        <3>2. PICK good : d = [me.data EXCEPT !.good = good]  BY <3>1
        <3> HIDE DEF d
        <3>3. d.nonces = me.data.nonces /\ d.len = me.data.len  BY <3>2
        <3> QED BY <3>3 DEF Rows
    <2> HIDE DEF d
    <2>6. chan'[n] = <<d>>  BY <1>1, <1>5, <2>1, <2>2
    <2>7. Len(<<d>>) = 1 /\ <<d>>[1] = d  OBVIOUS
    <2>8. Given(me) = me.at - 1 /\ Given(new) = me.at  BY <2>1 DEF Given
    <2>9. Taken(you) + 0 = me.at - 1  BY <1>2, <1>6, <2>2, <2>8 DEF Carry
    <2>10. Taken(you) \in Int  BY <1>3 DEF Taken
    <2>11. Taken(you) + 1 = Given(new)  BY <1>3, <2>8, <2>9, <2>10
    <2> HIDE DEF new, you
    <2> QED BY <2>3, <2>4, <2>5, <2>6, <2>7, <2>8, <2>11 DEF Carry, new
<1>9. CASE ~ (Took(r) /\ n = r) /\ ~ (Computed(r) /\ s = r)
    <2>1. chan'[n] = line
        <3>1. CASE Took(r)
            <4>1. chan' = [chan EXCEPT ![r] = Tail(@)] /\ n # r  BY <1>9, <3>1 DEF Took
            <4> QED BY <1>1, <1>5, <4>1
        <3>2. CASE Computed(r) /\ ~IsLast(r)
            <4>1. chan' = [chan EXCEPT ![r + cfg.tp] = Append(@, rank'[r].data)] /\ s # r
                BY <1>9, <3>2 DEF Computed
            <4>2. n # r + cfg.tp
                <5>1. cfg.tp \in Nat /\ s \in Nat /\ r \in Nat
                    BY Grid DEF ForwardInv, Route
                <5> QED BY <4>1, <5>1
            <4> QED BY <1>1, <1>5, <4>1, <4>2
        <3>3. CASE ~Took(r) /\ ~ (Computed(r) /\ ~IsLast(r))
            <4>1. chan' = chan
                BY <3>3 DEF Moves, Began, Entered, Prepared, Unprepared, Reduced, Computed,
                            Delivered, Posted, GaveUp, Closed
            <4> QED BY <4>1
        <3> QED BY <3>1, <3>2, <3>3
    <2>2. rank[r].at \in Nat /\ (rank[r].at + 1) - 1 = rank[r].at
        <3>1. rank[r].at \in Nat  BY Lines
        <3> QED BY <3>1
    <2>3. s = r => Given(rank'[s]) = Given(me)
        BY <1>9, <2>2 DEF Moves, Began, Entered, Prepared, Took, Reduced, Delivered, Posted,
                    GaveUp, Closed, Goes, Ready, SameData, Given
    <2>4. ASSUME n = r PROVE Taken(rank'[n]) = Taken(you)
        <3>1. CASE Computed(r)
            <4>1. rank[r].pc = "reduce" /\ rank'[r].pc \in {"post", "close", "sent"}
                  /\ rank'[r].at = rank[r].at
                BY <3>1 DEF Computed
            <4> QED BY <2>4, <4>1 DEF Taken
        <3>2. CASE Prepared(r)
            <4>1. rank[r].pc = "ready" /\ rank'[r].pc = "recv" /\ rank'[r].at = rank[r].at
                <5>1. ~IsFirst(n)  BY StageAfter DEF ForwardInv, Route
                <5> QED BY <2>4, <3>2, <5>1 DEF Prepared, Ready
            <4> QED BY <2>4, <4>1 DEF Taken
        <3>3. CASE ~Computed(r) /\ ~Prepared(r)
            <4>1. ~Took(r)  BY <1>9, <2>4
            <4> QED BY <2>2, <2>4, <3>3, <4>1 DEF Moves, Began, Entered, Reduced,
                       Delivered, Posted, GaveUp, Closed, Goes, Ready, SameData, Taken
        <3> QED BY <3>1, <3>2, <3>3
    <2>5. Given(rank'[s]) = Given(me) /\ Taken(rank'[n]) = Taken(you)
        BY <1>1, <1>4, <2>3, <2>4
    <2> HIDE DEF n, me, you, line
    <2> QED BY <1>2, <2>1, <2>5 DEF Carry, n
<1> QED BY <1>7, <1>8, <1>9

\* A step of a rank keeps the shapes.
LEMMA RankShapes ==
    ASSUME ForwardInv, Carried, Shapes, Ends, NEW r \in Ranks, Turn(r), Moves(r)
    PROVE  \A x \in Ranks : Shaped(rank'[x], sent)
<1> DEFINE me == rank[r]
           new == rank'[r]
<1>1. \A x \in Ranks \ {r} : Shaped(rank'[x], sent)  BY DEF Turn, Shapes
<1>2. Shaped(me, sent)  BY DEF Shapes
<1>3. CASE Prepared(r)
    <2>1. new.pc = "model" => new.data = Whole(me.args)  BY <1>3 DEF Prepared
    <2>2. me.pc = "ready" /\ new.at = me.at /\ new.pc # "reduce"
        BY <1>3 DEF Prepared, Ready
    <2>3. me.args = sent[me.at]  BY <2>2, CallOf
    <2>4. Rows(Whole(me.args)) = Rows(me.args)  BY DEF Rows, Whole
    <2>5. Shaped(new, sent)  BY <2>1, <2>2, <2>3, <2>4 DEF Shaped
    <2> QED BY <1>1, <2>5
<1>4. CASE Took(r)
    <2>1. /\ me.pc = "recv" /\ chan[r] # <<>> /\ new.data = Head(chan[r]) /\ new.at = me.at
          /\ new.pc = "model"
        BY <1>4 DEF Took, Goes
    <2>2. ~IsFirst(r)  BY <2>1 DEF Ends
    <2>3. PICK s \in Ranks : r = s + cfg.tp /\ ~IsLast(s)
        BY <2>2, StageAfter DEF ForwardInv, Route
    <2>4. Carry(rank[s], me, chan[r], sent)  BY <2>3 DEF Carried
    <2>5. Len(chan[r]) = 1 /\ Head(chan[r]) = chan[r][1] /\ me.at \in Nat  BY <2>1, Lines
    <2>6. Taken(me) = me.at - 1  BY <2>1 DEF Taken
    <2>7. Given(rank[s]) = (me.at - 1) + 1  BY <2>4, <2>5, <2>6 DEF Carry
    <2>8. Given(rank[s]) = me.at  BY <2>5, <2>7
    <2>9. Rows(new.data) = Rows(sent[me.at])  BY <2>1, <2>4, <2>5, <2>8 DEF Carry
    <2>10. Shaped(new, sent)  BY <2>1, <2>9 DEF Shaped
    <2> QED BY <1>1, <2>10
<1>5. CASE Reduced(r)
    <2>1. me.pc = "model" /\ new.pc = "reduce" /\ new.at = me.at /\ new.data = me.data
        BY <1>5 DEF Reduced, Goes, SameData
    <2>2. Shaped(new, sent)  BY <1>2, <2>1 DEF Shaped
    <2> QED BY <1>1, <2>2
<1>6. CASE ~Prepared(r) /\ ~Took(r) /\ ~Reduced(r)
    <2>1. new.pc \notin {"model", "reduce"}
        BY <1>6 DEF Moves, Began, Entered, Unprepared, Computed, Delivered, Posted, GaveUp,
                    Closed, Goes
    <2>2. Shaped(new, sent)  BY <2>1 DEF Shaped
    <2> QED BY <1>1, <2>2
<1> QED BY <1>3, <1>4, <1>5, <1>6

\* Calls that are sent change nothing of that.
LEMMA SentCarries ==
    ASSUME ForwardInv, UNCHANGED <<cfg, rank, joined, chan, broken>>,
           sent' = sent \/ \E call : sent' = Append(sent, call), StepInv
    PROVE  StepInv'
<1>1. /\ cfg' = cfg /\ Ranks' = Ranks
      /\ \A x : IsFirst(x)' = IsFirst(x) /\ IsLast(x)' = IsLast(x)
    BY SameGrid DEF IsFirst
<1>2. \A i \in 1..Len(sent) : sent'[i] = sent[i]  BY SentGrows DEF ForwardInv
<1>3. Ends'  BY <1>1 DEF StepInv, Ends
<1>4. ASSUME ~OutOfStep' PROVE Level' /\ Carried' /\ Shapes'
    <2>1. Level /\ Carried /\ Shapes  BY <1>1, <1>4 DEF StepInv, OutOfStep
    <2>2. Level'  BY <1>1, <2>1 DEF Level, Before
    <2>3. ASSUME NEW s \in Ranks, ~IsLast(s)
          PROVE  Carry(rank[s], rank[s + cfg.tp], chan[s + cfg.tp], sent')
        <3> DEFINE n == s + cfg.tp
        <3>1. n \in Ranks  BY <2>3, NextStage DEF ForwardInv, Route
        <3>2. Carry(rank[s], rank[n], chan[n], sent)  BY <2>1, <2>3 DEF Carried
        <3>3. ASSUME chan[n] # <<>> PROVE Given(rank[s]) \in 1..Len(sent)
            <4>1. Len(chan[n]) = 1 /\ rank[n].at \in Nat  BY <3>1, <3>3, Lines
            <4>2. rank[n].pc # "idle" => rank[n].at >= 1  BY <3>1 DEF ForwardInv, Workers
            <4>3. Taken(rank[n]) \in Nat
                <5>1. CASE rank[n].pc \in {"enter", "ready", "recv"}
                    <6>1. rank[n].at - 1 \in Nat  BY <4>1, <4>2, <5>1
                    <6> QED BY <5>1, <6>1 DEF Taken
                <5>2. CASE rank[n].pc \notin {"enter", "ready", "recv"}
                    BY <4>1, <5>2 DEF Taken
                <5> QED BY <5>1, <5>2
            <4>4. Given(rank[s]) = Taken(rank[n]) + 1  BY <3>2, <4>1 DEF Carry
            <4>5. rank[s].at \in 0..Len(sent) /\ Len(sent) \in Nat
                BY DEF ForwardInv, Workers, Route
            <4>6. Given(rank[s]) <= rank[s].at  BY <4>5 DEF Given
            <4> QED BY <4>3, <4>4, <4>5, <4>6
        <3> HIDE DEF n
        <3>4. chan[n] # <<>> => sent'[Given(rank[s])] = sent[Given(rank[s])]  BY <1>2, <3>3
        <3>5. Carry(rank[s], rank[n], chan[n], sent')  BY <3>2, <3>4 DEF Carry
        <3> QED BY <3>5 DEF n
    <2>4. Carried'  BY <1>1, <2>3 DEF Carried
    <2>5. ASSUME NEW r \in Ranks PROVE Shaped(rank[r], sent')
        <3>1. Shaped(rank[r], sent)  BY <2>1 DEF Shapes
        <3>2. rank[r].pc # "idle" => rank[r].at \in 1..Len(sent)  BY CallOf
        <3>3. rank[r].pc # "idle" => sent'[rank[r].at] = sent[rank[r].at]  BY <1>2, <3>2
        <3> QED BY <3>1, <3>3 DEF Shaped
    <2>6. Shapes'  BY <1>1, <2>5 DEF Shapes
    <2> QED BY <2>2, <2>4, <2>6
<1> QED BY <1>3, <1>4 DEF StepInv

\* Every step keeps ranks in step.
LEMMA NextSteps ==
    ASSUME ForwardInv, StepInv, [Next]_vars
    PROVE  StepInv'
<1>1. CASE Begins
    <2>1. (\E new : Continue(new)) /\ UNCHANGED <<cfg, rank, joined, chan, broken>>
        BY <1>1 DEF Begins
    <2>2. sent' = sent \/ \E call : sent' = Append(sent, call)  BY <2>1, ContinueSends
    <2> QED BY <2>1, <2>2, SentCarries
<1>2. CASE ChunkAnswered
    <2>1. (\E new : Continue(new)) /\ UNCHANGED <<cfg, rank, joined, chan, broken>>
        BY <1>2 DEF ChunkAnswered
    <2>2. sent' = sent \/ \E call : sent' = Append(sent, call)  BY <2>1, ContinueSends
    <2> QED BY <2>1, <2>2, SentCarries
<1>3. CASE ChunkFails \/ UNCHANGED vars
    <2>1. UNCHANGED <<cfg, sent, rank, joined, chan, broken>>
        BY <1>3 DEF ChunkFails, vars
    <2> QED BY <2>1, SentCarries
<1>4. CASE \E r \in Ranks : Runs(r) \/ Raises(r)
    <2> PICK r \in Ranks : Runs(r) \/ Raises(r)  BY <1>4
    <2>1. Turn(r) /\ Moves(r)  BY RankMoves
    <2>2. Ends /\ Ends'  BY <2>1, RankEnds DEF StepInv
    <2>3. /\ cfg' = cfg /\ Ranks' = Ranks /\ sent' = sent
          /\ \A x : IsLast(x)' = IsLast(x)
        BY <2>1, SameGrid DEF Turn
    <2>4. ASSUME ~OutOfStep' PROVE Level' /\ Carried' /\ Shapes'
        <3>1. /\ ~OutOfStep
              /\ Cardinality(Ranks) > 1 => ~Unprepared(r) /\ (GaveUp(r) => rank[r].pc = "post")
            BY <2>1, <2>4, Undisturbed
        <3>2. Level /\ Carried /\ Shapes  BY <3>1 DEF StepInv
        <3>3. cfg \in Configs  BY DEF ForwardInv, Route
        <3>4. ASSUME cfg.tp > 1 PROVE Level'
            <4>1. Cardinality(Ranks) > 1  BY <3>3, <3>4, SeveralRanks
            <4> QED BY <2>1, <3>1, <3>2, <3>4, <4>1, RankLevel
        <3>5. ~ (cfg.tp > 1) => Level'  BY <2>3 DEF Level
        <3>6. ASSUME NEW s \in Ranks, ~IsLast(s)
              PROVE  Carry(rank'[s], rank'[s + cfg.tp], chan'[s + cfg.tp], sent)
            <4>1. Cardinality(Ranks) > 1  BY <3>3, <3>6, SeveralRanks
            <4> QED BY <2>1, <3>1, <3>2, <3>6, <4>1, RankCarries
        <3>7. Carried'  BY <2>3, <3>6 DEF Carried
        <3>8. \A x \in Ranks : Shaped(rank'[x], sent)  BY <2>1, <2>2, <3>2, RankShapes
        <3>9. Shapes'  BY <2>3, <3>8 DEF Shapes
        <3> QED BY <3>4, <3>5, <3>7, <3>9
    <2> QED BY <2>2, <2>4 DEF StepInv
<1> QED BY <1>1, <1>2, <1>3, <1>4 DEF Next

\* At first nobody has begun.
LEMMA InitSteps ==
    ASSUME Init
    PROVE  StepInv
<1>1. /\ cfg \in Configs
      /\ \A r \in Ranks :
            /\ rank[r].pc = "idle" /\ rank[r].at = 0
            /\ joined[r] = [cpu |-> 0, gpu |-> 0] /\ chan[r] = <<>>
    BY DEF Init
<1>2. Ends /\ Shapes  BY <1>1 DEF Ends, Shapes, Shaped
<1>3. Level
    <2>1. 0 + 0 = 0  OBVIOUS
    <2> QED BY <1>1, <2>1 DEF Level, Before, If
<1>4. Carried
    <2> SUFFICES ASSUME NEW s \in Ranks, ~IsLast(s)
                 PROVE  Carry(rank[s], rank[s + cfg.tp], chan[s + cfg.tp], sent)
        BY DEF Carried
    <2>1. s + cfg.tp \in Ranks  BY <1>1, NextStage
    <2>2. 0 + Len(<<>>) = 0  OBVIOUS
    <2> QED BY <1>1, <2>1, <2>2 DEF Carry, Taken, Given
<1> QED BY <1>2, <1>3, <1>4 DEF StepInv

\* A stage has a driver.
LEMMA SomeDriver ==
    ASSUME cfg \in Configs, NEW r \in Ranks
    PROVE  \E d \in Peers(r) : IsDriver(d)
<1> DEFINE tp == cfg.tp
           p == Stage(r)
           x == (r - 1) % tp
           k == p - 1
           d == k * tp + 1
<1>1. tp \in Nat \ {0} /\ r \in Nat /\ p \in Nat /\ p >= 1 /\ x \in Nat
      /\ r = k * tp + x + 1
    <2>1. cfg.pp \in Nat  BY Grid
    <2> QED BY <2>1, Grid
<1>2. Ranks = 1..(tp * cfg.pp)  BY DEF Ranks
<1>3. \A y : Stage(y) = ((y - 1) \div tp) + 1 /\ (IsDriver(y) <=> (y - 1) % tp = 0)
    BY DEF Stage, IsDriver
<1> HIDE DEF tp, p, x
<1>4. k \in Nat /\ k + 1 = p  BY <1>1
<1>5. k * tp \in Nat  BY <1>1, <1>4
<1>6. tp * cfg.pp \in Nat  BY Grid DEF tp
<1>7. d \in Ranks /\ d - 1 = k * tp + 0  BY <1>1, <1>2, <1>5, <1>6
<1>8. (k * tp + 0) \div tp = k /\ (k * tp + 0) % tp = 0
    <2>1. 0 \in 0..tp-1  BY <1>1
    <2> HIDE DEF k
    <2> QED BY <1>1, <1>4, <2>1, DivOf
<1> HIDE DEF d, k
<1>9. Stage(d) = p /\ IsDriver(d)  BY <1>3, <1>4, <1>7, <1>8
<1> QED BY <1>7, <1>9 DEF Peers, p

\* Where nobody can go on, ranks that are in a call have the least of those that ranks are
\* in.
Blocked(a) ==
    /\ a \in Nat
    /\ \A q \in Ranks : ~CanGoOn(q) /\ rank[q].at \in Nat /\ a <= rank[q].at
    /\ \E r \in Ranks : rank[r].pc # "idle" /\ rank[r].at = a

\* Where nobody can go on, nobody in the least call is at a barrier.
LEMMA NoneAtBarriers ==
    ASSUME ForwardInv, StepInv, ~OutOfStep, NEW a, Blocked(a),
           NEW r \in Ranks, rank[r].at = a
    PROVE  rank[r].pc \notin {"enter", "ready"}
<1>1. cfg \in Configs  BY DEF ForwardInv, Route
<1>2. \A x \in Ranks : joined[x].cpu \in Nat /\ rank[x].at \in Nat /\ a <= rank[x].at
    <2>1. \A x \in Ranks : joined[x] \in [cpu : Nat, gpu : Nat]  BY DEF ForwardInv, Counts
    <2> QED BY <2>1 DEF Blocked
<1>3. \A x \in Ranks : cfg.tp > 1 => joined[x].cpu + If(rank[x].pc = "enter", 1) = 2 * rank[x].at
    BY DEF ForwardInv, Counts, If
<1>4. ASSUME NEW x \in Ranks, rank[x].pc = "enter", rank[x].at = a
      PROVE  Met(x, "cpu") /\ cfg.tp > 1 /\ joined[x].cpu + 1 = 2 * a
    <2>1. cfg.tp > 1  BY <1>4 DEF ForwardInv, Counts
    <2>2. joined[x].cpu + 1 = 2 * a  BY <1>3, <1>4, <2>1 DEF If
    <2>3. ASSUME NEW q \in Peers(x) PROVE joined[q].cpu >= joined[x].cpu
        <3>1. q \in Ranks  BY DEF Peers
        <3>2. joined[q].cpu + If(rank[q].pc = "enter", 1) = 2 * rank[q].at  BY <1>3, <2>1, <3>1
        <3>3. joined[q].cpu + 1 >= 2 * rank[q].at  BY <1>2, <3>1, <3>2 DEF If
        <3> QED BY <1>2, <2>2, <3>1, <3>3 DEF Blocked
    <2> QED BY <2>1, <2>2, <2>3 DEF Met
<1>5. ASSUME NEW x \in Ranks, rank[x].pc = "enter", rank[x].at = a PROVE FALSE
    <2>1. Met(x, "cpu") /\ cfg.tp > 1 /\ joined[x].cpu + 1 = 2 * a  BY <1>4, <1>5
    <2>2. ~IsDriver(x) /\ mail[x] = <<>>  BY <1>5, <2>1 DEF Blocked, CanGoOn
    <2>3. ~Due(x)
        <3>1. mail[x] = IF Due(x) THEN <<sent[rank[x].at]>> ELSE <<>>
            BY DEF ForwardInv, Mailed
        <3>2. \A v : <<v>> # <<>>  OBVIOUS
        <3> QED BY <2>2, <3>1, <3>2
    <2>4. PICK d \in Peers(x) : IsDriver(d)  BY <1>1, SomeDriver
    <2>5. d \in Ranks /\ d # x /\ x \in Peers(d)  BY <2>2, <2>4 DEF Peers
    <2>6. rank[d].at # a \/ rank[d].pc = "enter"  BY <1>5, <2>3, <2>4, <2>5 DEF Due
    <2>7. CASE rank[d].pc = "enter" /\ rank[d].at = a
        <3>1. Met(d, "cpu")  BY <1>4, <2>5, <2>7
        <3> QED BY <2>4, <2>5, <2>7, <3>1 DEF Blocked, CanGoOn
    <2>8. CASE rank[d].at # a
        <3>1. joined[x].cpu + If(Before(d, {"enter", "ready"}), 2) >= 2 * rank[d].at
            BY <2>1, <2>5 DEF ForwardInv, Barrier
        <3>2. joined[x].cpu + 2 >= 2 * rank[d].at  BY <1>2, <2>5, <3>1 DEF If
        <3>3. rank[d].at >= a + 1  BY <1>2, <2>5, <2>8 DEF Blocked
        <3> QED BY <1>2, <2>1, <2>5, <3>2, <3>3 DEF Blocked
    <2> QED BY <2>6, <2>7, <2>8
<1>6. ASSUME rank[r].pc = "ready" PROVE FALSE
    <2>1. Met(r, "cpu")
        <3>1. ASSUME NEW q \in Peers(r), cfg.tp > 1 PROVE joined[q].cpu >= joined[r].cpu
            <4>1. q \in Ranks  BY DEF Peers
            <4>2. joined[r].cpu = 2 * a
                <5>1. joined[r].cpu + If(rank[r].pc = "enter", 1) = 2 * rank[r].at
                    BY <1>3, <3>1
                <5>2. joined[r].cpu + 0 = 2 * a  BY <1>6, <5>1 DEF If
                <5> QED BY <1>2, <5>2
            <4>3. joined[q].cpu + If(rank[q].pc = "enter", 1) = 2 * rank[q].at
                BY <1>3, <3>1, <4>1
            <4>4. CASE rank[q].at = a
                <5>1. rank[q].pc # "enter"  BY <1>5, <4>1, <4>4
                <5> QED BY <1>2, <4>1, <4>2, <4>3, <4>4, <5>1 DEF If
            <4>5. CASE rank[q].at # a
                <5>1. rank[q].at >= a + 1  BY <1>2, <4>1, <4>5 DEF Blocked
                <5>2. joined[q].cpu + 1 >= 2 * rank[q].at  BY <1>2, <4>1, <4>3 DEF If
                <5> QED BY <1>2, <4>1, <4>2, <5>1, <5>2 DEF Blocked
            <4> QED BY <4>4, <4>5
        <3>2. ASSUME NEW q \in Peers(r), ~ (cfg.tp > 1) PROVE joined[q].cpu >= joined[r].cpu
            <4>1. q = r  BY <1>1, <3>2, Alone
            <4> QED BY <1>2, <4>1
        <3> QED BY <3>1, <3>2 DEF Met
    <2>2. ~IsLast(r) /\ chan[r + cfg.tp] # <<>>
        BY <1>6, <2>1 DEF Blocked, CanGoOn, Ready
    <2> DEFINE n == r + cfg.tp
    <2>3. n \in Ranks  BY <1>1, <2>2, NextStage
    <2>4. Carry(rank[r], rank[n], chan[n], sent)  BY <2>2 DEF StepInv, Carried
    <2> HIDE DEF n
    <2>5. Len(chan[n]) = 1  BY <2>2, <2>3, Lines DEF n
    <2>6. Given(rank[r]) = a - 1  BY <1>6 DEF Given
    <2>7. Taken(rank[n]) + 1 = a - 1  BY <2>4, <2>5, <2>6 DEF Carry
    <2>8. Taken(rank[n]) \in Int /\ Taken(rank[n]) + 1 >= rank[n].at  BY <1>2, <2>3 DEF Taken
    <2>9. a \in Nat /\ a <= rank[n].at /\ rank[n].at \in Nat  BY <1>2, <2>3 DEF Blocked
    <2> QED BY <2>7, <2>8, <2>9
<1> QED BY <1>5, <1>6

\* Where nobody can go on, some rank in the least call waits to receive, in a stage no
\* later than any other's that is in it.
LEMMA SomeReceives ==
    ASSUME ForwardInv, StepInv, ~OutOfStep, NEW a, Blocked(a),
           NEW r \in Ranks, rank[r].at = a, rank[r].pc # "idle"
    PROVE  \E q \in Peers(r) : rank[q].at = a /\ rank[q].pc = "recv"
<1>1. cfg \in Configs /\ r \in Peers(r)  BY DEF ForwardInv, Route, Peers
<1>2. \A x \in Ranks : joined[x].gpu \in Nat /\ rank[x].at \in Nat /\ a <= rank[x].at
    <2>1. \A x \in Ranks : joined[x] \in [cpu : Nat, gpu : Nat]  BY DEF ForwardInv, Counts
    <2> QED BY <2>1 DEF Blocked
<1>3. \A x \in Ranks : rank[x].at = a => rank[x].pc \notin {"enter", "ready"}
    BY NoneAtBarriers
<1>4. rank[r].pc \in {"recv", "reduce", "sent"}
    <2>1. rank[r].pc \in Places  BY DEF ForwardInv, Workers
    <2>2. rank[r].pc \notin {"model", "post", "close"}  BY DEF Blocked, CanGoOn
    <2> QED BY <1>3, <2>1, <2>2 DEF Places
<1>5. CASE rank[r].pc = "recv"  BY <1>1, <1>5
<1>6. CASE rank[r].pc = "sent"
    <2> DEFINE n == r + cfg.tp
    <2>1. ~IsLast(r)  BY <1>6 DEF StepInv, Ends
    <2>2. n \in Ranks /\ Carry(rank[r], rank[n], chan[n], sent)
        BY <1>1, <2>1, NextStage DEF StepInv, Carried
    <2>3. chan[n] # <<>>  BY <1>6 DEF Blocked, CanGoOn
    <2> HIDE DEF n
    <2>4. Len(chan[n]) = 1  BY <2>2, <2>3, Lines
    <2>5. Taken(rank[n]) + 1 = a  BY <1>6, <2>2, <2>4 DEF Carry, Given
    <2>6. rank[n].at = a /\ rank[n].pc \in {"enter", "ready", "recv"}
        BY <1>2, <2>2, <2>5 DEF Taken, Blocked
    <2>7. rank[n].pc = "recv"  BY <1>3, <2>2, <2>6
    <2>8. CanGoOn(n)  BY <2>3, <2>7 DEF CanGoOn
    <2> QED BY <2>2, <2>8 DEF Blocked
<1>7. CASE rank[r].pc = "reduce"
    <2>1. ~Met(r, "gpu")  BY <1>7 DEF Blocked, CanGoOn
    <2>2. PICK q \in Peers(r) : ~ (joined[q].gpu >= joined[r].gpu)  BY <2>1 DEF Met
    <2>3. q \in Ranks  BY DEF Peers
    <2>4. cfg.tp > 1
        <3> SUFFICES ASSUME ~ (cfg.tp > 1) PROVE FALSE  OBVIOUS
        <3>1. q = r  BY <1>1, Alone
        <3> QED BY <1>2, <2>2, <3>1
    <2>5. \A x \in Ranks :
              joined[x].gpu + If(Before(x, {"enter", "ready", "recv", "model"}), 1) = rank[x].at
        BY <2>4 DEF StepInv, Level
    <2>6. joined[r].gpu = a  BY <1>2, <1>7, <2>5 DEF If, Before
    <2>7. joined[q].gpu < a  BY <1>2, <2>2, <2>3, <2>6
    <2>8. rank[q].at = a /\ rank[q].pc \in {"enter", "ready", "recv", "model"}
        BY <1>2, <2>3, <2>5, <2>7 DEF If, Before, Blocked
    <2>9. rank[q].pc # "model"  BY <2>3 DEF Blocked, CanGoOn
    <2> QED BY <1>3, <2>3, <2>8, <2>9
<1> QED BY <1>4, <1>5, <1>6, <1>7

\* A rank that waits to receive in the least call has a predecessor in that call.
LEMMA SomeEarlier ==
    ASSUME ForwardInv, StepInv, ~OutOfStep, NEW a, Blocked(a),
           NEW r \in Ranks, rank[r].at = a, rank[r].pc = "recv"
    PROVE  \E s \in Ranks : rank[s].at = a /\ rank[s].pc # "idle" /\ Stage(r) = Stage(s) + 1
<1>1. cfg \in Configs  BY DEF ForwardInv, Route
<1>2. ~IsFirst(r)  BY DEF StepInv, Ends
<1>3. PICK s \in Ranks : r = s + cfg.tp /\ ~IsLast(s)  BY <1>1, <1>2, StageAfter
<1>4. Stage(r) = Stage(s) + 1  BY <1>1, <1>3, StageAfter
<1>5. chan[r] = <<>>  BY DEF Blocked, CanGoOn
<1>6. Carry(rank[s], rank[r], chan[r], sent)  BY <1>3 DEF StepInv, Carried
<1>7. rank[s].at \in Nat /\ a <= rank[s].at /\ a \in Nat  BY DEF Blocked
<1>8. Len(<<>>) = 0  OBVIOUS
<1>9. (a - 1) + 0 = Given(rank[s])  BY <1>5, <1>6, <1>8 DEF Carry, Taken
<1>10. rank[s].at = a /\ rank[s].pc \in {"enter", "ready", "recv", "model", "reduce"}
    BY <1>7, <1>9 DEF Given
<1> QED BY <1>4, <1>10

\* The argument: the least call has no first stage that waits.
LEMMA NotStuck ==
    ASSUME ForwardInv, StepInv
    PROVE  NobodyStuck
<1> SUFFICES ASSUME NEW b \in Ranks, rank[b].pc # "idle", \A r \in Ranks : ~CanGoOn(r),
                    ~OutOfStep
             PROVE  FALSE
    BY DEF NobodyStuck
<1>0. cfg \in Configs  BY DEF ForwardInv, Route
<1>1. \A r \in Ranks : rank[r].at \in Nat  BY Lines
<1> DEFINE T == {rank[r].at : r \in {q \in Ranks : rank[q].pc # "idle"}}
<1>2. T \in SUBSET Nat /\ T # {}  BY <1>1
<1>3. PICK a \in T : \A k \in T : a <= k  BY <1>2, LeastElement
<1>4. Blocked(a)
    <2>1. ASSUME NEW q \in Ranks PROVE a <= rank[q].at
        <3>1. CASE rank[q].pc # "idle"  BY <1>3, <3>1
        <3>2. CASE rank[q].pc = "idle"
            <4>1. ~ (rank[q].at < Len(sent))  BY <3>2 DEF CanGoOn
            <4>2. PICK r \in Ranks : a = rank[r].at  BY <1>3
            <4>3. rank[r].at \in 0..Len(sent) /\ Len(sent) \in Nat
                BY DEF ForwardInv, Workers, Route
            <4> QED BY <1>1, <4>1, <4>2, <4>3
        <3> QED BY <3>1, <3>2
    <2>2. \E r \in Ranks : rank[r].pc # "idle" /\ rank[r].at = a  BY <1>3
    <2> QED BY <1>1, <1>2, <1>3, <2>1, <2>2 DEF Blocked
<1> HIDE DEF T
<1> DEFINE W == {q \in Ranks : rank[q].at = a /\ rank[q].pc = "recv"}
           S == {Stage(q) : q \in W}
<1>5. \A q \in Ranks : Stage(q) \in Nat
    <2>1. \A q \in Ranks : Stage(q) \in 1..cfg.pp /\ cfg.pp \in Nat  BY <1>0, Grid
    <2> QED BY <2>1
<1>6. ASSUME NEW r \in Ranks, rank[r].at = a, rank[r].pc # "idle"
      PROVE  Stage(r) \in S
    <2>1. PICK q \in Peers(r) : rank[q].at = a /\ rank[q].pc = "recv"
        BY <1>4, <1>6, SomeReceives
    <2>2. q \in W /\ Stage(q) = Stage(r)  BY <2>1 DEF Peers
    <2> QED BY <2>2
<1>7. S \in SUBSET Nat /\ S # {}
    <2>1. PICK r \in Ranks : rank[r].pc # "idle" /\ rank[r].at = a  BY <1>4 DEF Blocked
    <2>2. Stage(r) \in S  BY <1>6, <2>1
    <2> QED BY <1>5, <2>2
<1>8. PICK m \in S : \A k \in S : m <= k  BY <1>7, LeastElement
<1>9. PICK r \in W : m = Stage(r)  BY <1>8
<1>10. PICK s \in Ranks : rank[s].at = a /\ rank[s].pc # "idle" /\ Stage(r) = Stage(s) + 1
    BY <1>4, <1>9, SomeEarlier
<1>11. Stage(s) \in S /\ Stage(s) \in Nat  BY <1>5, <1>6, <1>10
<1> HIDE DEF S
<1> QED BY <1>8, <1>9, <1>10, <1>11

\* Ranks that are in step never wait for each other in a circle: for any number of ranks,
\* stages and calls, with sends that return at once or wait, whatever chunks failed, timed
\* out or lost artifacts before.
THEOREM NeverStuck == Spec => []NobodyStuck
<1>1. Init => StepInv  BY InitSteps
<1>2. ForwardInv /\ StepInv /\ [Next]_vars => StepInv'  BY NextSteps
<1>3. ForwardInv /\ StepInv => NobodyStuck  BY NotStuck
<1> QED BY <1>1, <1>2, <1>3, Invariance, PTL DEF Spec

\* How far a rank has come with the calls: steps in a call only go on to later ones.
Left(pc) ==
    CASE pc = "enter" -> 7 [] pc = "ready" -> 6 [] pc = "recv" -> 5 [] pc = "model" -> 4
      [] pc = "reduce" -> 3 [] pc \in {"sent", "post"} -> 2 [] pc = "close" -> 1
      [] pc = "idle" -> 0
Position(me) == 9 * me.at - Left(me.pc)
Bounded == \A r \in Ranks : Position(rank[r]) \in 0..9 * cfg.calls
Advances == \A r \in Ranks : rank'[r] = rank[r] \/ Position(rank[r]) < Position(rank'[r])

\* A step of a rank takes it on, and no other step moves any.
LEMMA NextAdvances ==
    ASSUME ForwardInv, [Next]_vars
    PROVE  Advances
<1>1. CASE \E r \in Ranks : Runs(r) \/ Raises(r)
    <2> PICK r \in Ranks : Runs(r) \/ Raises(r)  BY <1>1
    <2>1. Turn(r) /\ Moves(r)  BY RankMoves
    <2> DEFINE pc == rank[r].pc
               next == rank'[r].pc
    <2>2. rank[r].at \in Nat  BY Lines
    <2>3. \/ rank'[r].at = rank[r].at + 1 /\ pc = "idle" /\ next \in {"enter", "ready"}
          \/ /\ rank'[r].at = rank[r].at
             /\ \/ pc = "enter" /\ next = "ready"
                \/ pc = "ready" /\ next \in {"recv", "model", "close"}
                \/ pc = "recv" /\ next = "model"
                \/ pc = "model" /\ next \in {"reduce", "close"}
                \/ pc = "reduce" /\ next \in {"sent", "post", "close"}
                \/ pc \in {"sent", "post"} /\ next = "close"
                \/ pc = "close" /\ next = "idle"
        <3>1. CASE Computed(r)  BY <3>1 DEF Computed
        <3>2. CASE ~Computed(r)
            BY <2>1, <3>2 DEF Moves, Began, Entered, Prepared, Unprepared, Took, Reduced,
                   Delivered, Posted, GaveUp, Closed, Goes, Ready, SameData
        <3> QED BY <3>1, <3>2
    <2>4. Position(rank[r]) < Position(rank'[r])
        <3> HIDE DEF pc, next
        <3>1. CASE rank'[r].at = rank[r].at
            <4>1. Left(pc) \in Nat /\ Left(next) \in Nat /\ Left(next) < Left(pc)
                BY <2>2, <2>3, <3>1 DEF Left
            <4> QED BY <2>2, <3>1, <4>1 DEF Position, pc, next
        <3>2. CASE rank'[r].at # rank[r].at
            <4>1. Left(pc) = 0 /\ Left(next) \in {6, 7} /\ rank'[r].at = rank[r].at + 1
                BY <2>3, <3>2 DEF Left
            <4> QED BY <2>2, <4>1 DEF Position, pc, next
        <3> QED BY <3>1, <3>2
    <2> QED BY <2>1, <2>4 DEF Turn, Advances
<1>2. CASE Begins \/ ChunkAnswered \/ ChunkFails \/ UNCHANGED vars
    BY <1>2 DEF Begins, ChunkAnswered, ChunkFails, vars, Advances
<1> QED BY <1>1, <1>2 DEF Next

\* Calls are bounded.
LEMMA PositionBounded ==
    ASSUME ForwardInv
    PROVE  Bounded
<1> SUFFICES ASSUME NEW r \in Ranks PROVE Position(rank[r]) \in 0..9 * cfg.calls
    BY DEF Bounded
<1>1. /\ rank[r].at \in 0..Len(sent) /\ rank[r].pc \in Places
      /\ rank[r].pc # "idle" => rank[r].at >= 1
    BY DEF ForwardInv, Workers
<1>2. Len(sent) <= cfg.calls /\ Len(sent) \in Nat /\ cfg.calls \in Nat
    BY ConfigAssumption DEF ForwardInv, Route
<1>3. Left(rank[r].pc) \in 0..7 /\ (rank[r].pc = "idle" => Left(rank[r].pc) = 0)
    BY <1>1 DEF Places, Left
<1> DEFINE at == rank[r].at
           left == Left(rank[r].pc)
           c == cfg.calls
<1>4. at \in Nat /\ at <= c /\ c \in Nat /\ left \in 0..7 /\ (left = 0 \/ at >= 1)
    BY <1>1, <1>2, <1>3
<1> HIDE DEF at, left, c
<1>5. 9 * at - left \in 0..9 * c  BY <1>4
<1> QED BY <1>5 DEF Position, at, left, c

\* A rank never goes back or round in a call, and has a bounded way to go: with NeverStuck,
\* ranks that go on whenever they can have answered every call after boundedly many steps.
THEOREM RanksAdvance == Spec => [][Advances]_vars /\ []Bounded
<1>1. ForwardInv /\ [Next]_vars => [Advances]_vars  BY NextAdvances
<1>2. ForwardInv => Bounded  BY PositionBounded
<1> QED BY <1>1, <1>2, Invariance, PTL DEF Spec

=============================================================================
