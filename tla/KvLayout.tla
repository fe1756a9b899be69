------------------------------ MODULE KvLayout ------------------------------
(***************************************************************************)
(* Where the tokens of a forward are stored.  The engine sizes a lease     *)
(* (gonka_poc_borrow_blocks, _compat/v0_25.py); each worker turns the      *)
(* lease, or blocks 0..N, into the slots that a forward writes and the     *)
(* block table through which attention reads them (poc_model_runner.py).   *)
(*                                                                         *)
(* A group of layers is a record [g, m]: m slots in a block of the pool,   *)
(* g in a kernel block, a split of it.  Sequences and tokens count from 0  *)
(* as in the code, the lease is a TLA+ sequence of block ids.              *)
(***************************************************************************)
EXTENDS Naturals, Sequences

\* math.ceil(a / b)
Ceil(a, b) == (a + b - 1) \div b

----------------------------------------------------------------------------
(* The engine's side.                                                      *)

\* blocks_per_seq: what the most demanding group needs for one sequence.
Stripe(groups, len) ==
    CHOOSE s \in {Ceil(len, grp.m) : grp \in groups} :
        \A grp \in groups : s >= Ceil(len, grp.m)

\* The lease for n sequences out of the free queue; empty when refused.
Borrow(n, len, groups, free) ==
    LET needed == n * Stripe(groups, len) IN
    IF needed = 0 \/ needed > Len(free) THEN <<>> ELSE SubSeq(free, 1, needed)

----------------------------------------------------------------------------
(* The worker's side: layouts of n sequences of len tokens.                *)

\* The guards of _borrowed_layout; it raises when one fails.
Fits(n, len, grp, ids, stripe) ==
    /\ grp.m % grp.g = 0
    /\ Ceil(len, grp.m) <= stripe
    /\ n * stripe <= Len(ids)

\* Sequence i uses the first blocks of its stripe of the lease.
Block(ids, stripe, i, k) == ids[i * stripe + k + 1]

BorrowedSlot(grp, ids, stripe, i, t) ==
    (Block(ids, stripe, i, t \div grp.m) * grp.m) + (t % grp.m)

BugBorrowedEntry(grp, ids, stripe, i, k) == Block(ids, stripe, i, k \div (grp.m \div grp.g))

\* A pool block covers m \div g kernel blocks.
BorrowedEntry(grp, ids, stripe, i, k) ==
    LET r == grp.m \div grp.g IN (Block(ids, stripe, i, k \div r) * r) + (k % r)

BorrowedLayout(n, len, grp, ids, stripe) ==
    LET width == Ceil(len, grp.m) * (grp.m \div grp.g) IN
    [slot  |-> [p \in (0..n-1) \X (0..len-1) |->
                    BorrowedSlot(grp, ids, stripe, p[1], p[2])],
     table |-> [p \in (0..n-1) \X (0..width-1) |->
                    BorrowedEntry(grp, ids, stripe, p[1], p[2])]]

\* Blocks 0..N, each sequence padded to whole kernel blocks.
InplaceLayout(n, len, grp) ==
    LET perSeq == Ceil(len, grp.g) IN
    [slot  |-> [p \in (0..n-1) \X (0..len-1) |-> p[1] * (perSeq * grp.g) + p[2]],
     table |-> [p \in (0..n-1) \X (0..perSeq-1) |-> p[1] * perSeq + p[2]]]

----------------------------------------------------------------------------
(* What a layout must be.                                                  *)

\* No two tokens share a slot.
Injective(layout) ==
    \A p, q \in DOMAIN layout.slot : layout.slot[p] = layout.slot[q] => p = q

\* Attention finds token t of sequence i, through the table, where it was written.
ReadsBack(layout, grp) ==
    \A p \in DOMAIN layout.slot :
        layout.slot[p] = (layout.table[<<p[1], p[2] \div grp.g>>] * grp.g) + (p[2] % grp.g)

\* The blocks of the pool that a layout writes.
Written(layout, grp) == {layout.slot[p] \div grp.m : p \in DOMAIN layout.slot}

\* The blocks of the pool that the table names.
Named(layout, grp) == {(layout.table[p] * grp.g) \div grp.m : p \in DOMAIN layout.table}
=============================================================================
