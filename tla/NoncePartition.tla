--------------------------- MODULE NoncePartition ---------------------------
(***************************************************************************)
(* Which nonces a miner computes (NonceIterator, poc/routes.py): the       *)
(* nodes of a network, and the groups of a node, share out the naturals    *)
(* without talking to each other.                                          *)
(***************************************************************************)
EXTENDS Naturals

\* NonceIterator.__next__ at position x.
Nonce(node, nodes, group, groups, x) == (node + group * nodes) + x * (groups * nodes)

\* NonceIterator.take: the n nonces from position x on.
Take(node, nodes, group, groups, x, n) ==
    [i \in 1..n |-> Nonce(node, nodes, group, groups, x + i - 1)]
=============================================================================
