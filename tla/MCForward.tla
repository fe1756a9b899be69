------------------------------ MODULE MCForward ------------------------------
(***************************************************************************)
(* Deployments and requests for TLC.                                       *)
(***************************************************************************)
EXTENDS WorkerForward

Vec(kind, h, n) == [kind |-> kind, vec |-> [hash |-> h, row |-> n, good |-> TRUE,
                                           by |-> h, pick |-> n]]

Ask(hash, nonces, batch, validation) ==
    [hash |-> hash, nonces |-> nonces, batch |-> batch, len |-> 3, validation |-> validation]

Fair(hash, nonces, batch) ==
    Ask(hash, nonces, batch, [n \in Range(nonces) |-> Vec("vector", hash, n)])

\* Two chunks with a nonce in both; nonce 2 is a lie, nonce 3 malformed, nonce 4 empty.
Mixed(hash) ==
    Ask(hash, <<2, 1, 2, 3, 4>>, 3,
        [n \in 1..4 |-> CASE n = 1 -> Vec("vector", hash, n)
                          [] n = 2 -> Vec("vector", "other", n)
                          [] n = 3 -> Vec("malformed", hash, n)
                          [] n = 4 -> Vec("empty", hash, n)])

\* The same, but what was received for nonce 3 cannot be decoded.
Garbled(hash) ==
    [Mixed(hash) EXCEPT !.nonces = <<1, 2, 3>>, !.batch = 2, !.validation[3].kind = "undecodable"]

\* A group whose kernel blocks are half a pool block, a group with small pool blocks.
Split == {[g |-> 1, m |-> 2]}
Several == {[g |-> 1, m |-> 2], [g |-> 1, m |-> 1]}

Tight == {[scratch |-> TRUE, elems |-> 3]}
Packed == {[scratch |-> FALSE, elems |-> 20]}

Deployment(tp, pp, eager, pool, requests, calls, faults) ==
    [tp |-> tp, pp |-> pp, dp |-> 1, eager |-> eager, moe |-> TRUE,
     groups |-> [p \in 1..pp |-> IF p = 1 THEN Several ELSE Split],
     pool |-> [p \in 1..pp |-> pool],
     requests |-> requests, calls |-> calls, faults |-> faults,
     frees |-> {<<5, 2, 9, 1, 7, 3>>}]

Ones == {Fair("h", <<1>>, 1), Fair("k", <<2, 3>>, 2)}

Twins == {Fair("h", <<1>>, 1), Fair("h", <<2>>, 1)}

One == {Deployment(1, 1, FALSE, Packed, Ones, 3, 2),
        Deployment(1, 1, FALSE, Tight, {Fair("h", <<1>>, 1), Mixed("h"), Garbled("h")}, 2, 1),
        [Deployment(1, 1, FALSE, Packed, {Mixed("k"), Garbled("k")}, 2, 2)
            EXCEPT !.dp = 2, !.moe = FALSE]}
TwoWide == {Deployment(2, 1, FALSE, Packed, Ones, 2, 2)}
TwoDeep == {Deployment(1, 2, TRUE, Packed, Twins \union Ones, 2, 1),
            Deployment(1, 2, FALSE, Packed, Twins, 3, 1)}
Four == {Deployment(2, 2, TRUE, Packed, Ones, 1, 1)}

Deployments == One \union TwoWide \union TwoDeep \union Four
=============================================================================
