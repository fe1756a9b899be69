------------------------------- MODULE Verdict -------------------------------
(***************************************************************************)
(* What becomes of the artifacts of a forward: the filter of lost rows     *)
(* (poc_model_runner.py), the union over the ranks' answers                *)
(* (_execute_poc_forward_rpc) and the comparison with the artifacts under  *)
(* validation (validation.py, data.py).                                    *)
(*                                                                         *)
(* A vector is whatever it was computed from; two of them are within the   *)
(* distance threshold when they are equal.  A received artifact is a       *)
(* record of a kind ("vector", "malformed" for a wrong shape or a value    *)
(* that is not finite, "empty" for an empty string, "undecodable" for one  *)
(* that is not padded as base64 is or not a whole number of FP16 words)    *)
(* and a vector.                                                           *)
(***************************************************************************)
EXTENDS Naturals, SequencesExt

\* The elements of s at the positions in S, in order.
At(s, S) ==
    LET F[i \in 0..Len(s)] ==
            IF i = 0 THEN <<>> ELSE IF i \in S THEN Append(F[i-1], s[i]) ELSE F[i-1]
    IN  F[Len(s)]

\* execute_poc_forward: rows lost in the hidden states, then, in what is left, rows
\* lost in the conversion to FP16.  Nonces and rows are filtered alike, twice.
\* What the rows have in common is in like.
Artifacts(nonces, rows, early, late, like) ==
    LET clean == At(nonces, DOMAIN nonces \ early)
        hidden == At(rows, DOMAIN rows \ early)
        out == [i \in DOMAIN clean |->
                   [nonce |-> clean[i],
                    vec |-> [like EXCEPT !.row = hidden[i], !.pick = clean[i]]]]
    IN  At(out, DOMAIN out \ late)

\* _execute_poc_forward_rpc: all ranks' artifacts in rank order, the first of each nonce.
Union(answers) ==
    LET all == FlattenSeq(answers) IN
    At(all, {i \in DOMAIN all : \A j \in 1..i-1 : all[j].nonce # all[i].nonce})

\* decode_vector raises on a received artifact: the nonces that were not computed are
\* never looked at.
Undecodable(computed, validation) ==
    \E i \in DOMAIN computed : validation[computed[i].nonce].kind = "undecodable"

BugDiffers(artifact, received) == received.kind = "vector" /\ artifact.vec # received.vec

\* validate_artifacts, for one computed artifact whose received one can be decoded.
Differs(artifact, received) ==
    \/ received.kind = "malformed"
    \/ received.kind = "vector" /\ artifact.vec # received.vec

\* validate_artifacts, when nothing raises: the nonces that count as mismatches, once for
\* each artifact.
Mismatches(computed, validation) ==
    LET bad == At(computed, {i \in DOMAIN computed :
                                 Differs(computed[i], validation[computed[i].nonce])})
    IN  [i \in DOMAIN bad |-> bad[i].nonce]

\* fraud_test: the binomial tail is below the threshold from some count on.
Fraud(mismatch, total, tolerated) == total # 0 /\ mismatch > tolerated
=============================================================================
