---------------------------- MODULE MiningStream ----------------------------
(***************************************************************************)
(* The way of a mining round's artifacts to the orchestrator: the loop     *)
(* that takes nonces and repeats a batch that timed out (_generation_loop, *)
(* poc/routes.py), and the sender that buffers the artifacts, posts them   *)
(* and repeats a post that was not answered (CallbackSender,               *)
(* poc/callbacks.py).  An artifact stands for its nonce.                   *)
(*                                                                         *)
(* Posts, forwards and sleeps take any time; the interval between two      *)
(* posts, which only delays them, is left out.                             *)
(***************************************************************************)
EXTENDS NoncePartition, SequencesExt, FiniteSets

CONSTANTS
    Node, Nodes, Group, Groups,     \* the share of this miner
    BatchSize,
    MaxArtifacts,                   \* POC_CALLBACK_MAX_ARTIFACTS
    MaxRetries,                     \* POC_CALLBACK_MAX_RETRIES
    MaxTaken                        \* bound: nonces taken in a run

ASSUME ShareAssumption ==
    /\ Nodes \in Nat \ {0} /\ Node \in 0..Nodes-1
    /\ Groups \in Nat \ {0} /\ Group \in 0..Groups-1
ASSUME StreamAssumption ==
    {BatchSize, MaxArtifacts, MaxRetries, MaxTaken} \subseteq Nat \ {0}

VARIABLES
    taken,      \* _current_x
    pending,    \* pending_nonces
    asked,      \* the nonces of the forward in progress
    gen,        \* the generation task
    stopping,   \* the stop event, set by /stop
    buffer,     \* _buffer
    payload,    \* the artifacts of _pending_payload
    attempt,    \* retry_attempt
    sender,     \* the callback task
    computed,   \* history: nonces that came back from a forward, in order
    mined,      \* history: those of them with an artifact
    received,   \* history: the posts that reached the orchestrator, in order
    overflowed, \* history: artifacts dropped at the cap
    abandoned   \* history: artifacts dropped after the last attempt or by /stop

genVars == <<taken, pending, asked, gen>>
sendVars == <<payload, attempt, sender, received>>
streamVars == <<genVars, stopping, buffer, sendVars, computed, mined, overflowed, abandoned>>

StreamInit ==
    /\ taken = 0 /\ pending = <<>> /\ asked = <<>> /\ gen = "loop"
    /\ stopping = FALSE
    /\ buffer = <<>> /\ payload = <<>> /\ attempt = 0 /\ sender = "loop"
    /\ computed = <<>> /\ mined = {} /\ received = <<>>
    /\ overflowed = {} /\ abandoned = {}

----------------------------------------------------------------------------
(* The generation loop.                                                    *)

Asks ==
    /\ gen = "loop" /\ ~stopping
    /\ IF pending # <<>>
       THEN asked' = pending /\ UNCHANGED taken
       ELSE /\ taken + BatchSize <= MaxTaken
            /\ asked' = Take(Node, Nodes, Group, Groups, taken, BatchSize)
            /\ taken' = taken + BatchSize
    /\ gen' = "forward"
    /\ UNCHANGED <<pending, stopping, buffer, sendVars, computed, mined, overflowed, abandoned>>

\* Mutant: no cap.
BugKept(artifacts) == artifacts

\* add_artifacts: the oldest go when there are too many.
Kept(artifacts) ==
    SubSeq(artifacts, 1 + Len(artifacts) - Min({MaxArtifacts, Len(artifacts)}), Len(artifacts))

\* The rows of a forward that are left, in their order.
Rows(nonces, lost) ==
    LET F[i \in 0..Len(nonces)] ==
            IF i = 0 THEN <<>>
            ELSE IF nonces[i] \in lost THEN F[i-1] ELSE Append(F[i-1], nonces[i])
    IN  F[Len(nonces)]

\* A forward returns; some of its rows may have been lost.
Returns ==
    /\ gen = "forward" /\ ~stopping
    /\ \E lost \in SUBSET Range(asked) :
          LET all == buffer \o Rows(asked, lost) IN
          /\ buffer' = Kept(all)
          /\ overflowed' = overflowed \union (Range(all) \ Range(Kept(all)))
          /\ mined' = mined \union (Range(asked) \ lost)
    /\ computed' = computed \o asked
    /\ pending' = <<>> /\ asked' = <<>> /\ gen' = "loop"
    /\ UNCHANGED <<taken, stopping, sendVars, abandoned>>

\* Mutant: the nonces that timed out are not kept.
BugTimesOut ==
    /\ gen = "forward" /\ ~stopping
    /\ asked' = <<>> /\ gen' = "loop"
    /\ UNCHANGED <<taken, pending, stopping, buffer, sendVars, computed, mined, overflowed,
                   abandoned>>

TimesOut ==
    /\ gen = "forward" /\ ~stopping
    /\ pending' = asked /\ asked' = <<>> /\ gen' = "loop"
    /\ UNCHANGED <<taken, stopping, buffer, sendVars, computed, mined, overflowed, abandoned>>

Crashes ==
    /\ gen = "forward" /\ ~stopping
    /\ asked' = <<>> /\ gen' = "crashed"
    /\ UNCHANGED <<taken, pending, stopping, buffer, sendVars, computed, mined, overflowed,
                   abandoned>>

----------------------------------------------------------------------------
(* The sender.                                                             *)

\* Mutant: the payload is made anew although one is being retried.
BugPosts ==
    /\ sender = "loop"
    /\ buffer # <<>> \/ payload # <<>>
    /\ IF buffer # <<>> THEN payload' = buffer /\ buffer' = <<>> ELSE UNCHANGED <<buffer, payload>>
    /\ attempt' = attempt + 1 /\ sender' = "posting"
    /\ UNCHANGED <<genVars, stopping, received, computed, mined, overflowed, abandoned>>

\* A new payload takes the whole buffer, an old one goes out again.  The stop event was
\* tested before the sleep that precedes the post, so one more may go out after /stop.
Posts ==
    /\ sender = "loop"
    /\ buffer # <<>> \/ payload # <<>>
    /\ IF payload = <<>>
       THEN payload' = buffer /\ buffer' = <<>> /\ attempt' = 1
       ELSE attempt' = attempt + 1 /\ UNCHANGED <<buffer, payload>>
    /\ sender' = "posting"
    /\ UNCHANGED <<genVars, stopping, received, computed, mined, overflowed, abandoned>>

\* Mutant: after a failure the artifacts go back, behind the newer ones.
BugAnswered ==
    /\ sender = "posting"
    /\ \E arrived, success \in BOOLEAN :
          /\ success => arrived
          /\ received' = IF arrived THEN Append(received, payload) ELSE received
          /\ buffer' = IF success THEN buffer ELSE Kept(buffer \o payload)
    /\ payload' = <<>> /\ attempt' = 0 /\ sender' = IF stopping THEN "done" ELSE "loop"
    /\ UNCHANGED <<genVars, stopping, computed, mined, overflowed, abandoned>>

\* The post reaches the orchestrator or does not, and its answer may be lost.  After a
\* failure the loop goes on, later, until the attempts are used up.
Answered ==
    /\ sender = "posting"
    /\ \E arrived, success \in BOOLEAN :
          LET done == success \/ attempt >= MaxRetries IN
          /\ success => arrived
          /\ received' = IF arrived THEN Append(received, payload) ELSE received
          /\ payload' = IF done THEN <<>> ELSE payload
          /\ attempt' = IF done THEN 0 ELSE attempt
          /\ abandoned' = IF done /\ ~success THEN abandoned \union Range(payload) ELSE abandoned
          /\ sender' = IF ~done THEN "backoff" ELSE IF stopping THEN "done" ELSE "loop"
    /\ UNCHANGED <<genVars, stopping, buffer, computed, mined, overflowed>>

\* The sleep after a failure is over, or cancelled.
WakesUp ==
    /\ sender = "backoff"
    /\ sender' = IF stopping THEN "done" ELSE "loop"
    /\ UNCHANGED <<genVars, stopping, buffer, payload, attempt, received, computed, mined,
                   overflowed, abandoned>>

\* Mutant: the loop also ends with the generation that feeds it.
BugSenderExits ==
    /\ sender = "loop" /\ (stopping \/ gen = "crashed")
    /\ sender' = "done"
    /\ UNCHANGED <<genVars, stopping, buffer, payload, attempt, received, computed, mined,
                   overflowed, abandoned>>

\* The loop finds the stop event set, or its sleep is cancelled.
SenderExits ==
    /\ sender = "loop" /\ stopping
    /\ sender' = "done"
    /\ UNCHANGED <<genVars, stopping, buffer, payload, attempt, received, computed, mined,
                   overflowed, abandoned>>

----------------------------------------------------------------------------
(* /stop, _cancel_poc_tasks.                                               *)

\* The event is set and the task cancelled, which it notices at its next await.
Stop ==
    /\ ~stopping
    /\ stopping' = TRUE
    /\ UNCHANGED <<genVars, buffer, sendVars, computed, mined, overflowed, abandoned>>

GenCancelled ==
    /\ stopping /\ gen \in {"loop", "forward"}
    /\ gen' = "cancelled" /\ asked' = <<>>
    /\ UNCHANGED <<taken, pending, stopping, buffer, sendVars, computed, mined, overflowed,
                   abandoned>>

\* In the middle of a post: whether it arrives is anybody's guess.
SenderCancelled ==
    /\ gen = "cancelled" /\ sender = "posting"
    /\ \E arrived \in BOOLEAN :
          received' = IF arrived THEN Append(received, payload) ELSE received
    /\ sender' = "done"
    /\ UNCHANGED <<genVars, stopping, buffer, payload, attempt, computed, mined, overflowed,
                   abandoned>>

\* After a crash the await of the task raises instead, and nobody gets here.
Clears ==
    /\ gen = "cancelled" /\ sender = "done" /\ buffer \o payload # <<>>
    /\ abandoned' = abandoned \union Range(buffer) \union Range(payload)
    /\ buffer' = <<>> /\ payload' = <<>>
    /\ UNCHANGED <<genVars, stopping, attempt, sender, received, computed, mined, overflowed>>

----------------------------------------------------------------------------
GenerationStep == Asks \/ Returns \/ TimesOut \/ Crashes
SenderStep == Posts \/ Answered \/ WakesUp \/ SenderExits \/ SenderCancelled
StopStep == GenCancelled \/ Clears
StreamNext == GenerationStep \/ SenderStep \/ Stop \/ StopStep

\* A task that can go on does: posts and forwards time out if they are not answered.
StreamFairness == WF_streamVars(SenderStep) /\ WF_streamVars(StopStep)

StreamSpec == StreamInit /\ [][StreamNext]_streamVars /\ StreamFairness

----------------------------------------------------------------------------
(* Properties.                                                             *)

\* Type correctness; what is held never exceeds twice the cap, a payload in retry not
\* counting towards it (callbacks.py 54).
StreamTypeOK ==
    /\ taken \in 0..MaxTaken
    /\ gen \in {"loop", "forward", "crashed", "cancelled"}
    /\ sender \in {"loop", "posting", "backoff", "done"}
    /\ stopping \in BOOLEAN /\ attempt \in 0..MaxRetries
    /\ Len(asked) \in {0, BatchSize} /\ Len(pending) \in {0, BatchSize}
    /\ Len(buffer) <= MaxArtifacts /\ Len(payload) <= MaxArtifacts

\* Timeouts neither skip nor repeat a nonce: what has been computed is the beginning of
\* this miner's share, and what is missing up to the iterator is being retried
\* (poc/routes.py 400, 418).
NoNonceSkipped ==
    /\ computed = Take(Node, Nodes, Group, Groups, 0, Len(computed))
    /\ gen # "crashed" /\ ~stopping =>
          Len(computed) + (IF asked = <<>> THEN Len(pending) ELSE Len(asked)) = taken

\* What has reached the orchestrator.
Arrived == UNION {Range(received[i]) : i \in DOMAIN received}

\* Only the oldest fall out: MaxArtifacts newer ones were mined by then (callbacks.py 54).
OldestOverflow ==
    \A n \in overflowed : Cardinality({k \in mined : k > n}) >= MaxArtifacts

\* Artifacts do not vanish: one that has been mined is still held, has reached the
\* orchestrator, fell out at the cap, or was given up; and one that has been posted is
\* not in the buffer again.  What falls out is the oldest.
ArtifactsAccounted ==
    /\ mined = Range(buffer) \union Range(payload) \union Arrived \union overflowed
               \union abandoned
    /\ Range(buffer) \intersect Arrived = {}
    /\ OldestOverflow

\* The orchestrator sees artifacts in the order of their nonces; a lost answer repeats a
\* whole post, at once and at most MaxRetries times, stop or no stop (callbacks.py 93-107).
PostsOrdered ==
    /\ \A i, j \in DOMAIN received : i < j =>
          \/ received[i] = received[j]
          \/ \A m \in Range(received[i]), n \in Range(received[j]) : m < n
    /\ \A i \in DOMAIN received :
          Cardinality({j \in DOMAIN received : received[j] = received[i]}) <= MaxRetries

\* Whatever is held is sent, given up or cleared: the buffer is always taken as a whole,
\* and a payload leaves by an answer, by its last attempt (callbacks.py 101-107) or by
\* clear(); also when generation has crashed, unless a /stop met the crash and left it.
LeftBehind == stopping /\ gen = "crashed"
StreamFlushed ==
    /\ buffer # <<>> ~> (buffer = <<>> \/ LeftBehind)
    /\ payload # <<>> ~> (payload = <<>> \/ LeftBehind)

\* What callbacks.py promises in lines 1 and 63 ("retry-until-stop"): artifacts are given up
\* only when a /stop has been asked for.  Lines 101-107 drop a payload after its last
\* attempt in the middle of a round.
RetriesUntilStop == abandoned # {} => stopping
=============================================================================
