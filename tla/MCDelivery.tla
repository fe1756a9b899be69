----------------------------- MODULE MCDelivery -----------------------------
(***************************************************************************)
(* MiningStream and JobCallbacks for TLC.  They share no state: a          *)
(* behaviour takes one of the two paths, the other side stays where it     *)
(* began.                                                                  *)
(***************************************************************************)
EXTENDS MiningStream, JobCallbacks

VARIABLE path

vars == <<path, streamVars, jobVars>>

Init == path \in {"mining", "jobs"} /\ StreamInit /\ JobInit

Mining(A) == path = "mining" /\ A /\ UNCHANGED <<path, jobVars>>
Jobs(A) == path = "jobs" /\ A /\ UNCHANGED <<path, streamVars>>

Next == Mining(StreamNext) \/ Jobs(JobNext)

\* StreamFairness and JobFairness, for the path that is taken.
Spec ==
    /\ Init /\ [][Next]_vars
    /\ WF_vars(Mining(SenderStep)) /\ WF_vars(Mining(StopStep))
    /\ WF_vars(Jobs(WorkerStep)) /\ WF_vars(Jobs(LoopStep))
    /\ \A p \in Payloads : WF_vars(Jobs(TaskStep(p)))
    /\ \A s \in Stops : WF_vars(Jobs(StopGoesOn(s)))
=============================================================================
