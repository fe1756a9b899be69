------------------------------ MODULE MCMining ------------------------------
(***************************************************************************)
(* MiningRound for TLC, from two sides: operators whose calls may overlap  *)
(* with one chat, or none where the engine client has no                   *)
(* reset_prefix_cache, and one operator with several chats, in any case.   *)
(***************************************************************************)
EXTENDS MiningRound

CONSTANTS
    Operator,   \* the handler that takes a call if it is free
    Chat        \* the chat that is admitted beside several operators

VARIABLE side

Others == Handlers \ {Operator}

MCInit == side \in {"operators", "chats"} /\ Init

\* Handlers are interchangeable: another one takes a call while Operator is busy.
Operators(A) ==
    /\ side = "operators" /\ A
    /\ pc[Operator] = "idle" => \A h \in Others : pc[h] = "idle" => pc'[h] = "idle"
    /\ \A c \in Chats : chat'[c] = "new" \/ (c = Chat /\ resettable)
    /\ UNCHANGED side

Several(A) ==
    /\ side = "chats" /\ A
    /\ ~overlapped' /\ \A h \in Others : pc'[h] = "idle"
    /\ UNCHANGED side

MCNext == Operators(Next) \/ Several(Next)

\* The fairness of FairSpec.
MCSpec == MCInit /\ [][MCNext]_<<side, vars>> /\ Fairness
=============================================================================
