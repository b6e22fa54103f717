---------------------------- MODULE FinalityLog ----------------------------
(***************************************************************************)
(* What the chain promises about finality, without trees, queues, tries or *)
(* files: blocks are accepted one child at a time, never against what the  *)
(* network decided; they are processed in order, behind acceptance; what a *)
(* restart comes back to is the last block that was made durable.          *)
(***************************************************************************)
EXTENDS BlockTree

VARIABLES
    accepted,   \* the last accepted block
    processed,  \* the last accepted block whose effects are published
    durable,    \* the accepted block a restart resumes from
    decided     \* every block ever accepted

vars == <<accepted, processed, durable, decided>>

Init ==
    /\ accepted = Genesis /\ processed = Genesis /\ durable = Genesis
    /\ decided = {}

\* The next block is accepted once the previous one is durable.
Finalize(b) ==
    /\ durable = accepted
    /\ Parent(b) = accepted
    /\ \A c \in decided : Height[c] = Height[b] => c = b
    /\ accepted' = b
    /\ decided' = decided \cup {b}
    /\ UNCHANGED <<processed, durable>>

Persist ==
    /\ durable' = accepted
    /\ UNCHANGED <<accepted, processed, decided>>

\* Processing follows the accepted chain without skipping a block.
Process ==
    /\ Height[processed] < Height[accepted]
    /\ processed' = Path[accepted][Height[processed] + 1]
    /\ UNCHANGED <<accepted, durable, decided>>

\* A restart forgets at most one accepted block and catches up with processing.
Restart ==
    /\ accepted' = durable /\ processed' = durable
    /\ UNCHANGED <<durable, decided>>

Next == (\E b \in Block : Finalize(b)) \/ Persist \/ Process \/ Restart

Spec == Init /\ [][Next]_vars

----------------------------------------------------------------------------
\* Acceptance never forks: the accepted chain holds every block ever accepted up
\* to its height, and processing and the durable block trail it.
OneChain ==
    /\ \A b \in decided : Height[b] <= Height[accepted] => OnPath(b, accepted)
    /\ OnPath(durable, accepted)
    /\ OnPath(processed, accepted)
=============================================================================
