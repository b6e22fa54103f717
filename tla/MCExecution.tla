---------------------------- MODULE MCExecution ----------------------------
(* Small instances of Execution: two senders and a coinbase. *)
EXTENDS ExecutionProps, TLC

CONSTANTS a, b, c

Tx(from, nonce, gas, feeCap, tip) ==
    [from |-> from, nonce |-> nonce, gas |-> gas, feeCap |-> feeCap, tip |-> tip,
     value |-> 1, to |-> b, create |-> FALSE, list |-> "none", burn |-> 0, revert |-> FALSE,
     deny |-> {}, size |-> 1]

\* sender a: plain, with a good or a bad predicate, creating, reverting, out of
\* gas, cheap, and one that takes b off the allow list
MCTxsA == {
    Tx(a, 0, 2, 2, 1),
    [Tx(a, 0, 3, 2, 1) EXCEPT !.list = "good"],
    [Tx(a, 0, 2, 2, 1) EXCEPT !.list = "bad"],
    [Tx(a, 0, 2, 2, 0) EXCEPT !.create = TRUE, !.revert = TRUE],
    [Tx(a, 0, 2, 2, 0) EXCEPT !.burn = 2],
    [Tx(a, 0, 2, 2, 1) EXCEPT !.deny = {b}, !.value = 0]}
MCTxsA2 == {
    [Tx(a, 1, 3, 2, 1) EXCEPT !.list = "bad"],
    [Tx(a, 1, 1, 0, 0) EXCEPT !.to = c],
    [Tx(a, 1, 4, 3, 1) EXCEPT !.to = a, !.size = 2]}

\* sender b is ahead of the pool: its first transaction is in the parent
MCTxsB == {
    <<Tx(b, 0, 1, 1, 0), [Tx(b, 1, 3, 2, 2) EXCEPT !.list = "good", !.to = a]>>,
    <<[Tx(b, 1, 2, 2, 2) EXCEPT !.to = a]>>,
    <<[Tx(b, 1, 3, 3, 1) EXCEPT !.to = a, !.list = "good", !.value = 3]>>,
    <<Tx(b, 2, 1, 1, 0)>>}

MCPendings ==
    {[x \in Accounts |-> CASE x = a -> <<t, u>> [] x = b -> v [] OTHER -> <<>>] :
        t \in MCTxsA, u \in MCTxsA2, v \in MCTxsB}

\* a block that leaves its parent longer costs less
MCBlockGasCost == [t \in 0..MaxTime |-> IF t < MaxTime THEN 1 ELSE 0]

MCParent == [bal |-> (a :> 12 @@ b :> 9 @@ c :> 0), nonce |-> (a :> 0 @@ b :> 1 @@ c :> 0),
             allowed |-> {a, b}]
=============================================================================
