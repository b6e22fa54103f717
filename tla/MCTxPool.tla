------------------------------ MODULE MCTxPool ------------------------------
(* Two accounts, three nonces for one and one for the other, in a pool of  *)
(* three slots.  Two blocks compete on genesis: one includes the first     *)
(* account's first transaction and bars the second account, the other      *)
(* lowers the first account's balance and raises the minimum fee.          *)
EXTENDS TxPoolProps

MCTx(a, n, p) == [from |-> a, nonce |-> n, price |-> p]

MCTxs == {MCTx("a", 0, 1), MCTx("a", 0, 2), MCTx("a", 1, 1), MCTx("a", 2, 1),
          MCTx("b", 0, 2)}

MCBlocks == {"g", "x", "y"}

MCParent == [b \in MCBlocks |-> "g"]

MCBlockTxs ==
    [b \in MCBlocks |->
        CASE b = "x" -> <<MCTx("a", 0, 1)>>
          [] b = "y" -> <<MCTx("b", 0, 2)>>
          [] OTHER -> <<>>]

MCBalance == [b \in MCBlocks |->
    [a \in {"a", "b"} |-> IF b = "y" /\ a = "a" THEN 1 ELSE 4]]

MCMinFee == [b \in MCBlocks |-> IF b = "y" THEN 2 ELSE 1]

MCAllowed == [b \in MCBlocks |-> IF b = "x" THEN {"a"} ELSE {"a", "b"}]
=============================================================================
