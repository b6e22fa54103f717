--------------------------- MODULE ExecutionProps ---------------------------
(* What block execution promises. *)
EXTENDS Execution, FiniteSetsExt

\* Every variable has its type; no balance, gas or count is ever negative.
ExecutionTypeOK ==
    /\ pc \in {"pick", "check", "buy", "finish", "commit", "syntactic", "predicates",
               "process", "processed", "done"}
    /\ time \in ParentTime..MaxTime /\ ctx \in 0..MaxTime
    /\ verdict \in {"none", "unbuilt", "ok", "rejected"}
    /\ env.st.bal \in [Accounts -> Nat] /\ env.st.nonce \in [Accounts -> Nat]
    /\ env.st.allowed \subseteq Accounts
    /\ env.pool \in 0..GasLimit /\ env.used \in 0..GasLimit /\ env.sold \in 0..GasLimit
    /\ \A i \in DOMAIN env.receipts : env.receipts[i] >= TxGas
    /\ context \in BOOLEAN /\ raced \in BOOLEAN /\ elsewhere \in 0..MaxElsewhere

\* the transaction whose gas is sold; a verifier that turns it down stops there
AtHand == IF pc \in {"processed", "done"} THEN block.txs[Len(txs) + 1] ELSE tx

Coins(st) == MapThenSumSet(LAMBDA x : st.bal[x], Accounts)

\* No coin and no gas appears or disappears, and no balance goes below zero: at
\* every step of building and of verifying, the balances and the gas sold but not
\* yet paid out add up to what the parent held, and the gas used, left in the
\* pool and sold to the gas limit, through reverted calls, calls out of gas and
\* transactions given up half-way.
NothingIsLost ==
    /\ ExecutionTypeOK
    /\ Coins(env.st) + (IF env.sold = 0 THEN 0 ELSE env.sold * GasPrice(AtHand, BaseFee))
           = Coins(Parent)
    /\ env.pool + env.used + env.sold = GasLimit

\* The transactions of a block continue, sender by sender and without a gap,
\* the nonces of the parent, and the state has counted each of them, though the
\* pool that offered them may be ahead of the parent or behind it.
NoncesFollow ==
    \A a \in Accounts :
        LET mine == SelectSeq(txs, LAMBDA t : t.from = a)
        IN /\ \A i \in DOMAIN mine : mine[i].nonce = Parent.nonce[a] + i - 1
           /\ env.st.nonce[a] = Parent.nonce[a] + Len(mine)

\* The books of a block balance: coins and gas, and the nonces.
BooksBalance == NothingIsLost /\ NoncesFollow

\* A block that was built is turned down only if it is empty, or if a lookup of
\* the rules, the builder's or the verifier's, answered for another block:
\* otherwise the transactions the worker tried and dropped leave no trace in
\* state, gas, receipts or predicate results.
ReplayAgrees == verdict = "rejected" => raced \/ block.txs = <<>>

\* Building ends, and so does verifying: every turn of commitTransactions takes
\* a transaction off its list.
EveryBlockIsJudged == <>[](pc = "done")

\* A block that was built and is not empty is never turned down, whatever runs
\* beside it: "GetRulesExtra returns the RulesExtra for the given Rules", as its
\* comment says, and so the worker and every replay use the block's own.
EveryReplayAgrees == verdict = "rejected" => block.txs = <<>>
=============================================================================
