-------------------------- MODULE StateTransition --------------------------
(* One transaction against a state, as core.StateTransition applies it: the  *)
(* checks, the purchase of gas, the call, the refund and the fee.  The state *)
(* is a record with bal and nonce, functions of the accounts, and allowed,   *)
(* the accounts on the transaction allow list.  A transaction is a record:   *)
(*   from, nonce, gas, feeCap, tip, value, to    as in the message           *)
(*   create     it creates a contract (and carries data)                     *)
(*   list       "none", or its access list names the precompile that checks  *)
(*              predicates: "good" or "bad", as the predicate verifies       *)
(*   burn, revert, deny   what the call does: gas it burns, whether it       *)
(*              reverts, the accounts it takes off the allow list            *)
(*   size       its length in bytes                                          *)
(* Prices are small numbers; nothing here overflows 256 bits.                *)
EXTENDS Integers, FiniteSets, Sequences

CONSTANTS
    Accounts,
    TxGas,           \* gas every transaction pays
    InitCodeGas,     \* more for init code, from Durango on
    ListGas,         \* an access tuple
    PredicateGas,    \* an access tuple that carries a predicate
    DurangoTime,
    PredicateTime,   \* when the precompile that checks predicates is enabled
    AllowListTime    \* when the transaction allow list is enabled

\* warp's Config.Verify refuses an earlier activation
ASSUME StateTransitionAssumption == DurangoTime <= PredicateTime /\ TxGas > 0

(***************************************************************************)
(* The rules at a timestamp, as far as transactions depend on them          *)
(***************************************************************************)
RulesAt(t) == [durango |-> DurangoTime <= t, predicates |-> PredicateTime <= t]

accessListGas(tx, rules) ==
    IF tx.list = "none" THEN 0
    ELSE IF rules.predicates THEN PredicateGas ELSE ListGas

IntrinsicGas(tx, rules) ==
    TxGas + (IF tx.create /\ rules.durango THEN InitCodeGas ELSE 0) + accessListGas(tx, rules)

(***************************************************************************)
(* The transition.  An env is [st, pool, used, sold, receipts]: the state,   *)
(* the block's gas pool, the gas used so far, the gas sold to the            *)
(* transaction at hand (0 between transactions), and what each transaction   *)
(* used.                                                                     *)
(***************************************************************************)
\* TransactionToMessage: the effective price
GasPrice(tx, baseFee) ==
    IF tx.tip + baseFee > tx.feeCap THEN tx.feeCap ELSE tx.tip + baseFee

MutPreCheck(env, tx, time, baseFee) ==
    IF env.st.nonce[tx.from] > tx.nonce THEN "low"
    ELSE IF /\ AllowListTime <= time => tx.from \in env.st.allowed
            /\ baseFee <= tx.feeCap
            /\ tx.gas * tx.feeCap + tx.value <= env.st.bal[tx.from]
            /\ tx.gas <= env.pool
    THEN "ok" ELSE "err"

\* preCheck and buyGas: "ok", or why not.  Only "low" is told apart by callers.
PreCheck(env, tx, time, baseFee) ==
    IF env.st.nonce[tx.from] > tx.nonce THEN "low"
    ELSE IF /\ env.st.nonce[tx.from] = tx.nonce
            /\ AllowListTime <= time => tx.from \in env.st.allowed
            /\ tx.tip <= tx.feeCap
            /\ baseFee <= tx.feeCap
            /\ tx.gas * tx.feeCap + tx.value <= env.st.bal[tx.from]
            /\ tx.gas <= env.pool
    THEN "ok" ELSE "err"

BuyGas(env, tx, baseFee) ==
    [env EXCEPT !.pool = @ - tx.gas,
                !.sold = tx.gas,
                !.st.bal[tx.from] = @ - tx.gas * GasPrice(tx, baseFee)]

\* The call or the creation, with what is left of the gas: its value moves and
\* its effects stay only if it neither runs out of gas nor reverts.
Call(st, tx, gas) ==
    IF tx.burn > gas THEN [st |-> st, left |-> 0]
    ELSE IF tx.revert THEN [st |-> st, left |-> gas - tx.burn]
    ELSE [st |-> [st EXCEPT !.bal = [a \in Accounts |->
                                        @[a] - (IF a = tx.from THEN tx.value ELSE 0)
                                             + (IF a = tx.to THEN tx.value ELSE 0)],
                            !.allowed = @ \ tx.deny],
          left |-> gas - tx.burn]

\* the checks that follow the purchase
Covered(env, tx, rules) ==
    /\ IntrinsicGas(tx, rules) <= env.sold
    /\ tx.value <= env.st.bal[tx.from]

MutTransitionDb(env, tx, rules, baseFee, coinbase) ==
    LET price == GasPrice(tx, baseFee)
        st == [env.st EXCEPT !.nonce[tx.from] = @ + 1]
        call == Call(st, tx, env.sold - IntrinsicGas(tx, rules))
        used == env.sold - call.left
    IN [env EXCEPT !.st = [call.st EXCEPT !.bal = [a \in Accounts |->
                              @[a] + (IF a = tx.from THEN call.left * price ELSE 0)
                                   + (IF a = coinbase THEN env.sold * price ELSE 0)]],
                   !.pool = @ + call.left,
                   !.used = @ + used,
                   !.receipts = Append(@, used),
                   !.sold = 0]

\* The rest of TransitionDb: the nonce, the call, refundGas (no refund counter
\* under the EVM rules, which always hold) and the fee, all of it to the
\* coinbase; then applyTransaction's count of the gas.
TransitionDb(env, tx, rules, baseFee, coinbase) ==
    LET price == GasPrice(tx, baseFee)
        st == [env.st EXCEPT !.nonce[tx.from] = @ + 1]
        call == Call(st, tx, env.sold - IntrinsicGas(tx, rules))
        used == env.sold - call.left
    IN [env EXCEPT !.st = [call.st EXCEPT !.bal = [a \in Accounts |->
                              @[a] + (IF a = tx.from THEN call.left * price ELSE 0)
                                   + (IF a = coinbase THEN used * price ELSE 0)]],
                   !.pool = @ + call.left,
                   !.used = @ + used,
                   !.receipts = Append(@, used),
                   !.sold = 0]

\* CheckPredicates: the predicate's outcome, "none" when there is nothing to
\* check, "err" when the transaction is refused.
CheckPredicates(tx, rules, context) ==
    IF tx.gas < IntrinsicGas(tx, rules) THEN "err"
    ELSE IF ~rules.predicates \/ tx.list = "none" THEN "none"
    ELSE IF context THEN tx.list ELSE "err"
=============================================================================
