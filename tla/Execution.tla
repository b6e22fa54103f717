----------------------------- MODULE Execution -----------------------------
(* A block from the pool's pending transactions to its verdict: the worker   *)
(* picks and executes transactions (miner/worker.go, miner/ordering.go), the *)
(* engine assembles the block, and a node verifies it by executing it again. *)
(*                                                                           *)
(* The chain configuration hands out Rules by value; what Lux adds to them   *)
(* is looked up with GetRulesExtra, which answers for the timestamp of the   *)
(* last call to Rules anywhere in the process.  ctx is that timestamp, and   *)
(* Elsewhere an RPC call or a pool check that asks for the rules of another  *)
(* block.  An action that ends just before a call to Rules makes that call,  *)
(* so that Elsewhere can come between it and the lookup.                     *)
EXTENDS StateTransition, Sequences, SequencesExt

CONSTANTS
    Pendings,        \* what the pool may offer: functions from accounts to sequences
    Parent,          \* the parent's state
    ParentTime,
    MaxTime,         \* bound: the last timestamp of a block
    BaseFee,
    BlockGasCost,    \* the block gas cost the rules ask for, by timestamp
    GasLimit,
    TargetTxsSize,
    MaxResults,      \* how many predicate results fit the header
    Coinbase,
    MaxElsewhere     \* bound: calls to Rules elsewhere

VARIABLES
    pc,          \* the next step
    time,        \* the block's timestamp
    context,     \* the proposer's context was given to the builder
    lists,       \* the transactions still to try, by account
    locals,      \* the accounts the pool holds as local
    tx,          \* the transaction at hand
    env,         \* the environment, of the worker and then of the verifier
    before,      \* what the worker goes back to when a transaction fails
    txs,         \* the transactions included (the worker) or executed (the verifier)
    results,     \* predicate results, by transaction
    block,       \* the block built
    verdict,
    ctx,         \* lastRulesContext
    elsewhere,   \* how often Rules was called elsewhere
    raced        \* a lookup returned other rules than the block's

build == <<lists, locals, tx, before, results>>
vars == <<pc, time, context, lists, locals, tx, env, before, txs, results, block, verdict,
          ctx, elsewhere, raced>>

NoTx == <<>>
Fresh == [st |-> Parent, pool |-> GasLimit, used |-> 0, sold |-> 0, receipts |-> <<>>]

\* GetRulesExtra: the rules of ctx, whatever rules it was asked about
GetRulesExtra == RulesAt(ctx)
Lookup == raced' = (raced \/ GetRulesExtra # RulesAt(time))

(***************************************************************************)
(* The pending transactions by price and nonce                             *)
(***************************************************************************)
\* newTxWithMinerFee
Affordable(t) == BaseFee <= t.feeCap
MinerFee(t) == IF t.feeCap - BaseFee > t.tip THEN t.tip ELSE t.feeCap - BaseFee

newTransactionsByPriceAndNonce(pending) ==
    [a \in Accounts |-> IF pending[a] # <<>> /\ Affordable(pending[a][1]) THEN pending[a] ELSE <<>>]

\* local accounts come first, remote ones once no local is left
Heads ==
    LET left == {a \in Accounts : lists[a] # <<>>}
    IN IF left \cap locals # {} THEN left \cap locals ELSE left

\* Peek: a head that pays best; the times first seen, which order equals, are
\* left open
Peek == {a \in Heads : \A b \in Heads : MinerFee(lists[b][1]) <= MinerFee(lists[a][1])}

\* the account's next transaction, if it can pay the base fee
Shift(a) ==
    [lists EXCEPT ![a] = IF Len(@) > 1 /\ Affordable(@[2]) THEN Tail(@) ELSE <<>>]
MutPop(a) == lists

\* the account's transactions are given up
Pop(a) == [lists EXCEPT ![a] = <<>>]

(***************************************************************************)
(* Building                                                                *)
(***************************************************************************)
\* commitTransactions gives up on the accounts in turn when the gas is gone;
\* without gas for the locals there is none for the others either.
Exhausted == Heads = {} \/ env.pool < TxGas

Pick ==
    /\ pc = "pick"
    /\ \/ /\ Exhausted
          /\ pc' = "commit"
          /\ UNCHANGED <<lists, tx, before>>
       \/ /\ ~Exhausted
          /\ \E a \in Peek :
               LET t == lists[a][1]
                   size == FoldLeft(LAMBDA n, u : n + u.size, t.size, txs)
               IN IF t.gas <= env.pool /\ size <= TargetTxsSize
                  THEN /\ tx' = t
                       /\ before' = env
                       /\ pc' = "check"
                       /\ UNCHANGED lists
                  ELSE /\ lists' = Pop(a)
                       /\ UNCHANGED <<pc, tx, before>>
    /\ UNCHANGED <<time, context, locals, env, txs, results, block, verdict, ctx, elsewhere, raced>>

SetTxResults(t, outcome) ==
    {r \in results : r.tx # t} \cup (IF outcome = "none" THEN {} ELSE {[tx |-> t, outcome |-> outcome]})

MutDropped(t) == results

\* the worker's way back from a transaction that failed
Dropped(t) == SetTxResults(t, "none")

Restored == before

\* applyTransaction of the worker, up to the call of ApplyTransaction
Check ==
    /\ pc = "check"
    /\ Lookup
    /\ LET rules == GetRulesExtra
           outcome == CheckPredicates(tx, rules, context)
       IN IF rules.durango /\ outcome = "err"
          THEN /\ pc' = "pick"
               /\ lists' = Pop(tx.from)
               /\ UNCHANGED results
          ELSE /\ pc' = "buy"
               /\ results' = IF rules.durango THEN SetTxResults(tx, outcome) ELSE results
               /\ UNCHANGED lists
    /\ UNCHANGED <<time, context, locals, tx, env, before, txs, block, verdict, ctx, elsewhere>>

\* preCheck; TransitionDb then calls Rules
Buy ==
    /\ pc = "buy"
    /\ LET check == PreCheck(env, tx, time, BaseFee)
       IN IF check = "ok"
          THEN /\ env' = BuyGas(env, tx, BaseFee)
               /\ pc' = "finish"
               /\ UNCHANGED <<lists, results>>
          ELSE /\ lists' = IF check = "low" THEN Shift(tx.from) ELSE Pop(tx.from)
               /\ results' = Dropped(tx)
               /\ env' = Restored
               /\ pc' = "pick"
    /\ ctx' = time
    /\ UNCHANGED <<time, context, locals, tx, before, txs, block, verdict, elsewhere, raced>>

Finish ==
    /\ pc = "finish"
    /\ Lookup
    /\ IF Covered(env, tx, GetRulesExtra)
       THEN /\ env' = TransitionDb(env, tx, GetRulesExtra, BaseFee, Coinbase)
            /\ txs' = Append(txs, tx)
            /\ lists' = Shift(tx.from)
            /\ UNCHANGED results
       ELSE /\ env' = Restored
            /\ results' = Dropped(tx)
            /\ lists' = Pop(tx.from)
            /\ UNCHANGED txs
    /\ pc' = "pick"
    /\ UNCHANGED <<time, context, locals, tx, before, block, verdict, ctx, elsewhere>>

\* verifyBlockFee: what the transactions paid above the base fee
BlockFeePaid(included, used) ==
    FoldLeft(LAMBDA n, i : n + MinerFee(included[i]) * used[i], 0,
             [i \in DOMAIN included |-> i]) \div BaseFee >= BlockGasCost[time]

Ended(v) == pc' = "done" /\ verdict' = v

\* commit and FinalizeAndAssemble.  extra is what the header carries after the
\* fee window: nothing, or the predicate results.
Commit ==
    /\ pc = "commit"
    /\ Lookup
    /\ IF \/ GetRulesExtra.durango /\ Cardinality(results) > MaxResults
          \/ ~BlockFeePaid(txs, env.receipts)
       THEN Ended("unbuilt") /\ UNCHANGED block
       ELSE /\ block' = [txs |-> txs, used |-> env.used, receipts |-> env.receipts, st |-> env.st,
                         extra |-> IF GetRulesExtra.durango THEN <<results>> ELSE <<>>]
            /\ pc' = "syntactic"
            /\ UNCHANGED verdict
    /\ ctx' = time
    /\ UNCHANGED <<time, context, lists, locals, tx, env, before, txs, results, elsewhere>>

(***************************************************************************)
(* Verifying, on the builder's node or on another                          *)
(***************************************************************************)
\* SyntacticVerify; verifyPredicates then calls Rules
Syntactic ==
    /\ pc = "syntactic"
    /\ Lookup
    /\ IF (~GetRulesExtra.durango => block.extra = <<>>) /\ block.txs # <<>>
       THEN pc' = "predicates" /\ UNCHANGED verdict
       ELSE Ended("rejected")
    /\ ctx' = time
    /\ UNCHANGED <<time, context, build, env, txs, block, elsewhere>>

\* the engine passes the proposer's context to a block that needs one
ShouldVerifyWithContext ==
    RulesAt(time).predicates /\ \E i \in DOMAIN block.txs : block.txs[i].list # "none"

verifyPredicates ==
    LET outcome(t) == CheckPredicates(t, GetRulesExtra, ShouldVerifyWithContext)
        found == {r \in [tx : ToSet(block.txs), outcome : {"good", "bad"}] : outcome(r.tx) = r.outcome}
    IN IF GetRulesExtra.durango
       THEN /\ \A i \in DOMAIN block.txs : outcome(block.txs[i]) # "err"
            /\ block.extra = <<found>>
       ELSE ~GetRulesExtra.predicates

\* Process starts over from the parent
Predicates ==
    /\ pc = "predicates"
    /\ Lookup
    /\ IF verifyPredicates
       THEN /\ pc' = "process"
            /\ env' = Fresh
            /\ txs' = <<>>
            /\ UNCHANGED verdict
       ELSE Ended("rejected") /\ UNCHANGED <<env, txs>>
    /\ UNCHANGED <<time, context, build, block, ctx, elsewhere>>

\* the next transaction of the block, up to TransitionDb's call of Rules
Process ==
    /\ pc = "process"
    /\ Len(txs) < Len(block.txs)
    /\ LET t == block.txs[Len(txs) + 1]
       IN IF PreCheck(env, t, time, BaseFee) = "ok"
          THEN /\ env' = BuyGas(env, t, BaseFee)
               /\ pc' = "processed"
               /\ UNCHANGED verdict
          ELSE Ended("rejected") /\ UNCHANGED env
    /\ ctx' = time
    /\ UNCHANGED <<time, context, build, txs, block, elsewhere, raced>>

Processed ==
    /\ pc = "processed"
    /\ Lookup
    /\ LET t == block.txs[Len(txs) + 1]
       IN IF Covered(env, t, GetRulesExtra)
          THEN /\ env' = TransitionDb(env, t, GetRulesExtra, BaseFee, Coinbase)
               /\ txs' = Append(txs, t)
               /\ pc' = "process"
               /\ UNCHANGED verdict
          ELSE Ended("rejected") /\ UNCHANGED <<env, txs>>
    /\ UNCHANGED <<time, context, build, block, ctx, elsewhere>>

\* Finalize and ValidateState
ValidateState ==
    /\ pc = "process"
    /\ Len(txs) = Len(block.txs)
    /\ IF /\ BlockFeePaid(txs, env.receipts)
          /\ block.used = env.used
          /\ block.receipts = env.receipts
          /\ block.st = env.st
       THEN Ended("ok") ELSE Ended("rejected")
    /\ UNCHANGED <<time, context, build, env, txs, block, ctx, elsewhere, raced>>

(***************************************************************************)
(* The specification                                                       *)
(***************************************************************************)
\* precompileHook and SetRulesContext, run by an RPC call or a pool check for an
\* ancestor of the block or for a sibling
Elsewhere(t) ==
    /\ pc # "done"
    /\ elsewhere < MaxElsewhere
    /\ ctx' = t
    /\ elsewhere' = elsewhere + 1
    /\ UNCHANGED <<pc, time, context, build, env, txs, block, verdict, raced>>

\* createCurrentEnvironment, with what commitNewWork reads from the pool
Init ==
    /\ pc = "pick"
    /\ time \in ParentTime..MaxTime
    /\ context \in BOOLEAN
    /\ lists \in {newTransactionsByPriceAndNonce(p) : p \in Pendings}
    /\ locals \in SUBSET Accounts
    /\ tx = NoTx
    /\ env = Fresh
    /\ before = Fresh
    /\ txs = <<>>
    /\ results = {}
    /\ block = <<>>
    /\ verdict = "none"
    /\ ctx = time
    /\ elsewhere = 0
    /\ raced = FALSE

Work ==
    \/ Pick
    \/ Check
    \/ Buy
    \/ Finish
    \/ Commit
    \/ Syntactic
    \/ Predicates
    \/ Process
    \/ Processed
    \/ ValidateState

Next == Work \/ \E t \in 0..MaxTime : Elsewhere(t)

Spec == Init /\ [][Next]_vars /\ WF_vars(Work)
=============================================================================
