------------------------------- MODULE TxPool -------------------------------
(***************************************************************************)
(* The transaction pool: core/txpool/txpool.go (the coordinator that feeds *)
(* chain heads to the sub-pool and hands out address reservations) and     *)
(* core/txpool/legacypool (the only sub-pool eth/backend.go installs).     *)
(*                                                                         *)
(* A list of an account is a set of transactions with distinct nonces; the *)
(* map entry exists exactly when the set is not empty.  The operators take *)
(* and return the whole pool record, as the Go methods mutate the pool     *)
(* under its mutex.  An operator with several outcomes returns their set.  *)
(*                                                                         *)
(* A transaction costs its price and takes one slot, tip cap and fee cap   *)
(* are equal.  The priced list's two heaps are left out: what they hold is *)
(* the set of remote transactions, and which of them Discard pops depends  *)
(* on how earlier calls split them, so Discard may pop any.  Heartbeats    *)
(* are reduced to their presence: any account's may be the oldest.         *)
(***************************************************************************)
EXTENDS Integers, FiniteSets, FiniteSetsExt, SequencesExt

CONSTANTS
    Accounts,
    Txs,          \* records [from, nonce, price]
    Blocks, Genesis, Parent,
    BlockTxs,     \* the transactions of a block, a sequence
    Balance,      \* block -> account -> balance in the block's state
    MinFee,       \* block -> MinBaseFee of the fee configuration in its state
    Allowed,      \* block -> senders its transaction allow list enables
    AccountSlots, GlobalSlots, AccountQueue, GlobalQueue, PriceBump,
    ReorgDepth,   \* the deepest reorg whose transactions are reinjected
    Tips,         \* values given to SetGasTip
    LocalSenders  \* accounts whose transactions are submitted as local

(* What sanitize leaves of the configuration. *)
Sanitized ==
    /\ AccountSlots >= 1 /\ GlobalSlots >= 1
    /\ AccountQueue >= 1 /\ GlobalQueue >= 1 /\ PriceBump >= 1

ASSUME PoolAssumption == Sanitized

VARIABLES
    pool,     \* LegacyPool and the reservations made on its behalf
    gasTip,   \* LegacyPool.gasTip
    request,  \* scheduleReorgLoop: the run to launch next
    asking,   \* the Add calls between unlocking mu and requesting a run
    oldHead,  \* TxPool.loop: the head of the last finished reset
    head,     \* the chain's current (preferred) block
    gone      \* rejected blocks: their body and state are deleted

vars == <<pool, gasTip, request, asking, oldHead, head, gone>>

NoReset == <<>>

(***************************************************************************)
(* The chain as the pool reads it.                                         *)
(***************************************************************************)
Path[b \in Blocks] ==
    IF b = Genesis THEN <<b>> ELSE Append(Path[Parent[b]], b)

Number(b) == Len(Path[b]) - 1

PathTxs(b) == UNION {ToSet(BlockTxs[c]) : c \in ToSet(Path[b])}

Nonce == [b \in Blocks |-> [a \in Accounts |-> Cardinality({t \in PathTxs(b) : t.from = a})]]

GetNonce(p, a) == Nonce[p.head][a]

(***************************************************************************)
(* list.go                                                                 *)
(***************************************************************************)
At(l, n) == {t \in l : t.nonce = n}

Refuses(l, tx) ==
    \E old \in At(l, tx.nonce) :
        \/ old.price >= tx.price
        \/ tx.price < (old.price * (100 + PriceBump)) \div 100

Put(l, tx) == (l \ At(l, tx.nonce)) \cup {tx}

Cap(l, n) == {t \in l : Cardinality({u \in l : u.nonce < t.nonce}) < n}

Ready(l, start) ==
    {t \in l : /\ \E u \in l : u.nonce <= start
               /\ \A u \in l : u.nonce < t.nonce => At(l, u.nonce + 1) # {}}

Payable(p, t) == t.price <= Balance[p.head][t.from]

(***************************************************************************)
(* Address reservations: txpool.go.  A fault is one of the misuses that    *)
(* the reserver logs as a programming error.                               *)
(***************************************************************************)
Holds(p, a) == p.pending[a] # {} \/ p.queue[a] # {}

reserve(p, a) == [p EXCEPT !.reserved = @ \cup {a}, !.fault = @ \/ a \in p.reserved]

unreserve(p, a) == [p EXCEPT !.reserved = @ \ {a}, !.fault = @ \/ a \notin p.reserved]

\* Mutant: only the queue is looked at.
ReleaseUnqueued(p, a) == IF p.queue[a] # {} THEN p ELSE unreserve(p, a)

Release(p, a) == IF Holds(p, a) THEN p ELSE unreserve(p, a)

(***************************************************************************)
(* Moving transactions between the queue, the pending lists and the lookup.*)
(***************************************************************************)
Forget(p, S) == [p EXCEPT !.all = @ \ S, !.local = @ \ S]

\* Mutant: the replaced transaction is not removed from the lookup.
enqueueTxKnown(p, tx) ==
    IF Refuses(p.queue[tx.from], tx) THEN p
    ELSE [p EXCEPT !.queue[tx.from] = Put(@, tx), !.beats = @ \cup {tx.from}]

enqueueTx(p, tx) ==
    LET a == tx.from IN
    IF Refuses(p.queue[a], tx) THEN p
    ELSE [Forget(p, At(p.queue[a], tx.nonce))
              EXCEPT !.queue[a] = Put(@, tx), !.beats = @ \cup {a}]

enqueueAll(p, S) == FoldSet(LAMBDA tx, q : enqueueTx(q, tx), p, S)

promoteTx(p, tx) ==
    LET a == tx.from IN
    IF Refuses(p.pending[a], tx) THEN Forget(p, {tx})
    ELSE [Forget(p, At(p.pending[a], tx.nonce))
              EXCEPT !.pending[a] = Put(@, tx), !.nonces[a] = tx.nonce + 1,
                     !.beats = @ \cup {a}]

removeTx(p, tx, unres) ==
    LET a == tx.from
        q == Forget(p, {tx})
        later == {t \in p.pending[a] : t.nonce > tx.nonce}
        future == p.queue[a] \ At(p.queue[a], tx.nonce)
        r == IF At(p.pending[a], tx.nonce) # {}
             THEN [enqueueAll([q EXCEPT !.pending[a] = {t \in @ : t.nonce < tx.nonce}], later)
                       EXCEPT !.nonces[a] = Min({@, tx.nonce})]
             ELSE [q EXCEPT !.queue[a] = future,
                            !.beats = IF p.queue[a] # {} /\ future = {} THEN @ \ {a} ELSE @]
    IN IF tx \notin p.all THEN p
       ELSE IF unres THEN Release(r, a) ELSE r

removeTxs(p, S, Unres(_)) == FoldSet(LAMBDA tx, q : removeTx(q, tx, Unres(tx)), p, S)

Total(lists) == MapThenSumSet(LAMBDA a : Cardinality(lists[a]), Accounts)

(***************************************************************************)
(* add                                                                     *)
(***************************************************************************)
validateTx(p, tx) ==
    LET a == tx.from
        balance == Balance[p.head][a]
        spent == MapThenSumSet(LAMBDA t : t.price, p.pending[a] \ At(p.pending[a], tx.nonce))
    IN /\ tx.price >= p.minFee
       /\ tx.nonce >= GetNonce(p, a)
       /\ balance >= tx.price
       /\ balance >= spent + tx.price
       /\ a \in Allowed[p.head]

Remotes(p) == p.all \ p.local

Underpriced(p, tx) ==
    /\ Remotes(p) # {}
    /\ \A t \in Remotes(p) : t.price >= tx.price

\* The sets Discard may return; none when it fails.
Discard(p, slots, force) ==
    IF Cardinality(Remotes(p)) >= slots THEN kSubset(slots, Remotes(p))
    ELSE IF force THEN {Remotes(p)} ELSE {}

isGapped(p, tx) ==
    \E n \in p.nonces[tx.from] .. tx.nonce - 1 : At(p.queue[tx.from], n) = {}

Churns(p, tx, drop) ==
    isGapped(p, tx) /\ \E t \in drop : At(p.pending[t.from], t.nonce) # {}

Known(p, tx, isLocal) ==
    [p EXCEPT !.all = @ \cup {tx}, !.local = IF isLocal THEN @ \cup {tx} ELSE @]

RemoteToLocals(p) == [p EXCEPT !.local = @ \cup {t \in p.all : t.from \in p.locals}]

replacePending(p, tx, isLocal) ==
    LET a == tx.from
        old == At(p.pending[a], tx.nonce)
    IN [Known(Forget(p, old), tx, isLocal)
            EXCEPT !.pending[a] = Put(@, tx), !.beats = @ \cup {a},
                   !.events = (@ \ {t \in @ : t.from = a /\ t.nonce = tx.nonce}) \cup {tx},
                   !.silent = (@ \ old) \cup {tx}]

enqueueNew(p, tx, local, isLocal) ==
    LET q == Known(enqueueTx(p, tx), tx, isLocal)
    IN IF local THEN RemoteToLocals([q EXCEPT !.locals = @ \cup {tx.from}]) ELSE q

Result(p, err, replaced) == [pool |-> p, err |-> err, replaced |-> replaced]

\* The end of add, once there is room; q is the pool with the address reserved.
insert(q, tx, local, isLocal) ==
    LET inPending == At(q.pending[tx.from], tx.nonce) # {}
        inQueue == At(q.queue[tx.from], tx.nonce) # {}
    IN IF inPending
       THEN IF Refuses(q.pending[tx.from], tx) THEN Result(q, TRUE, FALSE)
            ELSE Result(replacePending(q, tx, isLocal), FALSE, TRUE)
       ELSE IF Refuses(q.queue[tx.from], tx) THEN Result(q, TRUE, FALSE)
            ELSE Result(enqueueNew(q, tx, local, isLocal), FALSE, inQueue)

evict(p, drop, from) ==
    LET q == removeTxs(p, drop, LAMBDA t : t.from # from)
    IN [q EXCEPT !.changes = @ + Total(p.pending) - Total(q.pending)]

makeRoom(q, tx, local, isLocal) ==
    LET slots == Cardinality(q.all) - (GlobalSlots + GlobalQueue) + 1
        drops == Discard(q, slots, isLocal)
    IN IF \/ ~isLocal /\ Underpriced(q, tx)
          \/ q.changes > GlobalSlots \div 4
          \/ drops = {}
       THEN {Result(q, TRUE, FALSE)}
       ELSE {IF ~isLocal /\ Churns(q, tx, drop) THEN Result(q, TRUE, FALSE)
             ELSE insert(evict(q, drop, tx.from), tx, local, isLocal) : drop \in drops}

add(p, tx, local) ==
    LET a == tx.from
        isLocal == local \/ a \in p.locals
        q == IF Holds(p, a) THEN p ELSE reserve(p, a)
        results == IF Cardinality(p.all) + 1 > GlobalSlots + GlobalQueue
                   THEN makeRoom(q, tx, local, isLocal)
                   ELSE {insert(q, tx, local, isLocal)}
        release(r) == IF r.err /\ ~Holds(p, a)
                      THEN [r EXCEPT !.pool = unreserve(@, a)] ELSE r
    IN IF tx \in p.all \/ ~validateTx(p, tx) THEN {Result(p, TRUE, FALSE)}
       ELSE {release(r) : r \in results}

\* The pools after adding the transactions of a sequence in turn.
addTxsLocked(p, txs) ==
    FoldLeft(LAMBDA ps, tx : UNION {{r.pool : r \in add(q, tx, FALSE)} : q \in ps}, {p}, txs)

(***************************************************************************)
(* The steps of runReorg                                                   *)
(***************************************************************************)
\* The blocks reset walks, from b back to the common ancestor, newest first.
Leaves(b, c) == SelectSeq(Reverse(Path[b]), LAMBDA d : d \notin ToSet(Path[c]))

TxsOf(bs) == FlattenSeq([i \in DOMAIN bs |-> BlockTxs[bs[i]]])

\* TxDifference of the transactions of the old and of the new branch.
Discarded(old, new) ==
    LET included == ToSet(TxsOf(Leaves(new, old)))
    IN SelectSeq(TxsOf(Leaves(old, new)), LAMBDA t : t \notin included)

Shallow(old, new) ==
    /\ old # Parent[new]
    /\ Number(old) - Number(new) <= ReorgDepth
    /\ Number(new) - Number(old) <= ReorgDepth

\* The early returns of reset: a block or the new state has been deleted.
Abandons(old, new) ==
    \/ new \in gone
    \/ /\ Shallow(old, new)
       /\ IF old \in gone THEN Number(new) >= Number(old)
          ELSE ToSet(Leaves(old, new) \o Leaves(new, old)) \cap gone # {}

reset(p, old, new) ==
    IF Abandons(old, new) THEN {p}
    ELSE addTxsLocked([p EXCEPT !.head = new, !.minFee = MinFee[new],
                                !.nonces = Nonce[new]],
                      IF Shallow(old, new) /\ old \notin gone
                      THEN Discarded(old, new) ELSE <<>>)

promoteAccount(p, a) ==
    LET live == {t \in p.queue[a] : t.nonce >= GetNonce(p, a) /\ Payable(p, t)}
        ready == Ready(live, p.nonces[a])
        q == FoldLeft(promoteTx,
                      [Forget(p, p.queue[a] \ live) EXCEPT !.queue[a] = live \ ready],
                      SetToSortSeq(ready, LAMBDA t, u : t.nonce < u.nonce))
        kept == IF a \in q.locals THEN q.queue[a] ELSE Cap(q.queue[a], AccountQueue)
        r == [Forget(q, q.queue[a] \ kept) EXCEPT !.queue[a] = kept]
    IN IF p.queue[a] = {} THEN p
       ELSE IF kept # {} THEN r
       ELSE Release([r EXCEPT !.beats = @ \ {a}], a)

promoteExecutables(p, A) == FoldSet(LAMBDA a, q : promoteAccount(q, a), p, A)

demoteAccount(p, a) ==
    LET n == GetNonce(p, a)
        live == {t \in p.pending[a] : t.nonce >= n}
        drops == {t \in live : ~Payable(p, t)}
        left == {t \in live : \A d \in drops : t.nonce < d.nonce}
        kept == IF At(left, n) = {} THEN {} ELSE left
        q == Forget([p EXCEPT !.pending[a] = kept], (p.pending[a] \ live) \cup drops)
    IN IF p.pending[a] = {} THEN p
       ELSE LET r == enqueueAll(q, live \ (drops \cup kept))
            IN IF kept = {} THEN Release(r, a) ELSE r

demoteUnexecutables(p) == FoldSet(LAMBDA a, q : demoteAccount(q, a), p, Accounts)

LastNonce(l) == Max({t.nonce : t \in l})

\* Mutant: the nonce of the last pending transaction, not the next one.
setAllLast(p) ==
    [p EXCEPT !.nonces = [a \in Accounts |-> IF p.pending[a] = {} THEN GetNonce(p, a)
                                             ELSE LastNonce(p.pending[a])]]

setAll(p) ==
    [p EXCEPT !.nonces = [a \in Accounts |-> IF p.pending[a] = {} THEN GetNonce(p, a)
                                             ELSE LastNonce(p.pending[a]) + 1]]

\* The longest remote lists lose one transaction at a time, all together,
\* until the total is within GlobalSlots or they are down to AccountSlots.
truncatePending(p) ==
    LET capped(n) == [a \in Accounts |-> IF a \in p.locals THEN p.pending[a]
                                         ELSE Cap(p.pending[a], n)]
        longest == Max({AccountSlots} \cup {Cardinality(p.pending[a]) : a \in Accounts})
        fits == {n \in AccountSlots .. longest : Total(capped(n)) <= GlobalSlots}
        new == capped(Max(fits \cup {AccountSlots}))
        lost(a) == p.pending[a] \ new[a]
    IN [Forget(p, UNION {lost(a) : a \in Accounts})
            EXCEPT !.pending = new,
                   !.nonces = [a \in Accounts |-> Min({@[a]} \cup {t.nonce : t \in lost(a)})]]

\* Mutant: off by one.
OverflowLess(p) == Max({0, Total(p.queue) - GlobalQueue - 1})

Overflow(p) == Max({0, Total(p.queue) - GlobalQueue})

\* How many transactions each remote account may lose: accounts are emptied
\* in the order of their heartbeats, the last one only as far as needed.
QueueCuts(p) ==
    LET size(a) == IF a \in p.locals THEN 0 ELSE Cardinality(p.queue[a])
        excess == Overflow(p)
        all == MapThenSumSet(size, Accounts)
    IN {d \in [Accounts -> 0 .. excess] :
            /\ \A a \in Accounts : d[a] <= size(a)
            /\ MapThenSumSet(LAMBDA a : d[a], Accounts) = Min({excess, all})
            /\ Cardinality({a \in Accounts : 0 < d[a] /\ d[a] < size(a)}) <= 1}

truncateQueue(p) ==
    {removeTxs(p, UNION {p.queue[a] \ Cap(p.queue[a], Cardinality(p.queue[a]) - d[a]) : a \in Accounts},
               LAMBDA t : TRUE) : d \in QueueCuts(p)}

runReorg(p, req) ==
    LET p0 == [p EXCEPT !.events = {}]
        isReset == req.reset # NoReset
        p1s == IF isReset THEN reset(p0, req.reset[1], req.reset[2]) ELSE {p0}
        addrs(q) == IF isReset THEN {a \in Accounts : q.queue[a] # {}} ELSE req.dirty
        finish(q) == truncateQueue(truncatePending(
                         IF isReset THEN setAll(demoteUnexecutables(q)) ELSE q))
        sent(q) == [q EXCEPT !.changes = 0,
                             !.silent = {t \in @ \ p.events : t \in q.pending[t.from]}]
    IN {sent(q) : q \in UNION {finish(promoteExecutables(p1, addrs(p1))) : p1 \in p1s}}

(***************************************************************************)
(* The system                                                              *)
(***************************************************************************)
Init ==
    /\ pool = [pending |-> [a \in Accounts |-> {}], queue |-> [a \in Accounts |-> {}],
               nonces |-> Nonce[Genesis],
               all |-> {}, local |-> {}, locals |-> {}, beats |-> {},
               reserved |-> {}, fault |-> FALSE, changes |-> 0,
               events |-> {}, silent |-> {},
               head |-> Genesis, minFee |-> MinFee[Genesis]]
    /\ gasTip = 0
    /\ request = [reset |-> NoReset, dirty |-> {}, launch |-> FALSE]
    /\ asking = [any |-> FALSE, dirty |-> {}]
    /\ oldHead = Genesis
    /\ head = Genesis
    /\ gone = {}

Add(tx, local) ==
    /\ tx \notin pool.all
    /\ local \/ tx.price >= gasTip
    /\ \E r \in add(pool, tx, local) :
        /\ pool' = r.pool
        /\ asking' = [any |-> TRUE,
                      dirty |-> asking.dirty \cup IF r.err \/ r.replaced THEN {} ELSE {tx.from}]
    /\ UNCHANGED <<gasTip, request, oldHead, head, gone>>

\* Mutant: no run is launched when no account became dirty.
requestPromoteDirty ==
    /\ asking.any
    /\ request' = [request EXCEPT !.dirty = @ \cup asking.dirty,
                                  !.launch = @ \/ asking.dirty # {}]
    /\ asking' = [any |-> FALSE, dirty |-> {}]
    /\ UNCHANGED <<pool, gasTip, oldHead, head, gone>>

requestPromoteExecutables ==
    /\ asking.any
    /\ request' = [request EXCEPT !.dirty = @ \cup asking.dirty, !.launch = TRUE]
    /\ asking' = [any |-> FALSE, dirty |-> {}]
    /\ UNCHANGED <<pool, gasTip, oldHead, head, gone>>

Reset ==
    /\ oldHead # head
    /\ request.reset = NoReset
    /\ request' = [request EXCEPT !.reset = <<oldHead, head>>, !.launch = TRUE]
    /\ UNCHANGED <<pool, gasTip, asking, oldHead, head, gone>>

RunReorg ==
    /\ request.launch
    /\ pool' \in runReorg(pool, request)
    /\ request' = [reset |-> NoReset, dirty |-> {}, launch |-> FALSE]
    /\ oldHead' = IF request.reset = NoReset THEN oldHead ELSE request.reset[2]
    /\ UNCHANGED <<gasTip, asking, head, gone>>

SetGasTip(tip) ==
    /\ gasTip' = tip
    /\ pool' = IF tip <= gasTip THEN pool
               ELSE removeTxs(pool, {t \in Remotes(pool) : t.price < tip}, LAMBDA t : TRUE)
    /\ UNCHANGED <<request, asking, oldHead, head, gone>>

EvictQueue(a) ==
    /\ a \notin pool.locals
    /\ pool.queue[a] # {}
    /\ pool' = removeTxs(pool, pool.queue[a], LAMBDA t : TRUE)
    /\ UNCHANGED <<gasTip, request, asking, oldHead, head, gone>>

SetPreference(b) ==
    /\ b # head
    /\ ToSet(Path[b]) \cap gone = {}
    /\ head' = b
    /\ UNCHANGED <<pool, gasTip, request, asking, oldHead, gone>>

Reject(b) ==
    /\ b \notin gone
    /\ b \notin ToSet(Path[head])
    /\ gone' = gone \cup {b}
    /\ UNCHANGED <<pool, gasTip, request, asking, oldHead, head>>

Next ==
    \/ \E tx \in Txs : Add(tx, FALSE)
    \/ \E tx \in Txs : tx.from \in LocalSenders /\ Add(tx, TRUE)
    \/ requestPromoteExecutables
    \/ Reset
    \/ RunReorg
    \/ \E tip \in Tips : SetGasTip(tip)
    \/ \E a \in Accounts : EvictQueue(a)
    \/ \E b \in Blocks : SetPreference(b)
    \/ \E b \in Blocks : Reject(b)

Spec == Init /\ [][Next]_vars
=============================================================================
