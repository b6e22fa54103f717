----------------------------- MODULE TxPoolProps -----------------------------
(* What the transaction pool promises to the block builder, to the gossip  *)
(* layer and to the other sub-pools.                                       *)
EXTENDS TxPool

Nonces(l) == {t.nonce : t \in l}

\* The coordinator and the reorg loop have nothing left to do.
Idle == ~request.launch /\ ~asking.any /\ oldHead = head

(* Every variable has its type, and a list never holds two transactions    *)
(* with one nonce (sortedMap is keyed by nonce).                           *)
PoolTypeOK ==
    /\ \A a \in Accounts : \A l \in {pool.pending[a], pool.queue[a]} :
        /\ l \subseteq {t \in Txs : t.from = a}
        /\ \A t, u \in l : t.nonce = u.nonce => t = u
    /\ pool.local \subseteq pool.all /\ pool.all \subseteq Txs
    /\ pool.locals \subseteq Accounts /\ pool.beats \subseteq Accounts
    /\ pool.head \in Blocks /\ head \in Blocks /\ oldHead \in Blocks
    /\ gone \subseteq Blocks /\ gasTip \in Tips \cup {0}
    /\ request.dirty \cup asking.dirty \subseteq Accounts

(* The lookup by hash holds exactly the transactions of the lists, and no  *)
(* nonce of an account is both pending and queued.  removeTx and the       *)
(* demotions re-queue transactions without touching the lookup, so a       *)
(* refused re-queue would leave one in the lookup and in no list.          *)
LookupMatchesLists ==
    /\ PoolTypeOK
    /\ pool.all = UNION {pool.pending[a] \cup pool.queue[a] : a \in Accounts}
    /\ \A a \in Accounts : Nonces(pool.pending[a]) \cap Nonces(pool.queue[a]) = {}

(* An account's pending transactions can be executed in order on the       *)
(* pool's state: their nonces run without gap from the state nonce to the  *)
(* virtual nonce the pool hands out, and each is payable by itself.        *)
PendingIsExecutable ==
    \A a \in Accounts :
        /\ Nonces(pool.pending[a]) = GetNonce(pool, a) .. pool.nonces[a] - 1
        /\ \A t \in pool.pending[a] : Payable(pool, t)

(* The pool holds the reservation of an address exactly while it has a     *)
(* transaction of it, and never trips the reserver's misuse checks.        *)
ReservedIffHeld ==
    /\ pool.reserved = {a \in Accounts : Holds(pool, a)}
    /\ ~pool.fault

(* What the pool holds is one consistent whole after every call: lookup,   *)
(* lists, nonces, balances and reservations.                               *)
PoolIsConsistent == LookupMatchesLists /\ PendingIsExecutable /\ ReservedIffHeld

(* Nothing is left behind.  An account with queued transactions has a      *)
(* heartbeat: without one the eviction loop reads the zero time and drops  *)
(* its queue.  Once no run is requested, every pending transaction has     *)
(* been sent to the subscribers (the gossip and the block builder's        *)
(* wake-up).  A pool that is done works on the state of the chain's head,  *)
(* unless a rejected block cut the reset short.                            *)
NothingIsLeftBehind ==
    /\ \A a \in Accounts : pool.queue[a] # {} => a \in pool.beats
    /\ ~request.launch /\ ~asking.any => pool.silent = {}
    /\ Idle /\ gone = {} => pool.head = head

(* A run (the step that consumes the request to launch one) leaves the     *)
(* pool within its limits: only local accounts and the guaranteed slots of *)
(* an account may exceed them.                                             *)
RunRestoresLimits ==
    [][request.launch /\ ~request'.launch =>
        /\ \/ Total(pool'.pending) <= GlobalSlots
           \/ \A a \in Accounts \ pool'.locals : Cardinality(pool'.pending[a]) <= AccountSlots
        /\ \/ Total(pool'.queue) <= GlobalQueue
           \/ \A a \in Accounts \ pool'.locals : pool'.queue[a] = {}]_vars

(* legacypool.go: "queue: Queued but non-processable transactions".  Once  *)
(* the pool is done no queued transaction continues the pending ones.      *)
QueuedIsNotProcessable ==
    Idle => \A a \in Accounts : pool.nonces[a] \notin Nonces(pool.queue[a])
=============================================================================
