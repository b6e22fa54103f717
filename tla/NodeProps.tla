------------------------------ MODULE NodeProps ------------------------------
(* What the VM promises to the engine that starts it, waits on it and stops it. *)
EXTENDS Node

\* Type correctness of locks, channels and goroutines; vmLock belongs to the
\* dispatch exactly while it synchronises and to Shutdown until it returns.
NodeTypeOK ==
    /\ vmLock \in {"free", "setstate", "call", "shutdown", "dispatch"}
    /\ vmState \in {"init", "syncing", "bootstrapping", "normal"}
    /\ shutdown \in {"idle", "error", "cancelled", "closed", "wait", "done"}
    /\ stateSync \in {"off", "running", "done", "failed"}
    /\ dispatch \in {"off", "select", "lock", "sync", "exit"}
    /\ gossip \in {"off", "run", "exit"}
    /\ {await, poll} \subseteq {"off", "select", "signal", "exit"}
    /\ automine \in {"off", "select", "build", "exit"}
    /\ waiter \in {"idle", "parked", "enter", "check", "context", "park", "waiting", "pace"}
    /\ {bootstrapped, initFailed, builder, builderReady, cancelled, shutdownChan,
        waitCtx, waitHelper, txEvent, automineEvent, poolOpen} \subseteq BOOLEAN
    /\ pool \subseteq Txs
    /\ vmLock = "dispatch" <=> dispatch = "sync"
    /\ vmLock = "shutdown" <=> shutdown \in {"cancelled", "closed", "wait"}

\* Why nothing runs once Shutdown returned: it waited for every goroutine with the
\* pool stopped, and no call that could start one again holds or gets vmLock.
NodeInv ==
    /\ NodeTypeOK
    /\ vmLock \in {"setstate", "call"} => shutdown = "idle"
    /\ shutdown \in {"wait", "done"} => ~poolOpen
    /\ shutdown = "done" => AllExited /\ vmLock = "free"

\* Goroutines and Shutdown make progress.  Where the code loops: a select with
\* several ready cases takes each of them eventually, and sync.Mutex does not
\* starve the goroutine that wants to signal.
NodeFairness ==
    /\ WF_vars(SetStateNext) /\ WF_vars(ShutdownNext) /\ WF_vars(StateSyncEnds)
    /\ WF_vars(WaiterNext) /\ WF_vars(CancelBroadcast)
    /\ WF_vars(DispatchSync) /\ WF_vars(automining)
    /\ WF_vars(GossipEnds) /\ WF_vars(AwaitExits) /\ WF_vars(AutomineExits)
    /\ SF_vars(awaitSubmittedTxs) /\ SF_vars(pendingTxPoll)
    /\ SF_vars(DispatchExits) /\ SF_vars(PollExits)

FairNode == Spec /\ NodeFairness

\* A call of WaitForEvent is answered while transactions are pending, also one
\* that came before the builder existed and whose context is never cancelled.
PendingIsAnswered ==
    builder /\ waiter # "idle" /\ pool # {} ~>
        waiter = "idle" \/ pool = {} \/ shutdown # "idle"

\* A call whose context is cancelled returns; before shutdown the poll makes up
\* for the broadcast that waitForNeedToBuild misses between check and Wait.
CancelledCallReturns == waitCtx ~> ~waitCtx \/ shutdownChan

\* The ways in which Shutdown may wait for ever with vmLock held: DispatchSync
\* waits for that lock, or the inner loop of automining has something pending.
ShutdownBlocked ==
    \/ dispatch = "lock" /\ vmLock = "shutdown"
    \/ automine = "build" /\ pool # {}

\* Shutdown returns unless it is blocked in one of those two ways: whatever state
\* the VM is in, no other goroutine that it waits for keeps it.
ShutdownEnds == shutdown # "idle" ~> shutdown \in {"done", "error"} \/ ShutdownBlocked

\* The lock is held as NodeTypeOK says, and nothing of the VM runs once Shutdown
\* returned: no synchronisation of the validators, no signal and no block comes
\* after it.
QuietAfterShutdown ==
    /\ []NodeTypeOK
    /\ [][shutdown = "done" => UNCHANGED <<threadVars, pool, vmLock>>]_vars

\* Shutdown always returns.  It does not, without automining either: it holds vmLock
\* while it waits for DispatchSync, which may be waiting for vmLock.
ShutdownCompletes == shutdown # "idle" ~> shutdown \in {"done", "error"}
=============================================================================
