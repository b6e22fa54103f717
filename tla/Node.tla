-------------------------------- MODULE Node --------------------------------
(***************************************************************************)
(* The life of the VM of plugin/evm: SetState and Shutdown under vmLock,   *)
(* the goroutines that Shutdown waits for, and the block builder with the  *)
(* WaitForEvent call of the engine.  The validator dispatch takes vmLock,  *)
(* which Shutdown holds while it waits for the dispatch to exit.           *)
(***************************************************************************)
EXTENDS FiniteSets

CONSTANTS Txs,          \* transactions that may enter the pool
          Mineable,     \* those a block can include at the current base fee
          Automining    \* config: EnableAutomining

ASSUME NodeAssumption == Mineable \subseteq Txs /\ Automining \in BOOLEAN

VARIABLES
    vmLock,        \* who holds vmLock: "free" or a thread
    vmState,       \* the state the engine announced last
    bootstrapped,  \* vm.bootstrapped
    initFailed,    \* the validators manager failed to initialize
    builder,       \* vm.builder is set
    builderReady,  \* the channel builderReady is closed
    cancelled,     \* the context of the background goroutines is cancelled
    shutdownChan,  \* the channel shutdownChan is closed
    shutdown,      \* where Shutdown is
    stateSync,     \* the state sync goroutine
    dispatch,      \* validatorsManager.DispatchSync
    gossip,        \* the goroutines that run until the context is cancelled
    await, poll,   \* the two goroutines of awaitSubmittedTxs
    automine,      \* the goroutine of startAutomining
    waiter,        \* the engine's WaitForEvent call
    waitCtx,       \* the context of that call is cancelled
    waitHelper,    \* the goroutine that broadcasts when it is
    pool,          \* pending transactions
    txEvent,       \* an event is being sent to awaitSubmittedTxs
    automineEvent, \* events are buffered for the automining loop
    poolOpen       \* the pool and the chain are running

engineVars == <<vmState, bootstrapped, initFailed, builder, builderReady>>
stopVars == <<cancelled, shutdownChan, shutdown, stateSync>>
threadVars == <<dispatch, gossip, await, poll, automine>>
waitVars == <<waiter, waitCtx, waitHelper>>
poolVars == <<pool, txEvent, automineEvent, poolOpen>>
vars == <<vmLock, engineVars, stopVars, threadVars, waitVars, poolVars>>

Init ==
    /\ vmLock = "free" /\ vmState = "init"
    /\ bootstrapped = FALSE /\ initFailed = FALSE
    /\ builder = FALSE /\ builderReady = FALSE
    /\ cancelled = FALSE /\ shutdownChan = FALSE
    /\ shutdown = "idle" /\ stateSync = "off"
    /\ dispatch = "off" /\ gossip = "off" /\ await = "off" /\ poll = "off" /\ automine = "off"
    /\ waiter = "idle" /\ waitCtx = FALSE /\ waitHelper = FALSE
    /\ pool = {} /\ txEvent = FALSE /\ automineEvent = FALSE /\ poolOpen = TRUE

----------------------------------------------------------------------------
(* The engine: SetState, state sync, and calls that hold vmLock briefly *)

\* The engine announces states in this order and stops calling once it shut down.
EngineRuns == shutdown = "idle"

\* SetState(Syncing), and the acceptance of a summary that starts state sync.
SetStateSyncing ==
    /\ EngineRuns /\ vmLock = "free" /\ vmState = "init"
    /\ vmState' = "syncing" /\ bootstrapped' = FALSE
    /\ UNCHANGED <<vmLock, initFailed, builder, builderReady, stopVars, threadVars, waitVars, poolVars>>

acceptSyncSummary ==
    /\ EngineRuns /\ vmState = "syncing" /\ stateSync = "off"
    /\ stateSync' = "running"
    /\ UNCHANGED <<vmLock, engineVars, cancelled, shutdownChan, shutdown, threadVars, waitVars, poolVars>>

\* The state sync goroutine ends, with an error or not; stateSyncDone is closed.
StateSyncEnds ==
    /\ stateSync = "running" /\ stateSync' \in {"done", "failed"}
    /\ UNCHANGED <<vmLock, engineVars, cancelled, shutdownChan, shutdown, threadVars, waitVars, poolVars>>

\* SetState(Bootstrapping), once any state sync ended; it fails if that failed.
onBootstrapStarted ==
    /\ EngineRuns /\ vmLock = "free" /\ vmState \in {"init", "syncing"}
    /\ stateSync # "running"
    /\ bootstrapped' = FALSE
    /\ vmState' = IF stateSync = "failed" THEN vmState ELSE "bootstrapping"
    /\ UNCHANGED <<vmLock, initFailed, builder, builderReady, stopVars, threadVars, waitVars, poolVars>>

\* SetState(NormalOp): nothing if it ran before, even when it failed.
normalOpAgain ==
    /\ EngineRuns /\ vmLock = "free" /\ vmState = "normal" /\ bootstrapped
    /\ UNCHANGED vars

\* SetState(NormalOp) up to validatorsManager.Initialize, which may fail; the
\* dispatch of validator set updates and the gossip subscription start.
onNormalOperationsStarted ==
    /\ EngineRuns /\ vmLock = "free" /\ vmState = "bootstrapping" /\ ~bootstrapped
    /\ vmState' = "normal" /\ bootstrapped' = TRUE
    /\ \/ /\ initFailed' = TRUE
          /\ UNCHANGED <<vmLock, dispatch, gossip>>
       \/ /\ vmLock' = "setstate" /\ dispatch' = "select" /\ gossip' = "run"
          /\ UNCHANGED initFailed
    /\ UNCHANGED <<builder, builderReady, stopVars, await, poll, automine, waitVars, poolVars>>

\* The builder is installed under builderLock; its goroutines start.
installBuilder ==
    /\ vmLock = "setstate" /\ ~builder
    /\ builder' = TRUE /\ await' = "select" /\ poll' = "select"
    /\ automine' = IF Automining THEN "select" ELSE "off"
    /\ UNCHANGED <<vmLock, vmState, bootstrapped, initFailed, builderReady, stopVars, dispatch, gossip, waitVars, poolVars>>

\* builderReady is closed, the gossip routines start, and SetState returns.
closeBuilderReady ==
    /\ vmLock = "setstate" /\ builder
    /\ builderReady' = TRUE /\ vmLock' = "free"
    /\ UNCHANGED <<vmState, bootstrapped, initFailed, builder, stopVars, threadVars, waitVars, poolVars>>

\* Connected, Disconnected and the admin calls hold vmLock for a while.
LockedCall ==
    /\ \/ vmLock = "free" /\ EngineRuns /\ vmLock' = "call"
       \/ vmLock = "call" /\ vmLock' = "free"
    /\ UNCHANGED <<engineVars, stopVars, threadVars, waitVars, poolVars>>

----------------------------------------------------------------------------
(* Shutdown *)

\* The lock is taken and the context cancelled; the validators manager writes
\* its state, which may fail and ends the call early.
Shutdown ==
    /\ EngineRuns /\ vmLock = "free"
    /\ cancelled' = TRUE
    /\ \/ vmLock' = "shutdown" /\ shutdown' = "cancelled"
       \/ bootstrapped /\ shutdown' = "error" /\ UNCHANGED vmLock
    /\ UNCHANGED <<engineVars, shutdownChan, stateSync, threadVars, waitVars, poolVars>>

\* Mutant: shutdownChan is left open.
closeShutdownChanForgotten ==
    /\ shutdown = "cancelled" /\ stateSync # "running"
    /\ shutdown' = "closed"
    /\ UNCHANGED <<vmLock, engineVars, cancelled, shutdownChan, stateSync, threadVars, waitVars, poolVars>>

\* The state sync client is waited for, then shutdownChan is closed.
closeShutdownChan ==
    /\ shutdown = "cancelled" /\ stateSync # "running"
    /\ shutdownChan' = TRUE /\ shutdown' = "closed"
    /\ UNCHANGED <<vmLock, engineVars, cancelled, stateSync, threadVars, waitVars, poolVars>>

\* eth.Stop: the pool ends its subscriptions and stops, the chain stops, and a
\* standalone database is closed.
StopBackend ==
    /\ shutdown = "closed"
    /\ shutdown' = "wait" /\ poolOpen' = FALSE /\ txEvent' = FALSE
    /\ UNCHANGED <<vmLock, engineVars, cancelled, shutdownChan, stateSync, threadVars, waitVars, pool, automineEvent>>

\* The goroutines counted by shutdownWg.
Exited == {"off", "exit"}
AllExited == \A g \in {dispatch, gossip, await, poll, automine} : g \in Exited

\* Mutant: Shutdown does not wait for the goroutines.
ShutdownReturnsAtOnce ==
    /\ shutdown = "wait"
    /\ shutdown' = "done" /\ vmLock' = "free"
    /\ UNCHANGED <<engineVars, cancelled, shutdownChan, stateSync, threadVars, waitVars, poolVars>>

\* shutdownWg.Wait, with vmLock held.
ShutdownReturns ==
    /\ shutdown = "wait" /\ AllExited
    /\ shutdown' = "done" /\ vmLock' = "free"
    /\ UNCHANGED <<engineVars, cancelled, shutdownChan, stateSync, threadVars, waitVars, poolVars>>

----------------------------------------------------------------------------
(* The background goroutines *)

\* Mutant: the lock is not released after the synchronisation.
DispatchSyncKeepsLock ==
    /\ \/ dispatch = "select" /\ dispatch' = "lock" /\ UNCHANGED vmLock
       \/ dispatch = "lock" /\ vmLock = "free" /\ dispatch' = "sync" /\ vmLock' = "dispatch"
       \/ dispatch = "sync" /\ dispatch' = "select" /\ UNCHANGED vmLock
    /\ UNCHANGED <<engineVars, stopVars, gossip, await, poll, automine, waitVars, poolVars>>

\* DispatchSync: a tick, then the lock, then a synchronisation.
DispatchSync ==
    /\ \/ dispatch = "select" /\ dispatch' = "lock" /\ UNCHANGED vmLock
       \/ dispatch = "lock" /\ vmLock = "free" /\ dispatch' = "sync" /\ vmLock' = "dispatch"
       \/ dispatch = "sync" /\ dispatch' = "select" /\ vmLock' = "free"
    /\ UNCHANGED <<engineVars, stopVars, gossip, await, poll, automine, waitVars, poolVars>>

\* The select of DispatchSync sees the cancelled context.
DispatchExits ==
    /\ dispatch = "select" /\ cancelled /\ dispatch' = "exit"
    /\ UNCHANGED <<vmLock, engineVars, stopVars, gossip, await, poll, automine, waitVars, poolVars>>

\* The gossip subscription and the gossip routines end with the context.
GossipEnds ==
    /\ gossip = "run" /\ cancelled /\ gossip' = "exit"
    /\ UNCHANGED <<vmLock, engineVars, stopVars, dispatch, await, poll, automine, waitVars, poolVars>>

\* waitForNeedToBuild holds buildBlockLock in these steps.
BuildLockFree == waiter \notin {"check", "context", "park"}

\* Broadcast wakes a call that is in Wait; one that is about to wait misses it.
Woken == IF waiter = "waiting" THEN "enter" ELSE waiter

\* awaitSubmittedTxs receives an event, then signals under buildBlockLock.
awaitSubmittedTxs ==
    /\ \/ /\ await = "select" /\ txEvent
          /\ await' = "signal" /\ txEvent' = FALSE /\ UNCHANGED waiter
       \/ /\ await = "signal" /\ BuildLockFree
          /\ await' = "select" /\ waiter' = Woken /\ UNCHANGED txEvent
    /\ UNCHANGED <<vmLock, engineVars, stopVars, dispatch, gossip, poll, automine,
                   waitCtx, waitHelper, pool, automineEvent, poolOpen>>

\* Mutant: the ticker signals only while transactions are pending.
pendingTxPollIdle ==
    /\ \/ poll = "select" /\ pool # {} /\ poll' = "signal" /\ UNCHANGED waiter
       \/ poll = "signal" /\ BuildLockFree /\ poll' = "select" /\ waiter' = Woken
    /\ UNCHANGED <<vmLock, engineVars, stopVars, dispatch, gossip, await, automine, waitCtx, waitHelper, poolVars>>

\* The backstop: a ticker that signals whether or not there is an event.
pendingTxPoll ==
    /\ \/ poll = "select" /\ poll' = "signal" /\ UNCHANGED waiter
       \/ poll = "signal" /\ BuildLockFree /\ poll' = "select" /\ waiter' = Woken
    /\ UNCHANGED <<vmLock, engineVars, stopVars, dispatch, gossip, await, automine, waitCtx, waitHelper, poolVars>>

\* startAutomining: an event starts a loop that builds and accepts blocks until
\* nothing is pending; the pool drops what a block included when it is reset.
automining ==
    /\ \/ /\ automine = "select" /\ automineEvent
          /\ automine' = "build" /\ automineEvent' = FALSE /\ UNCHANGED pool
       \/ /\ automine = "build" /\ BuildLockFree
          /\ pool' \in {pool} \cup (IF poolOpen /\ ~txEvent THEN {pool \ Mineable} ELSE {})
          /\ automine' = (IF pool' = {} THEN "select" ELSE "build")
          /\ UNCHANGED automineEvent
    /\ UNCHANGED <<vmLock, engineVars, stopVars, dispatch, gossip, await, poll, waitVars, txEvent, poolOpen>>

\* The selects of the builder's goroutines see shutdownChan; the inner loop of
\* automining does not look at it.
AwaitExits ==
    /\ await = "select" /\ shutdownChan /\ await' = "exit"
    /\ UNCHANGED <<vmLock, engineVars, stopVars, dispatch, gossip, poll, automine, waitVars, poolVars>>

PollExits ==
    /\ poll = "select" /\ shutdownChan /\ poll' = "exit"
    /\ UNCHANGED <<vmLock, engineVars, stopVars, dispatch, gossip, await, automine, waitVars, poolVars>>

AutomineExits ==
    /\ automine = "select" /\ shutdownChan /\ automine' = "exit"
    /\ UNCHANGED <<vmLock, engineVars, stopVars, dispatch, gossip, await, poll, waitVars, poolVars>>

----------------------------------------------------------------------------
(* The pool: transactions arrive, leave, and are announced.  The pending    *)
(* set does not change while an event is still being sent.                  *)

SubmitTx ==
    /\ poolOpen /\ ~txEvent
    /\ \E t \in Txs \ pool : pool' = pool \cup {t}
    /\ txEvent' = (await \notin Exited)
    /\ automineEvent' = (automineEvent \/ automine \notin Exited)
    /\ UNCHANGED <<vmLock, engineVars, stopVars, threadVars, waitVars, poolOpen>>

\* A block built by the engine is accepted, or transactions become invalid;
\* BuildBlock records its time under buildBlockLock.
BlockAccepted ==
    /\ poolOpen /\ ~txEvent /\ BuildLockFree /\ pool # {}
    /\ \E T \in SUBSET pool : T # {} /\ pool' = pool \ T
    /\ UNCHANGED <<vmLock, engineVars, stopVars, threadVars, waitVars, txEvent, automineEvent, poolOpen>>

----------------------------------------------------------------------------
(* WaitForEvent *)

Waiter(from, to) == waiter = from /\ waiter' = to
Return == waiter' = "idle" /\ waitHelper' = FALSE /\ waitCtx' = FALSE
OnlyWaiter == UNCHANGED <<vmLock, engineVars, stopVars, threadVars, poolVars>>

\* The call reads vm.builder under builderLock and parks if there is none.
WaitForEvent ==
    /\ EngineRuns /\ waiter = "idle"
    /\ IF builder THEN waiter' = "enter" /\ waitHelper' = TRUE
                  ELSE waiter' = "parked" /\ waitHelper' = FALSE
    /\ waitCtx' = FALSE
    /\ OnlyWaiter

\* Mutant: a parked call does not look at builderReady.
ParkedNotReady ==
    /\ waiter = "parked"
    /\ (waitCtx \/ stateSync \in {"done", "failed"} \/ shutdownChan) /\ Return
    /\ OnlyWaiter

\* The select of a call that came before the builder was there.
Parked ==
    /\ waiter = "parked"
    /\ \/ (waitCtx \/ stateSync \in {"done", "failed"} \/ shutdownChan) /\ Return
       \/ builderReady /\ waiter' = "enter" /\ waitHelper' = TRUE /\ UNCHANGED waitCtx
    /\ OnlyWaiter

\* waitForNeedToBuild, under buildBlockLock: the check for transactions, the
\* check of the context, and Wait, which enters the list and drops the lock.
WaitForNeedToBuild ==
    /\ \/ Waiter("enter", "check") /\ UNCHANGED <<waitCtx, waitHelper>>
       \/ waiter = "check" /\ pool = {} /\ waiter' = "context" /\ UNCHANGED <<waitCtx, waitHelper>>
       \/ waiter = "check" /\ pool # {} /\ waiter' = "pace" /\ waitHelper' = FALSE /\ UNCHANGED waitCtx
       \/ waiter = "context" /\ waitCtx /\ Return
       \/ waiter = "context" /\ ~waitCtx /\ waiter' = "park" /\ UNCHANGED <<waitCtx, waitHelper>>
       \/ Waiter("park", "waiting") /\ UNCHANGED <<waitCtx, waitHelper>>
    /\ OnlyWaiter

\* waitForEvent paces the answer: the timer fires or the context is cancelled.
Pace == waiter = "pace" /\ Return /\ OnlyWaiter

\* The caller cancels its context.
CancelWait ==
    /\ waiter # "idle" /\ ~waitCtx
    /\ waitCtx' = TRUE /\ UNCHANGED <<waiter, waitHelper>>
    /\ OnlyWaiter

\* The helper goroutine broadcasts, without buildBlockLock.
CancelBroadcast ==
    /\ waitHelper /\ waitCtx
    /\ waitHelper' = FALSE /\ waiter' = Woken /\ UNCHANGED waitCtx
    /\ OnlyWaiter

----------------------------------------------------------------------------
EngineNext ==
    \/ SetStateSyncing \/ acceptSyncSummary \/ onBootstrapStarted \/ normalOpAgain
    \/ onNormalOperationsStarted \/ Shutdown \/ WaitForEvent \/ CancelWait
PoolNext == SubmitTx \/ BlockAccepted
SetStateNext == installBuilder \/ closeBuilderReady
ShutdownNext == closeShutdownChan \/ StopBackend \/ ShutdownReturns
ExitNext == DispatchExits \/ GossipEnds \/ AwaitExits \/ PollExits \/ AutomineExits
WaiterNext == Parked \/ WaitForNeedToBuild \/ Pace

Next ==
    \/ EngineNext \/ PoolNext \/ SetStateNext \/ ShutdownNext \/ WaiterNext
    \/ StateSyncEnds \/ LockedCall
    \/ DispatchSync \/ awaitSubmittedTxs \/ pendingTxPoll \/ automining
    \/ ExitNext \/ CancelBroadcast

Spec == Init /\ [][Next]_vars
=============================================================================
