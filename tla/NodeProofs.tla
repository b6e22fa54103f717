----------------------------- MODULE NodeProofs -----------------------------
(***************************************************************************)
(* For every set of transactions: vmLock is held by those it should be     *)
(* held by, and once Shutdown has returned nothing of the VM runs.         *)
(***************************************************************************)
EXTENDS NodeProps, TLAPS

\* The invariant in two parts: the flags, and where the threads are.
FlagsOK ==
    /\ bootstrapped \in BOOLEAN /\ initFailed \in BOOLEAN /\ builder \in BOOLEAN
    /\ builderReady \in BOOLEAN /\ cancelled \in BOOLEAN /\ shutdownChan \in BOOLEAN
    /\ waitCtx \in BOOLEAN /\ waitHelper \in BOOLEAN /\ txEvent \in BOOLEAN
    /\ automineEvent \in BOOLEAN /\ poolOpen \in BOOLEAN

PlacesOK ==
    /\ vmLock \in {"free", "setstate", "call", "shutdown", "dispatch"}
    /\ vmState \in {"init", "syncing", "bootstrapping", "normal"}
    /\ shutdown \in {"idle", "error", "cancelled", "closed", "wait", "done"}
    /\ stateSync \in {"off", "running", "done", "failed"}
    /\ dispatch \in {"off", "select", "lock", "sync", "exit"}
    /\ gossip \in {"off", "run", "exit"}
    /\ await \in {"off", "select", "signal", "exit"}
    /\ poll \in {"off", "select", "signal", "exit"}
    /\ automine \in {"off", "select", "build", "exit"}
    /\ waiter \in {"idle", "parked", "enter", "check", "context", "park", "waiting", "pace"}
    /\ pool \subseteq Txs
    /\ vmLock = "dispatch" <=> dispatch = "sync"
    /\ vmLock = "shutdown" <=> shutdown \in {"cancelled", "closed", "wait"}
    /\ vmLock \in {"setstate", "call"} => shutdown = "idle"
    /\ shutdown \in {"wait", "done"} => ~poolOpen
    /\ shutdown = "done" => AllExited /\ vmLock = "free"

\* Together they are the invariant.
LEMMA TwoParts == NodeInv <=> FlagsOK /\ PlacesOK
  <1>1. FlagsOK <=> {bootstrapped, initFailed, builder, builderReady, cancelled, shutdownChan,
                     waitCtx, waitHelper, txEvent, automineEvent, poolOpen} \subseteq BOOLEAN
        BY Zenon DEF FlagsOK
  <1>2. {await, poll} \subseteq {"off", "select", "signal", "exit"} <=>
            /\ await \in {"off", "select", "signal", "exit"}
            /\ poll \in {"off", "select", "signal", "exit"}
        BY Zenon
  <1> QED BY <1>1, <1>2, Zenon DEF NodeInv, NodeTypeOK, PlacesOK

\* The engine and the calls that hold vmLock keep the flags Boolean.
LEMMA EngineFlags ==
    ASSUME FlagsOK, EngineNext \/ LockedCall \/ SetStateNext
    PROVE  FlagsOK'
  <1> USE DEF FlagsOK, engineVars, stopVars, threadVars, waitVars, poolVars
  <1>1. CASE SetStateSyncing
        BY <1>1, Zenon DEF SetStateSyncing, EngineRuns
  <1>2. CASE acceptSyncSummary
        BY <1>2, Zenon DEF acceptSyncSummary, EngineRuns
  <1>3. CASE onBootstrapStarted
        BY <1>3, Zenon DEF onBootstrapStarted, EngineRuns
  <1>4. CASE normalOpAgain
        BY <1>4, Zenon DEF normalOpAgain, vars
  <1>5. CASE onNormalOperationsStarted
        BY <1>5, Zenon DEF onNormalOperationsStarted, EngineRuns
  <1>6. CASE Shutdown
        BY <1>6, Zenon DEF Shutdown, EngineRuns
  <1>7. CASE WaitForEvent
        BY <1>7, Zenon DEF WaitForEvent, EngineRuns, OnlyWaiter
  <1>8. CASE CancelWait
        BY <1>8, Zenon DEF CancelWait, OnlyWaiter
  <1>9. CASE LockedCall
        BY <1>9, Zenon DEF LockedCall, EngineRuns
  <1>10. CASE installBuilder
        BY <1>10, Zenon DEF installBuilder
  <1>11. CASE closeBuilderReady
        BY <1>11, Zenon DEF closeBuilderReady
  <1> QED BY <1>1, <1>2, <1>3, <1>4, <1>5, <1>6, <1>7, <1>8, <1>9, <1>10, <1>11
          DEF EngineNext, SetStateNext

\* The engine and the calls that hold vmLock keep every
\* thread at one of its places and vmLock with its holder.
LEMMA EnginePlaces ==
    ASSUME PlacesOK, EngineNext \/ LockedCall \/ SetStateNext
    PROVE  PlacesOK'
  <1> USE DEF PlacesOK, engineVars, stopVars, threadVars, waitVars, poolVars, AllExited, Exited
  <1>1. CASE SetStateSyncing
        BY <1>1 DEF SetStateSyncing, EngineRuns
  <1>2. CASE acceptSyncSummary
        BY <1>2 DEF acceptSyncSummary, EngineRuns
  <1>3. CASE onBootstrapStarted
        BY <1>3 DEF onBootstrapStarted, EngineRuns
  <1>4. CASE normalOpAgain
        BY <1>4 DEF normalOpAgain, vars
  <1>5. CASE onNormalOperationsStarted
        BY <1>5 DEF onNormalOperationsStarted, EngineRuns
  <1>6. CASE Shutdown
        BY <1>6 DEF Shutdown, EngineRuns
  <1>7. CASE WaitForEvent
        BY <1>7 DEF WaitForEvent, EngineRuns, OnlyWaiter
  <1>8. CASE CancelWait
        BY <1>8 DEF CancelWait, OnlyWaiter
  <1>9. CASE LockedCall
        BY <1>9 DEF LockedCall, EngineRuns
  <1>10. CASE installBuilder
        BY <1>10, NodeAssumption DEF installBuilder
  <1>11. CASE closeBuilderReady
        BY <1>11 DEF closeBuilderReady
  <1> QED BY <1>1, <1>2, <1>3, <1>4, <1>5, <1>6, <1>7, <1>8, <1>9, <1>10, <1>11
          DEF EngineNext, SetStateNext

\* Shutdown and the end of the state sync keep the flags Boolean.
LEMMA ShutdownFlags ==
    ASSUME FlagsOK, ShutdownNext \/ StateSyncEnds
    PROVE  FlagsOK'
  <1> USE DEF FlagsOK, engineVars, stopVars, threadVars, waitVars, poolVars
  <1>1. CASE closeShutdownChan
        BY <1>1, Zenon DEF closeShutdownChan
  <1>2. CASE StopBackend
        BY <1>2, Zenon DEF StopBackend
  <1>3. CASE ShutdownReturns
        BY <1>3, Zenon DEF ShutdownReturns
  <1>4. CASE StateSyncEnds
        BY <1>4, ZenonT(40) DEF StateSyncEnds
  <1> QED BY <1>1, <1>2, <1>3, <1>4 DEF ShutdownNext

\* Shutdown and the end of the state sync keep every
\* thread at one of its places and vmLock with its holder.
LEMMA ShutdownPlaces ==
    ASSUME PlacesOK, ShutdownNext \/ StateSyncEnds
    PROVE  PlacesOK'
  <1> USE DEF PlacesOK, engineVars, stopVars, threadVars, waitVars, poolVars, AllExited, Exited
  <1>1. CASE closeShutdownChan
        BY <1>1 DEF closeShutdownChan
  <1>2. CASE StopBackend
        BY <1>2 DEF StopBackend
  <1>3. CASE ShutdownReturns
        BY <1>3 DEF ShutdownReturns
  <1>4. CASE StateSyncEnds
        BY <1>4 DEF StateSyncEnds
  <1> QED BY <1>1, <1>2, <1>3, <1>4 DEF ShutdownNext

\* The goroutines keep the flags Boolean.
LEMMA ThreadFlags ==
    ASSUME FlagsOK, DispatchSync \/ awaitSubmittedTxs \/ pendingTxPoll \/ automining \/ ExitNext
    PROVE  FlagsOK'
  <1> USE DEF FlagsOK, engineVars, stopVars, threadVars, waitVars, poolVars
  <1>1. CASE DispatchSync
        BY <1>1, ZenonT(40) DEF DispatchSync
  <1>2. CASE awaitSubmittedTxs
        BY <1>2, ZenonT(40) DEF awaitSubmittedTxs, Woken
  <1>3. CASE pendingTxPoll
        BY <1>3, Zenon DEF pendingTxPoll, Woken
  <1>4. CASE automining
        BY <1>4, ZenonT(40) DEF automining
  <1>5. CASE DispatchExits
        BY <1>5, Zenon DEF DispatchExits
  <1>6. CASE GossipEnds
        BY <1>6, Zenon DEF GossipEnds
  <1>7. CASE AwaitExits
        BY <1>7, Zenon DEF AwaitExits
  <1>8. CASE PollExits
        BY <1>8, Zenon DEF PollExits
  <1>9. CASE AutomineExits
        BY <1>9, Zenon DEF AutomineExits
  <1> QED BY <1>1, <1>2, <1>3, <1>4, <1>5, <1>6, <1>7, <1>8, <1>9 DEF ExitNext

\* The goroutines keep every
\* thread at one of its places and vmLock with its holder.
LEMMA ThreadPlaces ==
    ASSUME PlacesOK, DispatchSync \/ awaitSubmittedTxs \/ pendingTxPoll \/ automining \/ ExitNext
    PROVE  PlacesOK'
  <1> USE DEF PlacesOK, engineVars, stopVars, threadVars, waitVars, poolVars, AllExited, Exited
  <1>1. CASE DispatchSync
        BY <1>1 DEF DispatchSync
  <1>2. CASE awaitSubmittedTxs
        BY <1>2 DEF awaitSubmittedTxs, Woken
  <1>3. CASE pendingTxPoll
        BY <1>3 DEF pendingTxPoll, Woken
  <1>4. CASE automining
        BY <1>4 DEF automining
  <1>5. CASE DispatchExits
        BY <1>5 DEF DispatchExits
  <1>6. CASE GossipEnds
        BY <1>6 DEF GossipEnds
  <1>7. CASE AwaitExits
        BY <1>7 DEF AwaitExits
  <1>8. CASE PollExits
        BY <1>8 DEF PollExits
  <1>9. CASE AutomineExits
        BY <1>9 DEF AutomineExits
  <1> QED BY <1>1, <1>2, <1>3, <1>4, <1>5, <1>6, <1>7, <1>8, <1>9 DEF ExitNext

\* The pool and the caller of WaitForEvent keep the flags Boolean.
LEMMA WaiterFlags ==
    ASSUME FlagsOK, PoolNext \/ WaiterNext \/ CancelBroadcast
    PROVE  FlagsOK'
  <1> USE DEF FlagsOK, engineVars, stopVars, threadVars, waitVars, poolVars
  <1>1. CASE SubmitTx
        BY <1>1, Zenon DEF SubmitTx
  <1>2. CASE BlockAccepted
        BY <1>2, Zenon DEF BlockAccepted
  <1>3. CASE Parked
        BY <1>3, Zenon DEF Parked, Return, OnlyWaiter
  <1>4. CASE WaitForNeedToBuild
    <2>1. waitCtx' \in BOOLEAN /\ waitHelper' \in BOOLEAN
          BY <1>4, Zenon DEF WaitForNeedToBuild, Waiter, Return
    <2>2. OnlyWaiter
          BY <1>4, Zenon DEF WaitForNeedToBuild
    <2> QED BY <2>1, <2>2, Zenon DEF OnlyWaiter
  <1>5. CASE Pace
        BY <1>5, Zenon DEF Pace, Return, OnlyWaiter
  <1>6. CASE CancelBroadcast
        BY <1>6, Zenon DEF CancelBroadcast, Woken, OnlyWaiter
  <1> QED BY <1>1, <1>2, <1>3, <1>4, <1>5, <1>6 DEF PoolNext, WaiterNext

\* The pool and the caller of WaitForEvent keep every
\* thread at one of its places and vmLock with its holder.
LEMMA WaiterPlaces ==
    ASSUME PlacesOK, PoolNext \/ WaiterNext \/ CancelBroadcast
    PROVE  PlacesOK'
  <1> USE DEF PlacesOK, engineVars, stopVars, threadVars, waitVars, poolVars, AllExited, Exited
  <1>1. CASE SubmitTx
        BY <1>1 DEF SubmitTx
  <1>2. CASE BlockAccepted
        BY <1>2 DEF BlockAccepted
  <1>3. CASE Parked
        BY <1>3 DEF Parked, Return, OnlyWaiter
  <1>4. CASE WaitForNeedToBuild
        BY <1>4 DEF WaitForNeedToBuild, Waiter, Return, OnlyWaiter
  <1>5. CASE Pace
        BY <1>5 DEF Pace, Return, OnlyWaiter
  <1>6. CASE CancelBroadcast
        BY <1>6 DEF CancelBroadcast, Woken, OnlyWaiter
  <1> QED BY <1>1, <1>2, <1>3, <1>4, <1>5, <1>6 DEF PoolNext, WaiterNext
\* Init is in the invariant.
LEMMA InitNode == Init => NodeInv
  BY Zenon DEF Init, NodeInv, NodeTypeOK

\* The invariant holds.
LEMMA NodeInvariant == Spec => []NodeInv
  <1>1. NodeInv /\ [Next]_vars => NodeInv'
    <2>1. ASSUME NodeInv, UNCHANGED vars PROVE NodeInv'
          BY <2>1 DEF vars, NodeInv, NodeTypeOK, engineVars, stopVars, threadVars, waitVars,
                      poolVars, AllExited
    <2>2. ASSUME FlagsOK, Next PROVE FlagsOK'
          BY <2>2, EngineFlags, ShutdownFlags, ThreadFlags, WaiterFlags DEF Next
    <2>3. ASSUME PlacesOK, Next PROVE PlacesOK'
          BY <2>3, EnginePlaces, ShutdownPlaces, ThreadPlaces, WaiterPlaces DEF Next
    <2>4. NodeInv' <=> FlagsOK' /\ PlacesOK'
          BY TwoParts, PTL
    <2> QED BY <2>1, <2>2, <2>3, <2>4, TwoParts
  <1> QED BY <1>1, InitNode, PTL DEF Spec

\* Once Shutdown has returned, no step changes the goroutines, the pool or the
\* lock: none of them is left to take one (VM.Shutdown, shutdownWg).
LEMMA QuietStep ==
    ASSUME NodeInv, shutdown = "done", [Next]_vars
    PROVE  UNCHANGED <<threadVars, pool, vmLock>>
  <1>1. AllExited /\ ~poolOpen /\ vmLock = "free"
        BY DEF NodeInv
  <1>2. /\ dispatch \in {"off", "exit"} /\ gossip \in {"off", "exit"} /\ await \in {"off", "exit"}
        /\ poll \in {"off", "exit"} /\ automine \in {"off", "exit"}
        BY <1>1 DEF AllExited, Exited
  <1>3. CASE EngineNext \/ LockedCall \/ SetStateNext
        BY <1>1, <1>3
        DEF EngineNext, SetStateNext, SetStateSyncing, acceptSyncSummary, onBootstrapStarted,
            normalOpAgain, onNormalOperationsStarted, Shutdown, WaitForEvent, CancelWait,
            LockedCall, installBuilder, closeBuilderReady, EngineRuns, OnlyWaiter, poolVars, vars
  <1>4. CASE ShutdownNext \/ StateSyncEnds \/ PoolNext \/ WaiterNext \/ CancelBroadcast
        BY <1>1, <1>4
        DEF ShutdownNext, closeShutdownChan, StopBackend, ShutdownReturns, StateSyncEnds, PoolNext,
            SubmitTx, BlockAccepted, WaiterNext, Parked, WaitForNeedToBuild, Pace, CancelBroadcast,
            OnlyWaiter, poolVars
  <1>5. CASE DispatchSync \/ awaitSubmittedTxs \/ pendingTxPoll \/ automining \/ ExitNext
        BY <1>2, <1>5
        DEF DispatchSync, awaitSubmittedTxs, pendingTxPoll, automining, ExitNext, DispatchExits,
            GossipEnds, AwaitExits, PollExits, AutomineExits
  <1>6. CASE UNCHANGED vars
        BY <1>6 DEF vars, poolVars
  <1> QED BY <1>3, <1>4, <1>5, <1>6 DEF Next

\* vmLock belongs to the dispatch exactly while it synchronises and to Shutdown
\* until it returns, and nothing runs after that, for any set of transactions
\* and with automining on or off.
THEOREM ShutdownIsQuiet == Spec => QuietAfterShutdown
  <1>1. NodeInv => NodeTypeOK
        BY DEF NodeInv
  <1>2. NodeInv /\ [Next]_vars => [shutdown = "done" => UNCHANGED <<threadVars, pool, vmLock>>]_vars
        BY QuietStep
  <1> QED BY <1>1, <1>2, NodeInvariant, PTL DEF Spec, QuietAfterShutdown
=============================================================================
