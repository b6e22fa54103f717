------------------------------ MODULE SyncerVM ------------------------------
(* The VM's side of state sync (plugin/evm/syncervm_client.go): after a     *)
(* start the engine accepts a state summary, the snapshot is wiped unless  *)
(* the summary continues the sync that was under way, blocks and state are *)
(* fetched, and the chain is moved to the synced block.  The process may   *)
(* stop between any two writes; the disk is what it starts from again.     *)
EXTENDS StateSync

CONSTANTS
    Height,         \* of the block of every summary
    MinBlocks,      \* stateSyncMinBlocks
    ParentsToGet,
    MaxStops        \* bound on crashes and shutdowns

VARIABLES
    phase,          \* of the client
    target,         \* root of the summary being synced
    resumable,      \* root of the summary of the sync under way at the start
    torn,           \* history: the wipe of the snapshot was begun, not ended
    stops           \* crashes and shutdowns so far

vmVars == <<phase, target, resumable, torn, stops>>

vars == <<disk, syncVars, vmVars, raced>>

HeightOf(r) == IF r = None THEN 0 ELSE Height[r]

\* One block per height: the chain is final up to the summaries' blocks.
BlocksOf(r) == {h \in 0 .. Height[r] : h > Height[r] - ParentsToGet}

NewDisk ==
    [summary |-> None, syncRoot |-> None, accounts |-> Empty,
     slots |-> [a \in Key |-> Empty], tries |-> {}, segments |-> {},
     queue |-> {}, toFetch |-> {}, code |-> {}, blocks |-> {0},
     head |-> None, accepted |-> None]

Init ==
    /\ disk = NewDisk
    /\ root = None
    /\ tries = [r \in {} |-> None]
    /\ inProgress = {}
    /\ segments = [queue |-> <<>>, closed |-> FALSE]
    /\ sem = 0
    /\ done = {}
    /\ worker = [w \in Workers |-> IdleWorker]
    /\ producer = IdleProducer
    /\ codeWorker = [w \in CodeWorkers |-> [pc |-> "work", batch |-> <<>>]]
    /\ codes = [queue |-> <<>>, closed |-> FALSE, outstanding |-> {}]
    /\ leafErr = "nil"
    /\ leafDone = FALSE
    /\ err = "nil"
    /\ panic = FALSE
    /\ raced = FALSE
    /\ phase = "boot"
    /\ target = None
    /\ resumable = None
    /\ torn = FALSE
    /\ stops = 0

\* acceptSyncSummary: the summary of the sync under way is resumed; another
\* one is skipped if the chain is close to it, and starts with a wipe.
AcceptSyncSummary(r) ==
    /\ phase = "boot"
    /\ target' = r
    /\ IF r = resumable
       THEN /\ phase' = "blocks"
            /\ disk' = [disk EXCEPT !.summary = r]
       ELSE /\ phase' = IF HeightOf(disk.accepted) + MinBlocks > Height[r]
                        THEN "skipped" ELSE "wipe"
            /\ UNCHANGED disk
    /\ UNCHANGED <<raced, syncVars, resumable, torn, stops>>

SnapshotEmpty ==
    disk.accounts = Empty /\ \A a \in Key : disk.slots[a] = Empty

\* Slots of the snapshot in the order of their database keys.
FirstSlot == Min({a \in Key : disk.slots[a] # Empty})

\* wipeContent: accounts, then storage, in batches.
WipeBatch ==
    /\ phase = "wipe" /\ ~SnapshotEmpty
    /\ disk' =
         IF disk.accounts # Empty
         THEN [disk EXCEPT !.accounts =
                 Within(@, DOMAIN @ \ {Min(DOMAIN @)})]
         ELSE [disk EXCEPT !.slots[FirstSlot] =
                 Within(@, DOMAIN @ \ {Min(DOMAIN @)})]
    /\ torn' = TRUE
    /\ UNCHANGED <<raced, syncVars, phase, target, resumable, stops>>

\* Only when the wipe is over does the database name the new summary.
WipeDone ==
    /\ phase = "wipe" /\ SnapshotEmpty
    /\ torn' = FALSE
    /\ disk' = [disk EXCEPT !.summary = target]
    /\ phase' = "blocks"
    /\ UNCHANGED <<raced, syncVars, target, resumable, stops>>

\* syncBlocks: the blocks on disk below the summary are passed over, the
\* rest is fetched and written in one batch.
OnDisk(r) ==
    {h \in BlocksOf(r) : \A g \in BlocksOf(r) : g >= h => g \in disk.blocks}

SyncBlocks ==
    /\ phase = "blocks"
    /\ LET fetched == BlocksOf(target) \ OnDisk(target)
       IN disk' = [disk EXCEPT !.blocks = @ \cup fetched]
    /\ phase' = "state"
    /\ UNCHANGED <<raced, syncVars, target, resumable, torn, stops>>

\* syncStateTrie.
SyncStateTrie ==
    /\ phase = "state" /\ root = None
    /\ StartSync(target)
    /\ UNCHANGED vmVars

\* MUTANT of SyncStateTrieDone: the error of the sync is dropped.
MutSyncStateTrieDone ==
    /\ phase = "state" /\ root # None /\ SyncEnded
    /\ phase' = "reset"
    /\ Quiet
    /\ UNCHANGED <<raced, disk, target, resumable, torn, stops>>

SyncStateTrieDone ==
    /\ phase = "state" /\ root # None /\ SyncEnded
    /\ phase' = IF err = "nil" THEN "reset" ELSE "failed"
    /\ Quiet
    /\ UNCHANGED <<raced, disk, target, resumable, torn, stops>>

\* finishSync: the chain is reset to the block, whose state must be there...
ResetToStateSyncedBlock ==
    /\ phase = "reset"
    /\ IF target \in disk.tries
       THEN /\ disk' = [disk EXCEPT !.head = target]
            /\ phase' = "markers"
       ELSE /\ phase' = "failed"
            /\ UNCHANGED disk
    /\ UNCHANGED <<raced, syncVars, target, resumable, torn, stops>>

\* ... and one commit moves the last accepted block and ends the sync.
UpdateVMMarkers ==
    /\ phase = "markers"
    /\ disk' = [disk EXCEPT !.accepted = target, !.summary = None]
    /\ phase' = "synced"
    /\ UNCHANGED <<raced, syncVars, target, resumable, torn, stops>>

\* onBootstrapStarted: without a sync, or after one that succeeded.
OnBootstrapStarted ==
    /\ phase \in {"boot", "skipped", "synced"}
    /\ disk' = [disk EXCEPT !.summary = None]
    /\ phase' = "bootstrapping"
    /\ UNCHANGED <<raced, syncVars, target, resumable, torn, stops>>

\* The engine's Shutdown cancels the sync.
Shutdown ==
    /\ phase = "state" /\ stops < MaxStops
    /\ Cancel
    /\ stops' = stops + 1
    /\ UNCHANGED <<phase, target, resumable, torn>>

\* The process dies at any moment, of itself after a failed sync or a panic.
\* A new one asks the client for the summary of the sync under way.
Crash ==
    /\ stops < MaxStops
    /\ stops' = stops + 1
    /\ Quiet
    /\ phase' = "boot"
    /\ target' = None
    /\ resumable' = disk.summary
    /\ UNCHANGED <<disk, torn, raced>>

Next ==
    \/ \E r \in MainRoots : AcceptSyncSummary(r)
    \/ WipeBatch
    \/ WipeDone
    \/ SyncBlocks
    \/ SyncStateTrie
    \/ (phase = "state" /\ SyncStep /\ UNCHANGED vmVars)
    \/ SyncStateTrieDone
    \/ ResetToStateSyncedBlock
    \/ UpdateVMMarkers
    \/ OnBootstrapStarted
    \/ Shutdown
    \/ Crash

Spec == Init /\ [][Next]_vars
=============================================================================
