----------------------------- MODULE BlockChain -----------------------------
(***************************************************************************)
(* core.BlockChain between the consensus engine and the database: verified *)
(* blocks are inserted, a preference is chosen, blocks are accepted or     *)
(* rejected; accepted blocks are processed asynchronously by the acceptor  *)
(* goroutine; the process may crash at any step and recovers from what the *)
(* database holds.                                                         *)
(*                                                                         *)
(* The chain database and the VM's versiondb are committed separately:     *)
(* chaindb writes (blocks, canonical rows, head, acceptor tip, tries) take *)
(* effect at once, while lastAcceptedKey is written at the end of          *)
(* Block.Accept (plugin/evm/block.go), after BlockChain.Accept returned.   *)
(*                                                                         *)
(* Modelled configuration: hash-scheme trie database, transaction indexing *)
(* on, snapshots off (SnapshotLimit = 0, so bc.snaps = nil), no state sync.*)
(* The consensus engine is external: it calls the VM under one lock,       *)
(* verifies a block only on a verified or the last accepted parent, and    *)
(* the network never finalizes two blocks of one height.                   *)
(***************************************************************************)
EXTENDS TrieWriter

CONSTANTS
    AcceptorQueueLimit, \* CacheConfig.AcceptorQueueLimit: capacity of acceptorQueue
    IndexBatchSize,     \* reorg's indexBatchSize: canonical rows deleted per batch
    Equivocation,       \* may the engine finalize a sibling it had rejected?
    StagedSeq           \* StagedSeq[b]: staged atomic requests in the state of b

ASSUME ChainAssumption ==
    /\ AcceptorQueueLimit \in Nat \ {0}
    /\ IndexBatchSize \in Nat \ {0}
    /\ Equivocation \in BOOLEAN
    /\ StagedSeq \in [Block -> Nat] /\ StagedSeq[Genesis] = 0
    /\ \A b \in Block : \A h \in 0..Height[b] :
          StagedSeq[Path[b][h]] <= StagedSeq[b]   \* staging is append-only

VARIABLES
    (* chaindb *)
    blocks,          \* stored blocks (header, body, receipts)
    canonical,       \* canonical hash by height, or NoBlock
    headKey,         \* the head block hash
    tipKey,          \* the acceptor tip, or NoBlock
    indexed,         \* blocks whose transaction lookup entries are written
    trie,            \* the trie database; trie.disk survives a crash
    (* versiondb and shared memory *)
    lastAcceptedKey, \* NoBlock until the first block is accepted
    marker,          \* dexAtomicSeqKey
    applied,         \* how often each staged request reached shared memory
    (* memory of the process *)
    status,          \* "down", "loading", "recovering", "up", "failed"
    currentBlock,    \* the head of the canonical chain
    lastAccepted,    \* the last block consensus accepted
    acceptorTip,     \* the last accepted block that was processed
    acceptorQueue,   \* accepted blocks waiting for the acceptor
    acceptor,        \* what the acceptor goroutine is doing: [step, block]
    accepting,       \* what Block.Accept is doing: [step, block]
    tips,            \* stateManager.tipBuffer
    recovery,        \* the local variables of reprocessState
    (* the consensus engine *)
    verified,        \* processing blocks: verified, neither accepted nor rejected
    rejected,        \* blocks rejected since the last start
    finalized        \* blocks the network decided, whatever this node remembers

chaindb == <<blocks, canonical, headKey, tipKey, indexed>>
versiondb == <<lastAcceptedKey, marker, applied>>
memory == <<status, currentBlock, lastAccepted, acceptorTip, acceptorQueue,
            acceptor, accepting, tips, recovery>>
engine == <<verified, rejected, finalized>>
vars == <<chaindb, trie, versiondb, memory, engine>>

Idle == [step |-> "idle", block |-> NoBlock]
NoRecovery == [cursor |-> NoBlock, tip |-> NoBlock,
               writeIndices |-> FALSE, reexecuted |-> FALSE]

Max2(m, n) == IF m > n THEN m ELSE n

----------------------------------------------------------------------------
(* The canonical chain *)

\* Heights of the blocks of new's chain that are not on old's (newChain), and
\* of old's that are not on new's (oldChain).
AddedRows(old, new) ==
    {h \in 0..Height[new] : h > Height[old] \/ Path[old][h] # Path[new][h]}

\* Rows above the new head, up to the first missing one.
MutRowsAbove(rows, new) == {}
RowsAbove(rows, new) ==
    {h \in Heights : /\ h > Height[new]
                     /\ \A k \in Heights : Height[new] < k /\ k <= h
                                           => rows[k] # NoBlock}

\* Every block the two walks of reorg down to the common ancestor load.
ReorgLoads(old, new) ==
    {old} \cup {Path[old][h - 1] : h \in AddedRows(new, old)}
          \cup {Path[new][h - 1] : h \in AddedRows(old, new)}

MutReorgBound(accepted, old, new) ==
    /\ ReorgLoads(old, new) \subseteq blocks
    /\ \E h \in 0..Height[new] : /\ Height[accepted] < h /\ h <= Height[old]
                                 /\ Path[old][h] = Path[new][h]
\* reorg fails when a block is missing or when the common ancestor is below
\* the last accepted block.
ReorgAllowed(accepted, old, new) ==
    /\ ReorgLoads(old, new) \subseteq blocks
    /\ \E h \in 0..Height[new] : /\ Height[accepted] <= h /\ h <= Height[old]
                                 /\ Path[old][h] = Path[new][h]

PreferenceAllowed(accepted, old, new) ==
    old = new \/ Parent(new) = old \/ ReorgAllowed(accepted, old, new)

\* The canonical rows after writeHeadBlock(b) on rows.
WriteHead(rows, b) == [rows EXCEPT ![Height[b]] = b]

\* The canonical rows after setPreference(new): nothing, a new tip, or a reorg.
Reorg(rows, old, new) ==
    [h \in Heights |-> IF h \in AddedRows(old, new) THEN Path[new][h]
                       ELSE IF h \in RowsAbove(rows, new) THEN NoBlock
                       ELSE rows[h]]

SetPreferenceRows(rows, old, new) ==
    IF old = new THEN rows
    ELSE WriteHead(IF Parent(new) = old THEN rows ELSE Reorg(rows, old, new), new)
----------------------------------------------------------------------------
(* The engine's calls.  Each holds the VM lock and bc.chainmu, so none of  *)
(* them starts while Block.Accept is in progress.                          *)

Serving == status = "up" /\ accepting = Idle

\* Block.verify -> InsertBlockManual -> insertBlock: the block is executed on
\* its parent's state (which must be available), stored, its trie inserted,
\* and it becomes the head if it extends the current one.
Verify(b) ==
    /\ Serving
    /\ b \notin verified \cup rejected
    /\ Parent(b) \in verified \cup {lastAccepted}
    /\ HasState(trie, Root[Parent(b)])
    /\ blocks' = blocks \cup {b}
    /\ trie' \in InsertTrie(Update(trie, Root[b]))
    /\ IF Parent(b) = currentBlock
       THEN /\ canonical' = WriteHead(canonical, b)
            /\ headKey' = b
            /\ currentBlock' = b
       ELSE UNCHANGED <<canonical, headKey, currentBlock>>
    /\ verified' = verified \cup {b}
    /\ UNCHANGED <<tipKey, indexed, versiondb, status, lastAccepted, acceptorTip,
                   acceptorQueue, acceptor, accepting, tips, recovery,
                   rejected, finalized>>

\* BlockChain.setPreference: the head moves to b, with a reorg if needed.
SetPreference(b) ==
    /\ Serving
    /\ b \in verified \cup {lastAccepted}
    /\ PreferenceAllowed(lastAccepted, currentBlock, b)
    /\ canonical' = SetPreferenceRows(canonical, currentBlock, b)
    /\ headKey' = b
    /\ currentBlock' = b
    /\ UNCHANGED <<blocks, tipKey, indexed, trie, versiondb, status, lastAccepted,
                   acceptorTip, acceptorQueue, acceptor, accepting, tips, recovery,
                   engine>>

\* The blocks consensus may accept next.
Acceptable ==
    {b \in verified \cup (IF Equivocation THEN rejected ELSE {}) :
        /\ Parent(b) = lastAccepted
        /\ \A c \in finalized : Height[c] = Height[b] => c = b}

\* The state of an accepted block is there, or is re-executed on its parent's.
EnsureState(b) ==
    IF HasState(trie, Root[b])
    THEN UNCHANGED trie
    ELSE /\ HasState(trie, Root[lastAccepted])
         /\ trie' = Update(trie, Root[b])

\* Block.Accept up to the send on acceptorQueue: b is made canonical, its state
\* is re-executed on the parent's if it is gone, and it is the last accepted.
Accept(b) ==
    /\ Serving
    /\ b \in Acceptable
    /\ IF canonical[Height[b]] = b
       THEN UNCHANGED <<canonical, headKey, currentBlock>>
       ELSE /\ PreferenceAllowed(lastAccepted, currentBlock, b)
            /\ canonical' = SetPreferenceRows(canonical, currentBlock, b)
            /\ headKey' = b
            /\ currentBlock' = b
    /\ EnsureState(b)
    /\ lastAccepted' = b
    /\ accepting' = [step |-> "enqueue", block |-> b]
    /\ verified' = verified \ {b}
    /\ rejected' = rejected \ {b}
    /\ finalized' = finalized \cup {b}
    /\ UNCHANGED <<blocks, tipKey, indexed, versiondb, status, acceptorTip,
                   acceptorQueue, acceptor, tips, recovery>>

\* addAcceptorQueue: the send blocks while the queue is full.
MutQueueHasRoom == TRUE
QueueHasRoom == Len(acceptorQueue) < AcceptorQueueLimit

Enqueue ==
    /\ status = "up" /\ accepting.step = "enqueue"
    /\ QueueHasRoom
    /\ acceptorQueue' = Append(acceptorQueue, accepting.block)
    /\ accepting' = [accepting EXCEPT !.step = "commit"]
    /\ UNCHANGED <<chaindb, trie, versiondb, status, currentBlock, lastAccepted,
                   acceptorTip, acceptor, tips, recovery, engine>>

\* stageDexAtomic: the staged requests after the parent's that are not yet
\* marked as applied; without the parent's state the marker is the lower bound.
FlushFrom(b) ==
    IF HasState(trie, Root[Parent(b)]) THEN Max2(StagedSeq[Parent(b)], marker)
    ELSE marker

MutNextMarker(b) == marker
NextMarker(b) == IF StagedSeq[b] = FlushFrom(b) THEN marker ELSE StagedSeq[b]

\* The rest of Block.Accept: lastAcceptedKey, the marker and the shared-memory
\* requests reach the database in one write.
CommitAccepted ==
    LET b == accepting.block IN
    /\ status = "up" /\ accepting.step = "commit"
    /\ HasState(trie, Root[b])
    /\ StagedSeq[b] >= FlushFrom(b)
    /\ lastAcceptedKey' = b
    /\ marker' = NextMarker(b)
    /\ applied' = [s \in DOMAIN applied |->
                      IF FlushFrom(b) < s /\ s <= StagedSeq[b]
                      THEN applied[s] + 1 ELSE applied[s]]
    /\ accepting' = Idle
    /\ UNCHANGED <<chaindb, trie, status, currentBlock, lastAccepted, acceptorTip,
                   acceptorQueue, acceptor, tips, recovery, engine>>

\* Blocks the engine may reject: conflicting with an accepted block, parents
\* first; under equivocation also a side block nothing was built on.
Rejectable ==
    {b \in verified :
        \/ ~OnPath(lastAccepted, b) /\ Parent(b) \notin verified
        \/ /\ Equivocation
           /\ ~OnPath(b, currentBlock)
           /\ \A c \in verified : Parent(c) # b}

\* BlockChain.Reject: the trie is dereferenced and the block deleted.
Reject(b) ==
    /\ Serving
    /\ b \in Rejectable
    /\ trie' = RejectTrie(trie, b)
    /\ blocks' = blocks \ {b}
    /\ verified' = verified \ {b}
    /\ rejected' = rejected \cup {b}
    /\ UNCHANGED <<canonical, headKey, tipKey, indexed, versiondb, memory, finalized>>

----------------------------------------------------------------------------
(* The acceptor goroutine (startAcceptor), one step per effect. *)

\* The receive from acceptorQueue.
MutCanReceive == Len(acceptorQueue) > 1
CanReceive == acceptorQueue # <<>>

Dequeue ==
    /\ status = "up" /\ acceptor = Idle /\ CanReceive
    /\ acceptor' = [step |-> "indices", block |-> Head(acceptorQueue)]
    /\ acceptorQueue' = Tail(acceptorQueue)
    /\ UNCHANGED <<chaindb, trie, versiondb, status, currentBlock, lastAccepted,
                   acceptorTip, accepting, tips, recovery, engine>>

\* writeBlockAcceptedIndices: lookup entries and acceptor tip in one batch.
WriteIndices ==
    /\ status = "up" /\ acceptor.step = "indices"
    /\ indexed' = indexed \cup {acceptor.block}
    /\ tipKey' = acceptor.block
    /\ acceptor' = [acceptor EXCEPT !.step = "trie"]
    /\ UNCHANGED <<blocks, canonical, headKey, trie, versiondb, status, currentBlock,
                   lastAccepted, acceptorTip, acceptorQueue, accepting, tips,
                   recovery, engine>>

\* flattenSnapshot without snapshots: stateManager.AcceptTrie.
ProcessTrie ==
    /\ status = "up" /\ acceptor.step = "trie"
    /\ trie' \in AcceptTrie(trie, tips, acceptor.block)
    /\ tips' = AcceptTips(tips, acceptor.block)
    /\ acceptor' = [acceptor EXCEPT !.step = "tip"]
    /\ UNCHANGED <<chaindb, versiondb, status, currentBlock, lastAccepted,
                   acceptorTip, acceptorQueue, accepting, recovery, engine>>

\* The tip moves before the accepted events are sent and the group is done.
PublishTip ==
    /\ status = "up" /\ acceptor.step = "tip"
    /\ acceptorTip' = acceptor.block
    /\ acceptor' = Idle
    /\ UNCHANGED <<chaindb, trie, versiondb, status, currentBlock, lastAccepted,
                   acceptorQueue, accepting, tips, recovery, engine>>

----------------------------------------------------------------------------
(* Shutdown and crashes *)

\* What a process that ends leaves behind: its memory is gone, and the engine
\* forgets the blocks it was processing.
Exit(newStatus, t) ==
    /\ status' = newStatus
    /\ trie' = EmptyTrieDB(t.disk)
    /\ currentBlock' = NoBlock /\ lastAccepted' = NoBlock /\ acceptorTip' = NoBlock
    /\ acceptorQueue' = <<>> /\ acceptor' = Idle /\ accepting' = Idle
    /\ tips' = <<>> /\ recovery' = NoRecovery
    /\ verified' = {} /\ rejected' = {}
    /\ UNCHANGED finalized

\* Stop waits for the acceptor to drain, then commits the newest tip.
Stop ==
    /\ Serving
    /\ acceptorQueue = <<>> /\ acceptor = Idle
    /\ Exit("down", Shutdown(trie, tips))
    /\ UNCHANGED <<chaindb, versiondb>>

Crash ==
    /\ status \in {"up", "loading", "recovering"}
    /\ Exit("down", trie)
    /\ UNCHANGED <<chaindb, versiondb>>

\* The database after a prefix of the writes of reorg: newChain row by row from
\* the lowest, each with the head pointer, then the rows above the new head in
\* batches of IndexBatchSize; the new head itself is written last.
PartialReorg(old, new) ==
    LET added == AddedRows(old, new) \ {Height[new]}
        above == RowsAbove(canonical, new)
    IN
    \E h \in Heights, k \in Heights :
        LET written == {r \in added : r <= h}
            deleted == {r \in above : r <= k}
        IN
        /\ written # {} => h \in added
        /\ deleted # {} => written = added
        /\ deleted = above \/ (k - Height[new]) % IndexBatchSize = 0
        /\ canonical' = [r \in Heights |-> IF r \in written THEN Path[new][r]
                                           ELSE IF r \in deleted THEN NoBlock
                                           ELSE canonical[r]]
        /\ headKey' = IF written = {} THEN headKey ELSE Path[new][h]

CrashInReorg(b) ==
    /\ Serving
    /\ b \in verified \cup {lastAccepted} \cup Acceptable
    /\ currentBlock # b /\ Parent(b) # currentBlock
    /\ ReorgAllowed(lastAccepted, currentBlock, b)
    /\ PartialReorg(currentBlock, b)
    /\ Exit("down", trie)
    /\ UNCHANGED <<blocks, tipKey, indexed, versiondb>>

\* A crash inside insertBlock, after the block is stored and before it is head.
CrashInInsert(b) ==
    /\ Serving
    /\ b \notin verified \cup rejected
    /\ Parent(b) \in verified \cup {lastAccepted}
    /\ HasState(trie, Root[Parent(b)])
    /\ blocks' = blocks \cup {b}
    /\ Exit("down", trie)
    /\ UNCHANGED <<canonical, headKey, tipKey, indexed, versiondb>>

----------------------------------------------------------------------------
(* Start-up: NewBlockChain -> loadLastState -> reprocessState *)

\* readLastAccepted: genesis until a block was accepted.
BootBlock == IF lastAcceptedKey = NoBlock THEN Genesis ELSE lastAcceptedKey

\* The search of reprocessState starts at the acceptor tip if there is one...
SearchFrom == IF tipKey = NoBlock THEN BootBlock ELSE tipKey

\* ...and visits the stored ancestors, at most 2*CommitInterval below it, until
\* it finds one whose state is on disk.
MutStateHeights ==
    {h \in 0..Height[SearchFrom] :
        /\ Height[SearchFrom] - h < CommitInterval
        /\ Root[Path[SearchFrom][h]] \in trie.disk
        /\ \A k \in h..Height[SearchFrom] : Path[SearchFrom][k] \in blocks}
StateHeights ==
    {h \in 0..Height[SearchFrom] :
        /\ Height[SearchFrom] - h <= 2 * CommitInterval
        /\ Root[Path[SearchFrom][h]] \in trie.disk
        /\ \A k \in h..Height[SearchFrom] : Path[SearchFrom][k] \in blocks}

NotRunning == status \in {"down", "failed"}

\* loadLastState: the last accepted block and the stored head are loaded and the
\* head is set to the last accepted block.
BootPossible ==
    /\ {headKey, BootBlock} \subseteq blocks
    /\ PreferenceAllowed(BootBlock, headKey, BootBlock)

Boot ==
    /\ NotRunning
    /\ BootPossible
    /\ canonical' = SetPreferenceRows(canonical, headKey, BootBlock)
    /\ headKey' = BootBlock
    /\ currentBlock' = BootBlock
    /\ lastAccepted' = BootBlock
    /\ status' = "loading"
    /\ UNCHANGED <<blocks, tipKey, indexed, trie, versiondb, acceptorTip,
                   acceptorQueue, acceptor, accepting, tips, recovery, engine>>

CrashInBoot ==
    /\ NotRunning
    /\ BootPossible
    /\ headKey # BootBlock /\ Parent(BootBlock) # headKey
    /\ PartialReorg(headKey, BootBlock)
    /\ Exit("down", trie)
    /\ UNCHANGED <<blocks, tipKey, indexed, versiondb>>

\* The chain is loaded and the acceptor started with an empty queue.
MutStart ==
    /\ status' = "up"
    /\ acceptorTip' = IF tipKey = NoBlock THEN Genesis ELSE tipKey
    /\ recovery' = NoRecovery
Start ==
    /\ status' = "up"
    /\ acceptorTip' = lastAccepted
    /\ recovery' = NoRecovery

\* reprocessState up to its loop: nothing to do, or a block to start from.
UpToDate == Root[lastAccepted] \in trie.disk /\ tipKey \in {NoBlock, lastAccepted}

BeginRecovery ==
    /\ status = "loading"
    /\ IF UpToDate
       THEN Start
       ELSE \E h \in StateHeights :
            /\ \A k \in StateHeights : k <= h
            /\ status' = "recovering"
            /\ recovery' = [cursor |-> Path[SearchFrom][h], tip |-> tipKey,
                            writeIndices |-> FALSE, reexecuted |-> FALSE]
            /\ UNCHANGED acceptorTip
    /\ UNCHANGED <<chaindb, trie, versiondb, currentBlock, lastAccepted,
                   acceptorQueue, acceptor, accepting, tips, engine>>

\* One iteration of the loop: the next canonical block is re-executed; from the
\* acceptor tip on its indices are written; the previous root is released.
InLoop == status = "recovering" /\ Height[recovery.cursor] < Height[lastAccepted]
LoopDone == status = "recovering" /\ Height[recovery.cursor] >= Height[lastAccepted]

NextCanonical == canonical[Height[recovery.cursor] + 1]

\* Executing a block on a state that is not its parent's fails ValidateState.
ReexecutePossible ==
    NextCanonical \in blocks /\ Parent(NextCanonical) = recovery.cursor

MutWritesIndices == FALSE
WritesIndices == recovery.writeIndices \/ recovery.cursor = recovery.tip

Reexecute ==
    LET current == NextCanonical
        writing == WritesIndices
        executed == Update(trie, Root[current])
    IN
    /\ InLoop
    /\ ReexecutePossible
    /\ trie' = IF recovery.reexecuted THEN Dereference(executed, Root[recovery.cursor])
               ELSE executed
    /\ indexed' = IF writing THEN indexed \cup {current} ELSE indexed
    /\ tipKey' = IF writing THEN current ELSE tipKey
    /\ recovery' = [recovery EXCEPT !.cursor = current, !.writeIndices = writing,
                                    !.reexecuted = TRUE]
    /\ UNCHANGED <<blocks, canonical, headKey, versiondb, status, currentBlock,
                   lastAccepted, acceptorTip, acceptorQueue, acceptor, accepting,
                   tips, engine>>

\* The last re-executed root is committed; then the head's state must be there.
Recovered ==
    IF recovery.reexecuted THEN Commit(trie, Root[recovery.cursor]) ELSE trie

FinishRecovery ==
    /\ LoopDone
    /\ HasState(Recovered, Root[currentBlock])
    /\ trie' = Recovered
    /\ Start
    /\ UNCHANGED <<chaindb, versiondb, currentBlock, lastAccepted, acceptorQueue,
                   acceptor, accepting, tips, engine>>

\* The errors of NewBlockChain: the node does not start.
BootError ==
    \/ NotRunning /\ ~BootPossible
    \/ status = "loading" /\ ~UpToDate /\ StateHeights = {}
    \/ InLoop /\ ~ReexecutePossible
    \/ LoopDone /\ ~HasState(Recovered, Root[currentBlock])

FailBoot ==
    /\ BootError
    /\ Exit("failed", trie)
    /\ UNCHANGED <<chaindb, versiondb>>

----------------------------------------------------------------------------
Init ==
    /\ blocks = {Genesis}
    /\ canonical = [h \in Heights |-> IF h = 0 THEN Genesis ELSE NoBlock]
    /\ headKey = Genesis
    /\ tipKey = NoBlock
    /\ indexed = {}
    /\ trie = EmptyTrieDB({Root[Genesis]})
    /\ lastAcceptedKey = NoBlock
    /\ marker = 0
    /\ applied = [s \in UNION {1..StagedSeq[b] : b \in Block} |-> 0]
    /\ status = "down"
    /\ currentBlock = NoBlock /\ lastAccepted = NoBlock /\ acceptorTip = NoBlock
    /\ acceptorQueue = <<>> /\ acceptor = Idle /\ accepting = Idle
    /\ tips = <<>> /\ recovery = NoRecovery
    /\ verified = {} /\ rejected = {} /\ finalized = {}

EngineNext == \E b \in Block : Verify(b) \/ SetPreference(b) \/ Accept(b) \/ Reject(b)
AcceptNext == Enqueue \/ CommitAccepted
AcceptorNext == Dequeue \/ WriteIndices \/ ProcessTrie \/ PublishTip
BootNext == Boot \/ BeginRecovery \/ Reexecute \/ FinishRecovery \/ FailBoot
CrashNext ==
    Crash \/ CrashInBoot \/ \E b \in Block : CrashInReorg(b) \/ CrashInInsert(b)

Next == EngineNext \/ AcceptNext \/ AcceptorNext \/ BootNext \/ Stop \/ CrashNext

Spec == Init /\ [][Next]_vars
=============================================================================
