--------------------------- MODULE BlockChainProps ---------------------------
(***************************************************************************)
(* What BlockChain promises, and the inductive invariant that explains why *)
(* it keeps those promises.                                                *)
(***************************************************************************)
EXTENDS BlockChain

BlockOrNone == Block \cup {NoBlock}
Running == status \in {"loading", "recovering", "up"}

TrieDBs == [dirty : SUBSET Roots, refs : [Roots -> Nat], disk : SUBSET Roots]
Rows == [Heights -> BlockOrNone]
AppliedCounts == [UNION {1..StagedSeq[b] : b \in Block} -> Nat]
AcceptorStates == [step : {"idle", "indices", "trie", "tip"}, block : BlockOrNone]
AcceptingStates == [step : {"idle", "enqueue", "commit"}, block : BlockOrNone]
RecoveryStates == [cursor : BlockOrNone, tip : BlockOrNone,
                   writeIndices : BOOLEAN, reexecuted : BOOLEAN]

\* Type correctness of the chain, database and engine state.
TypeOK ==
    /\ blocks \subseteq Block /\ indexed \subseteq Block
    /\ canonical \in Rows
    /\ headKey \in Block
    /\ tipKey \in BlockOrNone /\ lastAcceptedKey \in BlockOrNone
    /\ trie \in TrieDBs
    /\ marker \in Nat
    /\ applied \in AppliedCounts
    /\ status \in {"down", "loading", "recovering", "up", "failed"}
    /\ currentBlock \in BlockOrNone /\ lastAccepted \in BlockOrNone
    /\ acceptorTip \in BlockOrNone
    /\ acceptorQueue \in Seq(Block)
    /\ acceptor \in AcceptorStates
    /\ accepting \in AcceptingStates
    /\ tips \in Seq(Roots)
    /\ recovery \in RecoveryStates
    /\ verified \subseteq Block /\ rejected \subseteq Block /\ finalized \subseteq Block

\* The canonical rows of the path to b.
PathRows(b) == [h \in Heights |-> IF h <= Height[b] THEN Path[b][h] ELSE NoBlock]

\* While the chain is loaded, the canonical rows are exactly the path to the head
\* and the head descends from the last accepted block: no sequence of inserts,
\* preference changes, accepts and crashes orphans an accepted block or leaves a
\* row of an abandoned branch (reorg, writeHeadBlock, loadLastState).
CanonicalMatchesHead ==
    Running =>
        /\ OnPath(lastAccepted, currentBlock)
        /\ canonical = PathRows(currentBlock)

\* The blocks accepted by consensus that the acceptor has not published yet, in
\* order: the one it works on, the queue, and the one Accept waits to send.
Backlog ==
    (IF acceptor.step = "idle" THEN <<>> ELSE <<acceptor.block>>)
    \o acceptorQueue
    \o (IF accepting.step = "enqueue" THEN <<accepting.block>> ELSE <<>>)

\* The acceptor's backlog is the path from the acceptor tip to the last accepted
\* block, in order, with nothing lost, repeated or reordered, and never longer
\* than the queue allows (addAcceptorQueue, startAcceptor).
BacklogIsPath ==
    status = "up" =>
        /\ Len(acceptorQueue) <= AcceptorQueueLimit
        /\ Height[acceptorTip] + Len(Backlog) = Height[lastAccepted]
        /\ OnPath(acceptorTip, lastAccepted)
        /\ \A i \in 1..Len(Backlog) :
              Backlog[i] = Path[lastAccepted][Height[acceptorTip] + i]

\* The state of the last accepted block, of the head and of every processing
\* block is available, so the next Verify, Accept or BuildBlock on it does not
\* meet a missing trie node, whatever was rejected, pruned, capped or committed.
StateAvailable ==
    status = "up" =>
        \A b \in verified \cup {lastAccepted, currentBlock} : HasState(trie, Root[b])

\* A verified child of the last accepted block can be accepted: the reorg that
\* Accept may need finds its blocks and never orphans a finalized one.
AcceptSucceeds ==
    status = "up" =>
        \A b \in verified :
            Parent(b) = lastAccepted =>
                \/ canonical[Height[b]] = b
                \/ PreferenceAllowed(lastAccepted, currentBlock, b)

\* Whatever the engine may do next can be done: verify on a processing block or
\* on the last accepted one (StateAvailable), and accept (AcceptSucceeds).
EngineCallsSucceed == StateAvailable /\ AcceptSucceeds

\* A boot fails only when the acceptor recorded a block that Block.Accept had
\* not yet committed: in every other crash state the last accepted block is
\* loaded, made the head and its state recovered (loadLastState, reprocessState).
BootFailsOnlyAheadOfKey ==
    status = "failed" => tipKey # NoBlock /\ ~OnPath(tipKey, BootBlock)

\* Transaction lookup entries have no hole: from the first indexed block on,
\* every block up to the acceptor tip on disk is indexed, across crashes.
IndicesHaveNoGap ==
    tipKey # NoBlock =>
        \A g \in 0..Height[tipKey] : Path[tipKey][g] \in indexed =>
            \A h \in g..Height[tipKey] : Path[tipKey][h] \in indexed

\* Whatever a crash leaves, recovery brings the node up but in the one named
\* case, and what it brings up has lookup entries without a gap.
RecoveryIsSound == BootFailsOnlyAheadOfKey /\ IndicesHaveNoGap

\* Every request staged by an accepted block reaches shared memory exactly once,
\* together with lastAcceptedKey, wherever the process crashes (stageDexAtomic).
StagedAppliedOnce ==
    \A s \in DOMAIN applied : applied[s] = IF s <= StagedSeq[BootBlock] THEN 1 ELSE 0

\* A clean Stop leaves the last accepted state on disk, so that the next start
\* has nothing to re-execute (TrieWriter.Shutdown).
StopCommitsHead == [][Stop => Root[lastAccepted] \in trie'.disk]_vars

----------------------------------------------------------------------------
(* The inductive invariant.  CanonicalMatchesHead and BacklogIsPath hold    *)
(* because of what is on disk at every step, and because of how the memory  *)
(* of a running process relates to it.                                      *)

\* What a crash may leave of the canonical chain: the rows up to the durable
\* block are its path and the head descends from it; rows of two branches may
\* be mixed above, but without a hole, and not when the head is that block.
DiskInv ==
    /\ OnPath(BootBlock, headKey)
    /\ \A h \in Heights : h <= Height[BootBlock] => canonical[h] = Path[BootBlock][h]
    /\ \A h, k \in Heights : k <= h /\ canonical[h] # NoBlock => canonical[k] # NoBlock
    /\ headKey = BootBlock =>
          \A h \in Heights : h > Height[BootBlock] => canonical[h] = NoBlock

\* How the memory of the process relates to the disk: only Block.Accept in
\* progress separates the last accepted block from the durable one.
MemoryInv ==
    /\ Running => /\ lastAccepted \in Block /\ currentBlock \in Block
                  /\ headKey = currentBlock
    /\ accepting = Idle \/ /\ status = "up"
                           /\ accepting.step # "idle"
                           /\ accepting.block = lastAccepted
                           /\ Parent(lastAccepted) = BootBlock
    /\ Running /\ accepting = Idle => lastAccepted = BootBlock
    /\ status = "up" => acceptorTip \in Block
    /\ acceptor = Idle \/ (acceptor.step # "idle" /\ acceptor.block \in Block)
    /\ status # "up" => acceptorQueue = <<>> /\ acceptor = Idle
    /\ status = "recovering" => recovery.cursor \in Block

\* The canonical chain is never IndexBatchSize blocks ahead of the durable one,
\* so that reorg deletes the rows above a new head in one batch.
OneIndexBatch ==
    \A h \in Heights : canonical[h] # NoBlock => h < Height[BootBlock] + IndexBatchSize

Inv == TypeOK /\ DiskInv /\ MemoryInv /\ CanonicalMatchesHead /\ BacklogIsPath

----------------------------------------------------------------------------
(* Why the engine's calls succeed: what the processing blocks are, and who  *)
(* holds a reference to a cached root.                                      *)

\* The processing blocks are stored, none is an ancestor of the last accepted
\* block, those above it are connected to it, and the head is one of them or it.
ProcessingInv ==
    /\ verified \subseteq blocks
    /\ status # "up" => verified = {}
    /\ status # "up" \/ ~Pruning => tips = <<>>
    /\ Running => lastAccepted \in blocks /\ currentBlock \in verified \cup {lastAccepted}
    /\ \A b \in verified :
          /\ ~OnPath(b, lastAccepted)
          /\ OnPath(lastAccepted, b) =>
                \A h \in (Height[lastAccepted] + 1)..Height[b] : Path[b][h] \in verified

\* The accepted blocks whose root was not yet dereferenced: the roots of the tip
\* buffer end at the last block given to AcceptTrie, the backlog follows.
ProcessedHeight == Height[acceptorTip] + (IF acceptor.step = "tip" THEN 1 ELSE 0)
HeldFrom == ProcessedHeight - Len(tips)
Held == {Path[lastAccepted][h] : h \in (HeldFrom + 1)..Height[lastAccepted]}

\* The blocks of S with root r.
WithRoot(S, r) == {b \in S : Root[b] = r}

\* B has at most n elements: they can be numbered by 1..n.
FitsIn(B, n) == \E f \in [B -> 1..n] : \A x, y \in B : f[x] = f[y] => x = y

\* A root that is not on disk is cached, with a reference for each block of S.
Covered(t, S) ==
    \A r \in Roots \ t.disk :
        WithRoot(S, r) # {} => r \in t.dirty /\ FitsIn(WithRoot(S, r), t.refs[r])

\* The tip buffer holds the roots of the accepted blocks processed last; without
\* one the last processed state is on disk; and every processing or held block
\* has a reference of its own.
HeldInv ==
    /\ Len(tips) <= ProcessedHeight
    /\ \A i \in 1..Len(tips) : tips[i] = Root[Path[lastAccepted][HeldFrom + i]]
    /\ tips = <<>> => Root[Path[lastAccepted][ProcessedHeight]] \in trie.disk
    /\ Covered(trie, verified \cup Held)

\* Before the chain is up nothing is cached but the root reprocessState is at.
StartInv ==
    LET cached == IF status = "recovering" /\ recovery.reexecuted
                  THEN {Root[recovery.cursor]} ELSE {}
    IN  /\ trie.dirty = cached
        /\ \A r \in Roots : trie.refs[r] = IF r \in cached THEN 1 ELSE 0

StateInv == IF status = "up" THEN HeldInv ELSE StartInv

EngineInv == ProcessingInv /\ StateInv

----------------------------------------------------------------------------
(* Why recovery succeeds: where the acceptor tip on disk may be, what is    *)
(* stored, and how far below it a state is on disk.                         *)

\* The acceptor tip on disk is not ahead of what Block.Accept committed.
NotAhead == tipKey = NoBlock \/ OnPath(tipKey, BootBlock)

\* The acceptor tip on disk is at most one block ahead of the durable block and
\* was decided by the network.
TipOnDisk ==
    IF tipKey = NoBlock
    THEN indexed = {}
    ELSE /\ Height[tipKey] <= Height[BootBlock] + 1
         /\ tipKey \in finalized \/ OnPath(tipKey, BootBlock)

\* The acceptor extends it by the next block, or writes the block it already is.
TipOfAcceptor ==
    IF acceptor.step \in {"trie", "tip"} THEN tipKey = acceptor.block
    ELSE IF tipKey = NoBlock
         THEN Height[acceptorTip] <= Height[BootBlock]
         ELSE Height[tipKey] \in {Height[acceptorTip], Height[acceptorTip] + 1}

\* reprocessState reaches it before it goes beyond it.
TipOfRecovery ==
    IF tipKey = NoBlock THEN recovery.tip = NoBlock /\ ~recovery.writeIndices
    ELSE IF recovery.writeIndices THEN tipKey = recovery.cursor
         ELSE tipKey = recovery.tip /\ Height[recovery.cursor] <= Height[tipKey]

TipInv ==
    /\ TipOnDisk
    /\ accepting # Idle => lastAccepted \in finalized
    /\ status = "up" => TipOfAcceptor
    /\ status = "recovering" => TipOfRecovery

\* The whole chain of the head on disk is stored.
StoredInv == \A h \in 0..Height[headKey] : Path[headKey][h] \in blocks

\* The acceptor commits a state every CommitInterval blocks...
StateBehind ==
    \E h \in 0..ProcessedHeight :
        /\ ProcessedHeight - h <= ProcessedHeight % CommitInterval
        /\ Root[Path[lastAccepted][h]] \in trie.disk

\* ...so that, whatever a crash loses, the search of reprocessState reaches one.
StateReached ==
    \E h \in 0..Height[SearchFrom] :
        /\ Height[BootBlock] - h <= 2 * CommitInterval
        /\ Root[Path[BootBlock][h]] \in trie.disk

\* From there it follows the accepted chain.
CursorInv ==
    /\ NotAhead => OnPath(recovery.cursor, lastAccepted)
    /\ ~recovery.reexecuted => Root[recovery.cursor] \in trie.disk

SearchInv ==
    /\ status = "up" => StateBehind
    /\ status # "up" /\ NotAhead => StateReached
    /\ status = "recovering" => CursorInv

RecoverInv == TipInv /\ StoredInv /\ SearchInv

----------------------------------------------------------------------------
(* Refinement and liveness *)

\* The chain implements the finality log: the durable block is lastAcceptedKey,
\* and a process that is not up has accepted and processed just that one.
Log == INSTANCE FinalityLog WITH
    accepted <- IF Running THEN lastAccepted ELSE BootBlock,
    processed <- IF status = "up" THEN acceptorTip ELSE BootBlock,
    durable <- BootBlock,
    decided <- finalized

\* BlockChain with its acceptor, crashes and recovery implements FinalityLog.
ImplementsFinalityLog == Log!Spec

\* The accepted chain never forks: a block accepted before a crash that lost the
\* acceptance is again on the accepted chain once that reaches its height, and
\* neither lastAcceptedKey nor the acceptor tip ever leaves that chain.
FinalChain == Log!OneChain

\* The goroutines that never wait for the engine: Block.Accept in progress, the
\* acceptor, and start-up.  Go schedules each of them eventually.
Fairness == WF_vars(AcceptNext) /\ WF_vars(AcceptorNext) /\ WF_vars(BootNext)

FairSpec == Spec /\ Fairness

\* From some point on the process neither crashes nor is stopped.
StaysUp == <>[][~(CrashNext \/ Stop)]_vars

\* A durably accepted block is eventually processed (its indices written, its
\* trie accepted, its events sent), also when crashes delayed it, unless the
\* node cannot start.
AcceptedIsProcessed ==
    StaysUp => \A b \in Block :
        BootBlock = b ~> \/ status = "failed"
                         \/ status = "up" /\ OnPath(b, acceptorTip)

----------------------------------------------------------------------------
(* Statements of comments in the code that it does not keep in every state. *)

\* blockchain.go: reprocessState ensures that the last accepted state is
\* available after an unclean shutdown.
BootSucceeds == status # "failed"

\* blockchain.go: the acceptor tip is an accepted block that is processed; its
\* transaction lookup entries are written, as are its ancestors'.
ProcessedIsIndexed ==
    status = "up" => \A h \in 1..Height[acceptorTip] : Path[acceptorTip][h] \in indexed

\* blockchain.go: the data of a rejected block is no longer needed.
AcceptedIsStored == status = "up" => lastAccepted \in blocks
===============================================================================
