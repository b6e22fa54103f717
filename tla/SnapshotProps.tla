---- MODULE SnapshotProps ----
(***************************************************************************)
(* Properties of SnapshotTree.                                             *)
(***************************************************************************)
EXTENDS SnapshotTree, SnapshotIterator

\* The layers from l down, as the iterators see them.
RECURSIVE Layers(_)
Layers(l) == IF kind[l] = "disk" THEN <<l>> ELSE <<l>> \o Layers(Parent[l])

Ascending(S) == SetToSortSeq(S, <)

\* AccountIterator of a layer: a diff yields its deletions too.
AccountEntries(l) ==
    LET accounts == {k \in Keys : Owner[k] = k}
        held == IF kind[l] = "disk" THEN {k \in accounts : db.data[k] # 0}
                ELSE (Listed(l) \cup Destructs[l]) \cap accounts
        value(k) == IF kind[l] = "disk" THEN db.data[k]
                    ELSE IF k \in Listed(l) THEN State[l][k] ELSE 0
    IN [n \in DOMAIN Ascending(held) |-> <<Ascending(held)[n], value(Ascending(held)[n])>>]

\* StorageIterator of a layer for account a.
StorageEntries(l, a) ==
    LET slots == {k \in Keys : Owner[k] = a /\ k # a}
        held == IF kind[l] = "disk" THEN {k \in slots : db.data[k] # 0} ELSE Listed(l) \cap slots
        value(k) == IF kind[l] = "disk" THEN db.data[k] ELSE State[l][k]
    IN [n \in DOMAIN Ascending(held) |-> <<Ascending(held)[n], value(Ascending(held)[n])>>]

\* Storage below a destruct shows through.
MutStorageStack(layers, a) == [n \in DOMAIN layers |-> StorageEntries(layers[n], a)]

\* A layer that destructs the account hides the storage below it.
StorageStack(layers, a) ==
    LET cut == {n \in DOMAIN layers : kind[layers[n]] = "diff" /\ a \in Destructs[layers[n]]}
        last == IF cut = {} THEN Len(layers) ELSE CHOOSE n \in cut : \A m \in cut : n <= m
    IN [n \in 1..last |-> StorageEntries(layers[n], a)]

AccountStack(layers) == [n \in DOMAIN layers |-> AccountEntries(layers[n])]

\* What the state of a block holds in key order.
Entries(b, S) ==
    LET held == Ascending({k \in S : State[b][k] # 0})
    IN [n \in DOMAIN held |-> <<held[n], State[b][held[n]]>>]

LiveDisk == {b \in Blocks : kind[b] = "disk"}
Quiet == up /\ ~Locked
Current(l) == kind[l] # None /\ (LiveDisk \cap Ancestors(l)) # {}

-----------------------------------------------------------------------------
\* At every moment, so also after a crash and inside a generation that is aborted,
\* resumed on other blocks' states or interrupted by a wipe: up to the journaled
\* marker the database holds the state of the journaled block, and beyond it
\* nothing unless it is still to be wiped (diffToDisk, checkAndFlush,
\* loadSnapshot); the marker in memory is never ahead of the journal.
DiskIsFaithful ==
    db.block # None =>
        /\ \A k \in Keys : IF Covered(db.marker, k)
                           THEN db.data[k] = State[db.block][k]
                           ELSE db.data[k] # 0 => db.wiping
        /\ db.wiping => db.marker = 0
        /\ up => \A b \in LiveDisk : acc.pc # "link" => b = db.block /\ disk[b].marker = db.marker

\* A holder of a layer, which may keep it while it and the layers below are
\* flattened or discarded, reads the value its block has or gets an error; a bloom
\* filter that misses is right to send the reader to the origin, whenever the
\* origin is then read (AccountRLP, Storage, rebloom, the shared cache).
ReadIsFaithful ==
    up => \A l \in Blocks, k \in Keys :
            /\ DiskRead(l, k) \in {Failed, State[l][k]}
            /\ pkind[l] # None =>
                 /\ DiffReads(l, k) \subseteq {Failed, State[l][k]}
                 /\ k \in bloom[l] \/ State[origin[l]][k] = State[l][k]

\* Once generation is complete, iterating over any layer above the disk layer
\* yields the accounts and slots of its block in order, so that Verify succeeds
\* (newFastIterator, verify); the binary iterator visits the same keys.
IterationIsFaithful ==
    \A l \in Blocks :
        Quiet /\ Current(l) /\ db.marker = Done =>
            LET layers == Layers(l)
                accounts == FastIterate(AccountStack(layers))
            IN /\ accounts = Entries(l, {k \in Keys : Owner[k] = k})
               /\ \A n \in DOMAIN accounts :
                    FastIterate(StorageStack(layers, accounts[n][1]))
                        = Entries(l, {k \in Keys : Owner[k] = accounts[n][1] /\ k # Owner[k]})
               /\ kind[l] = "diff" =>
                    SelectSeq(BinaryKeys(AccountStack(layers)), LAMBDA k : Resolve(l, k) # 0)
                        = [n \in DOMAIN accounts |-> accounts[n][1]]

\* The acceptor always finds the parent's layer on disk and live, and no generator
\* reads the state trie while the accepted block's trie work may prune it, although
\* AbortGeneration asks whichever disk layer the map of layers leads to
\* (flattenSnapshot, disklayer).
AcceptorFindsTheTree ==
    /\ acc.pc # "refused"
    /\ acc.pc = "flatten" => ~disk[acc.base].stale
    /\ acc.pc = "work" => \A b \in Blocks : gen[b].pc \notin {"start", "run"}

\* The snapshot in whatever form it is read: on disk after a crash, through a
\* layer, by an iterator, and by the acceptor that flattens it.
SnapshotIsFaithful ==
    DiskIsFaithful /\ ReadIsFaithful /\ IterationIsFaithful /\ AcceptorFindsTheTree

\* A request to abort generation is always answered, whatever the generator is
\* doing: waiting for the wiper or for a missing trie, between two entries, or
\* finished a moment ago (abortGeneration).
AbortReturns == acc.pc \in {"abort", "stop"} ~> acc.pc \notin {"abort", "stop"}
====
