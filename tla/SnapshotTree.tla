---- MODULE SnapshotTree ----
(***************************************************************************)
(* The flat state snapshot (core/state/snapshot): one disk layer that a    *)
(* background goroutine generates from the state trie, in-memory diff      *)
(* layers of the blocks above it, and the calls the chain makes on it:     *)
(* Update when a block is verified, AbortGeneration and Flatten when the   *)
(* acceptor processes it, Discard when it is rejected, New at start-up.    *)
(*                                                                         *)
(* A key is an account or a storage slot.  Account hashes and account hash *)
(* followed by slot hash sort as byte strings, and so do keys as numbers:  *)
(* Owner[k] = k for an account, and the slots of an account follow it.  A  *)
(* generation marker is the last key covered: 0 is the empty marker, Done  *)
(* the nil marker of a finished snapshot.  0 as a value is an absent entry.*)
(***************************************************************************)
EXTENDS Integers, FiniteSets

CONSTANTS
    Blocks,      \* block hashes
    Genesis,
    Parent,      \* [Blocks \ {Genesis} -> Blocks]
    NumKeys,
    Owner,       \* [1..NumKeys -> 1..NumKeys]
    State,       \* [Blocks -> [1..NumKeys -> values]]: the state trie of a block
    Destructs,   \* [Blocks -> sets of accounts]: destructed in the block
    NoBuild,     \* values SnapshotNoBuild may have at a start
    MaxCrashes   \* bound on restarts

VARIABLES
    db,        \* [block, marker, wiping, data]: the snapshot in the database
    up,        \* the process runs and its tree exists
    kind,      \* blockLayers: the layer of a block, "none", "diff" or "disk"
    pkind,     \* diffLayer.parent: a diff or the disk layer of the parent block
    origin,    \* diffLayer.origin
    bloom,     \* diffLayer.diffed: the keys it reports
    disk,      \* disk layer objects: [stale, marker, stats, abort, wiping]
    gen,       \* generate goroutines: [pc, pos]
    wiper,     \* the goroutine of WipeSnapshot
    cache,     \* diskLayer.cache, shared by successive disk layers
    acc,       \* the acceptor: [pc, block, tip]
    lastAcc,   \* the last block the engine accepted
    seen,      \* blocks verified since the start
    rejected,
    crashes

treeVars == <<kind, pkind, origin, bloom>>
genVars == <<disk, gen, wiper>>
engineVars == <<lastAcc, seen, rejected>>
vars == <<db, up, treeVars, genVars, cache, acc, engineVars, crashes>>

Keys == 1..NumKeys
Done == NumKeys + 1
None == "none"
Miss == -1
Failed == -2

Alive(b, k) == State[b][Owner[k]] # 0
Covered(m, k) == k <= m

\* What Update is given: accounts and slots with their new values.  An account
\* that is gone is only in destructs; one that was destructed and created again
\* lists all its new slots.
Listed(b) ==
    {k \in Keys : /\ Alive(b, k)
                  /\ IF Owner[k] \in Destructs[b]
                     THEN State[b][k] # 0 ELSE State[b][k] # State[Parent[b]][k]}

Touched(b) == Listed(b) \cup {k \in Keys : Owner[k] \in Destructs[b]}

NoDisk == [stale |-> FALSE, marker |-> 0, stats |-> FALSE, abort |-> FALSE, wiping |-> FALSE]
NoGen == [pc |-> None, pos |-> 0]
NoCache == [k \in Keys |-> Miss]

Idle(tip) == [pc |-> "idle", block |-> tip, tip |-> tip, base |-> tip]

\* The tree lock is held while a layer's generator is asked to abort and while a
\* layer is flattened.
Locked == acc.pc \in {"abort", "flatten", "stop", "link", "bloom"}

-----------------------------------------------------------------------------
(* Start-up *)

OnlyDisk(b) == [x \in Blocks |-> IF x = b THEN "disk" ELSE None]

\* generateSnapshot: the markers are removed, a wiper starts, and the empty
\* marker is journaled with Wiping set; the generator waits for the wiper.
Rebuild(b) ==
    /\ db' = [db EXCEPT !.block = b, !.marker = 0, !.wiping = TRUE]
    /\ disk' = [x \in Blocks |->
                  IF x = b THEN [NoDisk EXCEPT !.abort = TRUE, !.wiping = TRUE] ELSE NoDisk]
    /\ gen' = [x \in Blocks |-> IF x = b THEN [pc |-> "wipe", pos |-> 0] ELSE NoGen]
    /\ wiper' = "accounts"

\* loadSnapshot: a wipe that was under way starts again; generation resumes
\* unless building is disallowed.
Load(b, noBuild) ==
    LET resumes == db.marker # Done /\ ~noBuild
        wipes == db.marker # Done /\ db.wiping
    IN /\ UNCHANGED db
       /\ disk' = [x \in Blocks |->
                     IF x = b THEN [NoDisk EXCEPT !.marker = db.marker, !.abort = resumes,
                                                  !.wiping = resumes /\ wipes]
                              ELSE NoDisk]
       /\ gen' = [x \in Blocks |->
                    IF x = b /\ resumes
                    THEN [pc |-> IF wipes THEN "wipe" ELSE "start", pos |-> db.marker]
                    ELSE NoGen]
       /\ wiper' = IF wipes THEN "accounts" ELSE "off"

\* New is given the last accepted block.  Without permission to build it fails
\* on a snapshot that does not load, and the chain runs without one.
New ==
    /\ ~up
    /\ \E noBuild \in NoBuild :
         IF db.block = lastAcc
         THEN Load(lastAcc, noBuild)
         ELSE ~noBuild /\ Rebuild(lastAcc)
    /\ kind' = OnlyDisk(lastAcc)
    /\ up' = TRUE
    /\ cache' = NoCache
    /\ acc' = Idle(lastAcc)
    /\ seen' = {}
    /\ UNCHANGED <<pkind, origin, bloom, lastAcc, rejected, crashes>>

Crashed(data, block) ==
    /\ up
    /\ crashes < MaxCrashes
    /\ crashes' = crashes + 1
    /\ up' = FALSE
    /\ db' = [db EXCEPT !.data = data, !.block = block]
    /\ kind' = [x \in Blocks |-> None]
    /\ pkind' = [x \in Blocks |-> None]
    /\ origin' = [x \in Blocks |-> Genesis]
    /\ bloom' = [x \in Blocks |-> {}]
    /\ disk' = [x \in Blocks |-> NoDisk]
    /\ cache' = NoCache
    /\ gen' = [x \in Blocks |-> NoGen]
    /\ wiper' = "off"
    /\ acc' = Idle(lastAcc)
    /\ UNCHANGED engineVars

Crash == Crashed(db.data, db.block)

-----------------------------------------------------------------------------
(* Wiper *)

\* wipeContent deletes accounts and then storage, in batches of consecutive keys.
Wipe ==
    /\ wiper \in {"accounts", "storage"}
    /\ LET range == {k \in Keys : /\ db.data[k] # 0
                                  /\ (Owner[k] = k) = (wiper = "accounts")}
       IN \/ /\ \E last \in range :
                  db' = [db EXCEPT !.data =
                           [k \in Keys |-> IF k \in range /\ k <= last THEN 0 ELSE db.data[k]]]
             /\ UNCHANGED wiper
          \/ /\ range = {}
             /\ wiper' = IF wiper = "accounts" THEN "storage" ELSE "done"
             /\ UNCHANGED db
    /\ UNCHANGED <<up, treeVars, disk, gen, cache, acc, engineVars, crashes>>

-----------------------------------------------------------------------------
(* Generator *)

\* An abort for nobody.
MutShouldAbort(d) == disk[d].abort /\ disk[d].stats

\* abortGeneration sends only to a goroutine that has not left its statistics.
ShouldAbort(d) == disk[d].abort /\ ~disk[d].stats
Requested(d) == acc.pc \in {"abort", "stop"} /\ acc.base = d

\* The caller of abortGeneration goes on.
Released == acc' = [acc EXCEPT !.pc = IF acc.pc = "abort" THEN "work" ELSE "flatten"]

\* The entries of the batch: those of the trie between marker and position.
Flushed(b, pos) ==
    [k \in Keys |-> IF k > disk[b].marker /\ k <= pos /\ State[b][k] # 0
                    THEN State[b][k] ELSE db.data[k]]

\* journalProgress and the batch are written together.  A layer that was
\* flattened has no generator left, so its block is the one in the database.
Journaled(b, pos, to, wiping) ==
    db' = [db EXCEPT !.data = Flushed(b, pos), !.marker = to, !.wiping = wiping]

Remaining(b, pos) == {k \in Keys : k > pos /\ State[b][k] # 0}
NextKey(b, pos) == CHOOSE k \in Remaining(b, pos) : \A j \in Remaining(b, pos) : k <= j

\* checkAndFlush at location k: a waiting abort is seen before anything else; a
\* full batch is written and the marker follows; otherwise nothing happens.
CheckAndFlush(b, k) ==
    IF Requested(b)
    THEN /\ Journaled(b, k, k, disk[b].wiping)
         /\ disk' = [disk EXCEPT ![b].marker = k, ![b].stats = TRUE]
         /\ gen' = [gen EXCEPT ![b] = NoGen]
         /\ Released
    ELSE /\ gen' = [gen EXCEPT ![b] = [pc |-> "run", pos |-> k]]
         /\ \/ UNCHANGED <<db, disk>>
            \/ /\ Journaled(b, k, k, disk[b].wiping)
               /\ disk' = [disk EXCEPT ![b].marker = k]
         /\ UNCHANGED acc

GenWiped(b) ==
    /\ gen[b].pc = "wipe"
    /\ wiper = "done"
    /\ disk' = [disk EXCEPT ![b].wiping = FALSE]
    /\ gen' = [gen EXCEPT ![b].pc = "start"]
    /\ UNCHANGED <<db, acc>>

\* The account of the marker is visited again if it still exists.
GenStart(b) ==
    LET m == disk[b].marker
    IN /\ gen[b].pc = "start"
       /\ IF m > 0 /\ Alive(b, m)
          THEN CheckAndFlush(b, m)
          ELSE /\ gen' = [gen EXCEPT ![b] = [pc |-> "run", pos |-> m]]
               /\ UNCHANGED <<db, disk, acc>>

GenNext(b) ==
    /\ gen[b].pc = "run"
    /\ Remaining(b, gen[b].pos) # {}
    /\ CheckAndFlush(b, NextKey(b, gen[b].pos))

\* A trie or a node of it is missing: nothing is written, the goroutine waits.
GenMissing(b) ==
    /\ gen[b].pc \in {"start", "run"}
    /\ gen' = [gen EXCEPT ![b] = [pc |-> "blocked", pos |-> 0]]
    /\ UNCHANGED <<db, disk, acc>>

GenFinish(b) ==
    /\ gen[b].pc = "run"
    /\ Remaining(b, gen[b].pos) = {}
    /\ Journaled(b, gen[b].pos, Done, disk[b].wiping)
    /\ disk' = [disk EXCEPT ![b].marker = Done, ![b].stats = TRUE]
    /\ gen' = [gen EXCEPT ![b] = [pc |-> "finished", pos |-> 0]]
    /\ UNCHANGED acc

\* A generator that returns when it has finished.
MutGenAnswer(b) ==
    /\ gen[b].pc \in {"wipe", "blocked"}
    /\ Requested(b)
    /\ disk' = [disk EXCEPT ![b].stats = TRUE]
    /\ gen' = [gen EXCEPT ![b] = NoGen]
    /\ Released
    /\ UNCHANGED db

\* A goroutine that waits for the wiper, for a trie or after its work answers.
GenAnswer(b) ==
    /\ gen[b].pc \in {"wipe", "blocked", "finished"}
    /\ Requested(b)
    /\ disk' = [disk EXCEPT ![b].stats = TRUE]
    /\ gen' = [gen EXCEPT ![b] = NoGen]
    /\ Released
    /\ UNCHANGED db

Generate ==
    /\ \E b \in Blocks :
         GenWiped(b) \/ GenStart(b) \/ GenNext(b) \/ GenMissing(b) \/ GenFinish(b) \/ GenAnswer(b)
    /\ UNCHANGED <<up, treeVars, wiper, cache, engineVars, crashes>>

-----------------------------------------------------------------------------
(* Verification and rejection *)

RECURSIVE Ancestors(_)
Ancestors(b) == IF b = Genesis THEN {b} ELSE {b} \cup Ancestors(Parent[b])

Conflicts(b) == b \notin Ancestors(lastAcc) /\ lastAcc \notin Ancestors(b)

\* A bloom filter of its own layer only.
MutNewDiff(b) ==
    LET p == Parent[b]
    IN /\ kind' = [kind EXCEPT ![b] = "diff"]
       /\ pkind' = [pkind EXCEPT ![b] = kind[p]]
       /\ origin' = [origin EXCEPT ![b] = IF kind[p] = "disk" THEN p ELSE origin[p]]
       /\ bloom' = [bloom EXCEPT ![b] = Touched(b)]

\* newDiffLayer with rebloom.
NewDiff(b) ==
    LET p == Parent[b]
    IN /\ kind' = [kind EXCEPT ![b] = "diff"]
       /\ pkind' = [pkind EXCEPT ![b] = kind[p]]
       /\ origin' = [origin EXCEPT ![b] = IF kind[p] = "disk" THEN p ELSE origin[p]]
       /\ bloom' = [bloom EXCEPT ![b] =
                      Touched(b) \cup (IF kind[p] = "disk" THEN {} ELSE bloom[p])]

\* The engine verifies a block once, on a parent that is processing or last
\* accepted.  Its commit updates the tree; one whose changes are not handed to
\* the tree has no layer, and neither have its descendants.
Verify(b) ==
    /\ up /\ ~Locked
    /\ b \notin seen \cup rejected \cup Ancestors(lastAcc)
    /\ ~Conflicts(b)
    /\ Parent[b] \in seen \cup {lastAcc}
    /\ seen' = seen \cup {b}
    /\ \/ kind[Parent[b]] # None /\ NewDiff(b)
       \/ UNCHANGED treeVars
    /\ UNCHANGED <<db, up, genVars, cache, acc, lastAcc, rejected, crashes>>

\* The engine rejects what conflicts with an accepted block before it accepts
\* the next one.
Accept(b) ==
    /\ up
    /\ b \in seen
    /\ Parent[b] = lastAcc
    /\ \A x \in seen : ~Conflicts(x) \/ x \in rejected
    /\ lastAcc' = b
    /\ UNCHANGED <<db, up, treeVars, genVars, cache, acc, seen, rejected, crashes>>

\* Reject discards the layer, if there is one; the disk layer is never discarded.
Reject(b) ==
    /\ up /\ ~Locked
    /\ b \in seen \ rejected
    /\ Conflicts(b)
    /\ rejected' = rejected \cup {b}
    /\ kind' = IF kind[b] = "diff" THEN [kind EXCEPT ![b] = None] ELSE kind
    /\ UNCHANGED <<db, up, pkind, origin, bloom, genVars, cache, acc, lastAcc, seen, crashes>>

-----------------------------------------------------------------------------
(* Acceptor *)

\* disklayer() goes through whichever layer the map yields first.
DiskLayers == {IF kind[l] = "disk" THEN l ELSE origin[l] : l \in {x \in Blocks : kind[x] # None}}

\* flattenSnapshot: AbortGeneration comes before the trie is touched.
AcceptorTake(b) ==
    /\ up
    /\ acc.pc = "idle"
    /\ b \in Ancestors(lastAcc) /\ b # Genesis /\ Parent[b] = acc.tip
    /\ \E d \in DiskLayers :
         acc' = [acc EXCEPT !.pc = IF ShouldAbort(d) THEN "abort" ELSE "work",
                            !.block = b, !.base = d]
    /\ UNCHANGED <<db, up, treeVars, genVars, cache, engineVars, crashes>>

\* Flatten is skipped for a block without a layer; otherwise the generator of the
\* parent's disk layer is asked to stop if it still runs.  A layer whose parent
\* is no disk layer of the tree is refused.
AcceptorWork ==
    LET b == acc.block
    IN /\ up
       /\ acc.pc = "work"
       /\ acc' = IF kind[b] = None THEN Idle(b)
                 ELSE IF pkind[b] = "disk" /\ kind[Parent[b]] # None
                 THEN [acc EXCEPT !.pc = IF ShouldAbort(Parent[b]) THEN "stop" ELSE "flatten",
                                  !.base = Parent[b]]
                 ELSE [acc EXCEPT !.pc = "refused"]
       /\ UNCHANGED <<db, up, treeVars, genVars, cache, engineVars, crashes>>

\* Destructed storage is removed although the generator has not covered it, and
\* kept where it has.
MutWiped(b, m) == {k \in Keys : Owner[k] = k /\ k \in Destructs[b] /\ Covered(m, k)}

\* diffToDisk: entries the marker does not cover are left to the generator.
Wiped(b, m) == {k \in Keys : Owner[k] \in Destructs[b] /\ Covered(m, Owner[k])}
Written(b, m) == {k \in Listed(b) : Covered(m, k)}

Merged(b, m) ==
    [k \in Keys |-> IF k \in Written(b, m) THEN State[b][k]
                    ELSE IF k \in Wiped(b, m) THEN 0 ELSE db.data[k]]

MergedCache(b, m) ==
    [k \in Keys |-> IF k \in Written(b, m) THEN State[b][k]
                    ELSE IF k \in Wiped(b, m) /\ Owner[k] = k THEN 0
                    ELSE IF k \in Wiped(b, m) /\ db.data[k] # 0 THEN Miss ELSE cache[k]]

\* The new disk layer takes over marker and statistics; generation goes on at
\* once unless the layer below it was young.
FlattenWrite ==
    LET b == acc.block
        base == disk[acc.base]
        resumes == base.marker # Done /\ base.abort
    IN /\ acc.pc = "flatten"
       /\ ~base.stale
       /\ db' = [block |-> b, marker |-> base.marker, wiping |-> base.stats /\ base.wiping,
                 data |-> Merged(b, base.marker)]
       /\ cache' = MergedCache(b, base.marker)
       /\ \E young \in BOOLEAN :
            /\ disk' = [disk EXCEPT ![acc.base].stale = TRUE,
                                    ![b] = [NoDisk EXCEPT !.marker = base.marker,
                                              !.abort = resumes, !.stats = resumes /\ young,
                                              !.wiping = resumes /\ base.wiping]]
            /\ gen' = IF resumes /\ ~young
                      THEN [gen EXCEPT ![b] = [pc |-> IF base.wiping THEN "wipe" ELSE "start",
                                               pos |-> base.marker]]
                      ELSE gen
       /\ acc' = [acc EXCEPT !.pc = "link"]
       /\ UNCHANGED <<up, treeVars, wiper, engineVars, crashes>>

\* A large diff is written in several batches, the first of which removes the
\* block hash and the root.
CrashInFlatten ==
    LET new == Merged(acc.block, disk[acc.base].marker)
    IN /\ acc.pc = "flatten"
       /\ \E part \in SUBSET {k \in Keys : new[k] # db.data[k]} :
            Crashed([k \in Keys |-> IF k \in part THEN new[k] ELSE db.data[k]], None)

\* The new disk layer replaces diff and parent in the maps and in its children.
FlattenLink ==
    /\ acc.pc = "link"
    /\ kind' = [kind EXCEPT ![acc.base] = None, ![acc.block] = "disk"]
    /\ pkind' = [x \in Blocks |->
                   IF kind[x] = "diff" /\ x # acc.block /\ Parent[x] = acc.block
                   THEN "disk" ELSE pkind[x]]
    /\ acc' = [acc EXCEPT !.pc = "bloom"]
    /\ UNCHANGED <<db, up, origin, bloom, genVars, cache, engineVars, crashes>>

\* rebloom walks from the new disk layer up through the layers in the tree.
Above(b) == {x \in Blocks : kind[x] = "diff" /\ x # b /\ b \in Ancestors(x)}

FlattenBloom ==
    LET b == acc.block
    IN /\ acc.pc = "bloom"
       /\ origin' = [x \in Blocks |-> IF x \in Above(b) THEN b ELSE origin[x]]
       /\ bloom' = [x \in Blocks |->
                      IF x \in Above(b)
                      THEN UNION {Touched(y) : y \in Ancestors(x) \ Ancestors(b)}
                      ELSE bloom[x]]
       /\ acc' = Idle(b)
       /\ UNCHANGED <<db, up, kind, pkind, genVars, cache, engineVars, crashes>>

-----------------------------------------------------------------------------
(* Readers *)

\* AccountRLP and Storage of a disk layer.
DiskRead(d, k) ==
    IF disk[d].stale \/ ~Covered(disk[d].marker, k) THEN Failed
    ELSE IF cache[k] # Miss THEN cache[k] ELSE db.data[k]

\* accountRLP and storage: the layers below the held one, then the disk layer
\* they end in.
RECURSIVE Resolve(_, _)
Resolve(l, k) ==
    IF k \in Listed(l) THEN State[l][k]
    ELSE IF Owner[k] \in Destructs[l] THEN 0
    ELSE IF pkind[l] = "diff" THEN Resolve(Parent[l], k)
    ELSE DiskRead(Parent[l], k)

\* AccountRLP and Storage of a diff layer: through the layers if the bloom filter
\* hits, which it may do for what it does not hold, otherwise from the origin.
DiffReads(l, k) ==
    {Resolve(l, k)} \cup (IF k \in bloom[l] THEN {} ELSE {DiskRead(origin[l], k)})

\* Every read that ends in a disk layer leaves its value in the cache.  Holders
\* keep layers for as long as they like, so any disk layer may be read.
Read(d, k) ==
    /\ up
    /\ DiskRead(d, k) # Failed
    /\ cache[k] = Miss
    /\ cache' = [cache EXCEPT ![k] = DiskRead(d, k)]
    /\ UNCHANGED <<db, up, treeVars, genVars, acc, engineVars, crashes>>

-----------------------------------------------------------------------------
\* A database without a snapshot; the first start builds one.
Init ==
    /\ db = [block |-> None, marker |-> 0, wiping |-> FALSE, data |-> [k \in Keys |-> 0]]
    /\ up = FALSE
    /\ kind = [x \in Blocks |-> None]
    /\ pkind = [x \in Blocks |-> None]
    /\ origin = [x \in Blocks |-> Genesis]
    /\ bloom = [x \in Blocks |-> {}]
    /\ disk = [x \in Blocks |-> NoDisk]
    /\ gen = [x \in Blocks |-> NoGen]
    /\ wiper = "off"
    /\ cache = NoCache
    /\ acc = Idle(Genesis)
    /\ lastAcc = Genesis
    /\ seen = {} /\ rejected = {}
    /\ crashes = 0

Acceptor ==
    \/ \E b \in Blocks : AcceptorTake(b)
    \/ AcceptorWork \/ FlattenWrite \/ FlattenLink \/ FlattenBloom

Next ==
    \/ New \/ Crash \/ CrashInFlatten
    \/ Wipe
    \/ Generate
    \/ \E b \in Blocks : Verify(b) \/ Accept(b) \/ Reject(b)
    \/ Acceptor
    \/ \E d \in Blocks, k \in Keys : Read(d, k)

\* Goroutines are scheduled: the wiper, the generator and the acceptor go on.
Fairness == WF_vars(Wipe) /\ WF_vars(Generate) /\ WF_vars(Acceptor)

Spec == Init /\ [][Next]_vars /\ Fairness
====
