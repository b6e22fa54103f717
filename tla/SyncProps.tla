------------------------------ MODULE SyncProps ------------------------------
(* What state sync promises, across crashes, shutdowns, resumed syncs and   *)
(* changes of the summary.                                                 *)
EXTENDS SyncerVM

\* Types of the state.
SyncTypeOK ==
    /\ disk.summary \in MainRoots \cup {None}
    /\ disk.accepted \in MainRoots \cup {None}
    /\ disk.tries \subseteq Roots
    /\ DOMAIN disk.accounts \subseteq Key
    /\ \A q \in disk.queue : q[1] \in StorageRoots /\ q[2] \in Key
    /\ \A s \in disk.segments : s[1] \in Roots /\ s[2] \in Key
    /\ DOMAIN tries \subseteq Roots
    /\ inProgress \subseteq DOMAIN tries
    /\ sem \in 0 .. Cardinality(Workers)
    /\ phase \in {"boot", "skipped", "wipe", "blocks", "state", "reset",
                  "markers", "synced", "failed", "bootstrapping"}

AccountsWithStorage(r) == {k \in DOMAIN Leafs[r] : Leafs[r][k].root # None}

\* The VM moves to a synced block only with its whole state: every account
\* and slot in the snapshot and nothing else, every trie, every code, and
\* the blocks below it (finishSync after syncBlocks and syncStateTrie).
SyncedStateIsComplete ==
    phase \in {"reset", "markers", "synced"} =>
        /\ disk.accounts = Leafs[target]
        /\ \A k \in Key :
              disk.slots[k] = IF k \in AccountsWithStorage(target)
                              THEN Leafs[Leafs[target][k].root] ELSE Empty
        /\ {Leafs[target][k].root : k \in AccountsWithStorage(target)} \cup {target}
              \subseteq disk.tries
        /\ {Leafs[target][k].code : k \in DOMAIN Leafs[target]} \ {None} \subseteq disk.code
        /\ BlocksOf(target) \subseteq disk.blocks

\* The comment on onSyncComplete: the state root is not persisted before all
\* storage tries are done syncing.
RootIsLast ==
    \A r \in MainRoots \cap disk.tries : \A k \in DOMAIN Leafs[r] :
        Leafs[r][k].root \in disk.tries \cup {None}

\* A storage trie whose root was on disk already when it was restored in
\* several segments: the process died between the root and the removal of
\* its segment markers.  Every segment then finds it finished.
FinishedTwice ==
    \E r \in StorageRoots \cap DOMAIN tries \cap disk.tries :
        Len(tries[r].segs) > 1 /\ tries[r].next = 1

\* A worker that counts no tries in progress just before the producer adds
\* the last one, and looks at storageTriesDone just after, closes the channel
\* too early.  Nothing else puts an account trie on disk ahead of one of its
\* storage tries, and nothing but this and a trie finished twice makes a send
\* or a close panic (onStorageTrieFinished against storageTrieProducer).  A trie
\* never fails to hash to its root, unless the snapshot it resumes from was
\* left half wiped (trieToSync.segmentFinished).
OnlyRaceHurts ==
    /\ ~raced => RootIsLast /\ (panic => FinishedTwice)
    /\ "root" \in {leafErr, err} => torn

\* An account that has reached the disk is not forgotten by a crash: its
\* storage is queued or already in the snapshot, its code queued or there
\* (mainTrieTask.OnLeafs writes the markers ahead of the account).
PersistedAccountIsFollowed ==
    (disk.summary # None /\ disk.summary = disk.syncRoot /\ ~torn) =>
        \A k \in DOMAIN disk.accounts :
            LET a == disk.accounts[k]
            IN /\ a.code \in disk.code \cup disk.toFetch \cup {None}
               /\ \/ a.root = None
                  \/ <<a.root, k>> \in disk.queue
                  \/ a.root \in disk.tries /\ disk.slots[k] = Leafs[a.root]

StuckRelease == \E w \in Workers : worker[w].pc = "release" /\ sem = 0

SendHasRoom(pending) == pending # <<>> => Len(segments.queue) < Capacity

\* The two waits of a sync that no context could end do not happen: a send of
\* a segment finds room in the channel (the capacity chosen by NewStateSyncer),
\* and a worker that finished a trie finds a token of the semaphore to take
\* back, but for a trie that is finished twice.
NoEndlessWait ==
    /\ SyncTypeOK
    /\ \A w \in Workers : worker[w].pc = "send" => SendHasRoom(worker[w].todo)
    /\ producer.pc = "send" => SendHasRoom(producer.send)
    /\ StuckRelease => FinishedTwice

ChannelFull == ~segments.closed /\ Len(segments.queue) = Capacity

CodesFull == Len(codes.queue) = MaxCodes /\ err = "nil"

WorkerWaits(w) ==
    \/ worker[w].pc = "done" /\ leafDone
    \/ worker[w].pc = "done" /\ \E v \in Workers : worker[v].pc # "done"
    \/ worker[w].pc = "idle" /\ producer.pc = "feed"
    \/ worker[w].pc = "idle" /\ segments = [queue |-> <<>>, closed |-> FALSE] /\ ~LeafCtxDone
    \/ worker[w].pc = "code" /\ worker[w].todo # <<>> /\ CodesFull
    \/ worker[w].pc = "send" /\ worker[w].todo # <<>> /\ ChannelFull
    \/ worker[w].pc = "release" /\ sem = 0

ProducerWaits ==
    \/ producer.pc = "done"
    \/ producer.pc = "feed" /\ producer.send # <<>> /\ CodesFull
    \/ producer.pc = "wait" /\ "main" \notin done /\ err = "nil"
    \/ producer.pc = "sem" /\ sem = Cardinality(Workers) /\ err = "nil"
    \/ producer.pc = "send" /\ producer.send # <<>> /\ ChannelFull

CodeWorkerWaits(w) ==
    \/ codeWorker[w].pc = "done"
    \/ codeWorker[w].pc = "work" /\ codes.queue = <<>> /\ ~codes.closed /\ err = "nil"

\* No sync stops half-way, with its goroutines all waiting for each other,
\* for room in a channel or for a context, unless it panics or a worker waits
\* for a token that nobody holds.  Each step of a sync brings it closer to
\* its end, so it ends, in success or failure (stateSync.Wait).
SyncNeverStalls ==
    (phase = "state" /\ root # None /\ ~panic /\ ~StuckRelease) =>
        \/ SyncEnded
        \/ ~ProducerWaits
        \/ \E w \in Workers : ~WorkerWaits(w)
        \/ \E w \in CodeWorkers : ~CodeWorkerWaits(w)

\* A sync comes to its end (NoEndlessWait and SyncNeverStalls).
SyncComesToItsEnd == NoEndlessWait /\ SyncNeverStalls

\* The comment in acceptSyncSummary: no state sync session starts from a
\* partially wiped snapshot.
SessionStartsClean ==
    phase \in {"blocks", "state"} => ~torn

-----------------------------------------------------------------------------
(* The inductive invariant of PersistedAccountIsFollowed.                  *)

PartOf(f, g) == DOMAIN f \subseteq DOMAIN g /\ f = [k \in DOMAIN f |-> g[k]]

\* Accounts of a state whose storage is the trie r.
Users(main, r) == {k \in DOMAIN Leafs[main] : Leafs[main][k].root = r}

CodeKnown(d, c) == c \in d.code \cup d.toFetch \cup {None}

\* The storage of an account is queued, or in the snapshot.
Followed(d, k) ==
    LET r == Leafs[d.syncRoot][k].root
    IN r = None \/ <<r, k>> \in d.queue \/ (r \in d.tries /\ d.slots[k] = Leafs[r])

\* A storage trie is on disk, and in the snapshot of all its accounts.
Stored(d, r) ==
    r \in d.tries /\ \A k \in Users(d.syncRoot, r) : d.slots[k] = Leafs[r]

\* A is all accounts of a storage trie but those that have it.
Covers(d, r, A) ==
    \A k \in Users(d.syncRoot, r) : k \in A \/ d.slots[k] = Leafs[r]

\* The snapshot is part of the state being synced, and all accounts of a
\* storage trie are equally far.
SnapshotOK(d) ==
    /\ PartOf(d.accounts, Leafs[d.syncRoot])
    /\ \A k \in Key : (\A r \in StorageRoots : k \notin Users(d.syncRoot, r)) =>
          d.slots[k] = Empty
    /\ \A r \in StorageRoots : \A j, k \in Users(d.syncRoot, r) :
          PartOf(d.slots[k], Leafs[r]) /\ d.slots[j] = d.slots[k]

DiskShape(d) ==
    /\ DOMAIN d = {"summary", "syncRoot", "accounts", "slots", "tries", "segments",
                   "queue", "toFetch", "code", "blocks", "head", "accepted"}
    /\ DOMAIN d.slots = Key
    /\ d.syncRoot \in MainRoots \cup {None}

Sequence(s) == s \in Seq({s[i] : i \in DOMAIN s})

TrieShape(t) ==
    /\ DOMAIN t = {"segs", "finished", "next", "hashed", "accounts"}
    /\ Sequence(t.segs)
    /\ \A i \in DOMAIN t.segs :
          DOMAIN t.segs[i] = {"start", "end", "pos", "leafs", "batch"}

ShapesOK ==
    /\ DiskShape(disk)
    /\ root \in MainRoots \cup {None}
    /\ DOMAIN segments = {"queue", "closed"}
    /\ DOMAIN codes = {"queue", "closed", "outstanding"}
    /\ DOMAIN producer = {"pc", "root", "accounts", "more", "seek", "send"}
    /\ DOMAIN worker = Workers
    /\ \A w \in Workers : DOMAIN worker[w] =
          {"pc", "root", "idx", "start", "keys", "last", "todo", "left"}
    /\ \A r \in DOMAIN tries : TrieShape(tries[r])

\* The database names the summary being synced from the end of the wipe to
\* the commit that ends the sync.
ClientInv ==
    /\ phase = "boot" => resumable = disk.summary
    /\ phase \in {"wipe", "blocks", "state", "reset", "markers"} => target \in MainRoots
    /\ phase \in {"blocks", "state", "reset", "markers"} => disk.summary = target
    /\ root # None => phase = "state" /\ target = root /\ disk.syncRoot = root

\* Keys of the accounts that were fetched and may not be on disk yet.
BatchKeys ==
    UNION {DOMAIN tries[root].segs[i].batch : i \in DOMAIN tries[root].segs}

\* No code of an account is forgotten: one the code syncer has been asked for
\* has a marker or is there.
CodesInv ==
    /\ codes.outstanding \subseteq disk.code \cup disk.toFetch
    /\ \A k \in DOMAIN disk.accounts : CodeKnown(disk, disk.accounts[k].code)
    /\ root # None => \A k \in BatchKeys : CodeKnown(disk, Leafs[root][k].code)

SnapshotInv ==
    /\ disk.syncRoot = None => disk.queue = {}
    /\ disk.syncRoot # None => \A q \in disk.queue :
          q \in StorageRoots \X Key /\ q[2] \in Users(disk.syncRoot, q[1])
    /\ (~torn /\ disk.summary # None) =>
          IF disk.summary # disk.syncRoot THEN SnapshotEmpty
          ELSE SnapshotOK(disk) /\ \A k \in DOMAIN disk.accounts : Followed(disk, k)

Items == UNION {{r} \X DOMAIN tries[r].segs : r \in DOMAIN tries}

\* The tries of a sync, and who works on them.
TriesInv ==
    root # None =>
        /\ root \in DOMAIN tries
        /\ DOMAIN tries \subseteq {root} \cup StorageRoots
        /\ inProgress \subseteq DOMAIN tries
        /\ \A r \in DOMAIN tries : \A i \in DOMAIN tries[r].segs :
              PartOf(tries[r].segs[i].batch, Leafs[r])
        /\ \A r \in DOMAIN tries \ {root} :
              tries[r].accounts # {} /\ tries[r].accounts \subseteq Users(root, r)
        /\ segments.queue \in Seq(Items)
        /\ \A w \in Workers :
              /\ worker[w].pc \notin {"idle", "done"} =>
                    <<worker[w].root, worker[w].idx>> \in Items
              /\ worker[w].pc = "send" => worker[w].todo \in Seq(Items)

Below(r) == \A q \in DOMAIN tries \ {root} : q < r

\* Storage tries are added once each, in the order of their roots.
ProducerInv ==
    root # None =>
        /\ producer.seek \in Nat
        /\ producer.pc \in {"feed", "wait"} => DOMAIN tries = {root}
        /\ producer.pc \in {"next", "sem", "mark", "send"} => "main" \in done
        /\ producer.pc = "next" => Below(producer.seek)
        /\ producer.pc = "sem" =>
              /\ producer.root \in StorageRoots
              /\ Below(producer.root)
              /\ producer.accounts # {}
              /\ producer.accounts \subseteq Users(root, producer.root)
              /\ producer.more => producer.root < producer.seek
        /\ producer.pc \in {"mark", "send"} =>
              /\ producer.more => Below(producer.seek)
              /\ producer.send \in Seq(Items)

\* What a worker that has finished a trie leaves behind.
WorkerProgress(d, main, x) ==
    /\ x.pc = "main" \/ (x.pc = "clear" /\ x.root = main) => d.accounts = Leafs[main]
    /\ x.pc \in {"clear", "release"} /\ x.root # main => Stored(d, x.root)

\* How far a sync has got.  What was hashed is in the snapshot, so a trie that
\* hashed to its root is there as a whole; a trie is fetched for all accounts
\* that do not have it.
ProgressInv ==
    (root # None /\ ~torn) =>
        /\ \A k \in BatchKeys : Followed(disk, k)
        /\ \A r \in DOMAIN tries \ {root} : Covers(disk, r, tries[r].accounts)
        /\ producer.pc = "sem" => Covers(disk, producer.root, producer.accounts)
        /\ \A r \in DOMAIN tries :
              PartOf(tries[r].hashed, IterateLeafs(disk, r, tries[r].accounts))
        /\ "main" \in done => disk.accounts = Leafs[root]
        /\ \A w \in Workers : WorkerProgress(disk, root, worker[w])

IdleInv ==
    root = None =>
        /\ done = {}
        /\ producer = IdleProducer
        /\ worker = [w \in Workers |-> IdleWorker]

\* The inductive invariant: what is on disk at every step of a sync, and how far
\* workers, producer and code syncer have got with it (state_syncer.go,
\* trie_segments.go, code_syncer.go, syncervm_client.go).
SyncInv ==
    /\ ShapesOK
    /\ ClientInv
    /\ IdleInv
    /\ CodesInv
    /\ SnapshotInv
    /\ TriesInv
    /\ ProducerInv
    /\ ProgressInv
=============================================================================
