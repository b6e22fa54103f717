----------------------------- MODULE StateSync -----------------------------
(* The state syncer (sync/statesync, sync/client): it downloads the account *)
(* trie of a block and then the storage tries and codes that its accounts  *)
(* name, through a fixed number of leaf workers that read segments of      *)
(* tries from a channel, a producer of storage tries, and code workers.    *)
(* All leafs go to the snapshot on disk, from which every trie is rebuilt  *)
(* and its root compared, and from which an interrupted sync resumes.      *)
(*                                                                         *)
(* A trie is named by its root and Leafs[root] is its content, from keys   *)
(* to values; the value of an account is [root, code].  A key stands for   *)
(* one value of the two bytes by which the code divides the key space.     *)
EXTENDS Integers, Sequences, FiniteSets, FiniteSetsExt, TLC

CONSTANTS
    MainRoots,           \* roots of account tries, one per state summary
    StorageRoots,        \* roots of storage tries, ordered as their hashes
    Leafs,               \* content of every trie
    KeySpace,            \* keys are 0 .. KeySpace - 1
    Workers,             \* leaf workers (defaultNumWorkers of them)
    CodeWorkers,         \* code workers (NumCodeFetchingWorkers)
    RequestSize,         \* leafs in one response
    NumMainSegments, NumStorageSegments, SegmentThreshold,
    MaxCodes,            \* capacity of the code queue
    CodesPerRequest

VARIABLES
    disk,        \* what survives a crash
    root,        \* account trie being synced, None outside a sync
    tries,       \* trieToSync of every trie of this sync
    inProgress,  \* roots in stateSync.triesInProgress
    segments,    \* channel of segments to sync: [queue, closed]
    sem,         \* tokens in triesInProgressSem
    done,        \* closed channels among "main", "storage"
    worker, producer, codeWorker,
    codes,       \* code syncer: [queue, closed, outstanding]
    leafErr,     \* first error of the leaf workers: their context is done
    leafDone,    \* the leaf syncer has reported its result
    err,         \* first error of the sync: its context is done
    panic,       \* a send on, or a close of, a closed channel
    raced        \* history: storageTriesDone was closed between a worker's
                 \* count of no tries in progress and its look at the channel

syncVars == <<root, tries, inProgress, segments, sem, done, worker, producer,
              codeWorker, codes, leafErr, leafDone, err, panic>>

None == 0      \* no root, no code
Nil == -1      \* no key

Key == 0 .. KeySpace - 1

Roots == MainRoots \cup StorageRoots

Empty == [k \in {} |-> None]

\* Roots are hashes, of account tries and of storage tries; an account without
\* storage has none.
ASSUME RootsAssumption ==
    /\ Roots \subseteq Nat \ {None}
    /\ MainRoots \cap StorageRoots = {}

\* A trie is a function on keys.
ASSUME LeafsAssumption ==
    /\ KeySpace \in Nat
    /\ \A r \in Roots : /\ Leafs[r] = [k \in DOMAIN Leafs[r] |-> Leafs[r][k]]
                        /\ DOMAIN Leafs[r] \subseteq Key
    /\ \A r \in MainRoots : \A k \in DOMAIN Leafs[r] :
          Leafs[r][k].root \in StorageRoots \cup {None}

IncrOne(k) == (k + 1) % KeySpace

\* f, and g where f is not defined.
Over(f, g) ==
    [k \in DOMAIN f \cup DOMAIN g |-> IF k \in DOMAIN f THEN f[k] ELSE g[k]]

Within(f, S) == [k \in DOMAIN f \cap S |-> f[k]]

Ascending(S) ==
    [n \in 1 .. Cardinality(S) |-> CHOOSE k \in S : Cardinality({j \in S : j <= k}) = n]

ToSet(s) == {s[i] : i \in DOMAIN s}

Least(S, n) == {k \in S : Cardinality({j \in S : j <= k}) <= n}

-----------------------------------------------------------------------------
(* Segments of a trie.                                                     *)

InSegment(s) == {k \in Key : k >= s.start /\ (s.end = Nil \/ k <= s.end)}

addSegment(start, end) ==
    [start |-> start, end |-> end, pos |-> Nil, leafs |-> 0, batch |-> Empty]

\* Leafs already on disk for a trie: those of its first account.
IterateLeafs(d, r, accounts) ==
    IF r \in MainRoots THEN d.accounts ELSE d.slots[Min(accounts)]

\* A segment found on disk continues behind its last persisted leaf.
Resumed(s, persisted) ==
    LET ks == DOMAIN persisted \cap InSegment(s)
    IN [s EXCEPT !.leafs = Cardinality(ks),
                 !.pos = IF ks = {} THEN Nil ELSE IncrOne(Max(ks))]

\* Only the starts of the second and later segments are on disk.
loadSegments(d, r, accounts) ==
    LET marks == {k \in Key : <<r, k>> \in d.segments}
        starts == Ascending(marks)
        n == Cardinality(marks)
    IN [i \in 1 .. n + 1 |->
           Resumed(addSegment(IF i = 1 THEN 0 ELSE starts[i - 1],
                              IF i > n THEN Nil ELSE starts[i] - 1),
                   IterateLeafs(d, r, accounts))]

NewTrieToSync(d, r, accounts) ==
    [segs |-> loadSegments(d, r, accounts), finished |-> {}, next |-> 1,
     hashed |-> Empty, accounts |-> accounts]

\* Go's uint16 arithmetic on the first two bytes of the keys.
estimateSize(s) ==
    LET pos == IF s.pos = Nil THEN 0 ELSE s.pos
        end == IF s.end = Nil THEN KeySpace - 1 ELSE s.end
        progress == (pos - s.start) % KeySpace
        left == (end - pos) % KeySpace
    IN IF progress = 0 THEN 0 ELSE (s.leafs * left) \div progress

shouldSegment(t) ==
    Len(t.segs) = 1 /\ estimateSize(t.segs[1]) >= SegmentThreshold

NumSegments(r) == IF r \in MainRoots THEN NumMainSegments ELSE NumStorageSegments

\* The parts of the key space that are not behind the first segment yet.
Parts(r, s) ==
    LET step == KeySpace \div NumSegments(r)
        ends == SelectSeq(Ascending({i * step - 1 : i \in 1 .. NumSegments(r)}),
                          LAMBDA e : s.pos < e)
    IN [i \in 1 .. Len(ends) |-> [start |-> ends[i] - step + 1, end |-> ends[i]]]

\* The response of a peer: the next leafs from start on, at least one if
\* there is any; its range proof tells whether there are more.
Responses(r, start) ==
    LET ks == {k \in DOMAIN Leafs[r] : k >= start}
    IN {[keys |-> Least(ks, n), more |-> n < Cardinality(ks)] :
           n \in IF ks = {} THEN {0} ELSE 1 .. Min({RequestSize, Cardinality(ks)})}

\* A response cut at the end of the segment, and whether that ends the task.
Truncated(resp, end) ==
    IF end # Nil /\ \E k \in resp.keys : k > end
    THEN [keys |-> {k \in resp.keys : k <= end}, last |-> TRUE]
    ELSE [keys |-> resp.keys, last |-> ~resp.more]

-----------------------------------------------------------------------------
(* Writes to disk.                                                         *)

\* The leafs in the batch of a segment reach the snapshot: of the account
\* trie as accounts, of a storage trie as slots of all its accounts.
Flush(d, r, t, batch) ==
    IF r \in MainRoots THEN [d EXCEPT !.accounts = Over(batch, @)]
    ELSE [d EXCEPT !.slots =
             [a \in Key |-> IF a \in t.accounts THEN Over(batch, @[a]) ELSE @[a]]]

\* Batches of one trie hold leafs of that trie: where two have a key they
\* agree on its value.
Merge(batches) ==
    [k \in UNION {DOMAIN b : b \in batches} |->
        (CHOOSE b \in batches : k \in DOMAIN b)[k]]

Unwritten(rs) ==
    Merge(UNION {{tries[r].segs[i].batch : i \in DOMAIN tries[r].segs} : r \in rs})

\* onSyncFailure: the batches of all segments of the tries in progress.
FlushAll(d) ==
    [d EXCEPT
       !.accounts = Over(Unwritten(inProgress \cap MainRoots), @),
       !.slots = [a \in Key |-> Over(Unwritten({r \in inProgress \ MainRoots :
                                                 a \in tries[r].accounts}), @[a])]]

\* MUTANT of Register: the storage tries are not marked.
MutRegister(d, leafs, selected) ==
    [d EXCEPT !.toFetch = @ \cup selected]

\* Markers of the storage tries and codes of new accounts, ahead of them.
Register(d, leafs, selected) ==
    [d EXCEPT !.queue = @ \cup {<<leafs[k].root, k>> : k \in
                                   {j \in DOMAIN leafs : leafs[j].root # None}},
              !.toFetch = @ \cup selected]

ClearSyncStorageTrie(d, r) ==
    [d EXCEPT !.queue = {q \in @ : q[1] # r}]

ClearSyncSegments(d, r) ==
    [d EXCEPT !.segments = {s \in @ : s[1] # r}]

-----------------------------------------------------------------------------
(* Start and end of a sync.                                                *)

IdleWorker == [pc |-> "idle", root |-> None, idx |-> 0, start |-> 0,
               keys |-> {}, last |-> FALSE, todo |-> <<>>, left |-> 0]

IdleProducer == [pc |-> "wait", root |-> None, accounts |-> {}, more |-> FALSE,
                 seek |-> 0, send |-> <<>>]

\* Outside a sync.
Quiet ==
    /\ root' = None
    /\ tries' = [r \in {} |-> None]
    /\ inProgress' = {}
    /\ segments' = [queue |-> <<>>, closed |-> FALSE]
    /\ sem' = 0
    /\ done' = {}
    /\ worker' = [w \in Workers |-> IdleWorker]
    /\ producer' = IdleProducer
    /\ codeWorker' = [w \in CodeWorkers |-> [pc |-> "work", batch |-> <<>>]]
    /\ codes' = [queue |-> <<>>, closed |-> FALSE, outstanding |-> {}]
    /\ leafErr' = "nil"
    /\ leafDone' = FALSE
    /\ err' = "nil"
    /\ panic' = FALSE

clearIfRootDoesNotMatch(d, r) ==
    IF d.syncRoot \in {None, r} THEN [d EXCEPT !.syncRoot = r]
    ELSE [d EXCEPT !.syncRoot = r, !.queue = {}, !.segments = {}]

\* Markers whose code has arrived are dropped.
addCodeToFetchFromDBToQueue(d) == [d EXCEPT !.toFetch = @ \ d.code]

SegmentsOf(r, t) == [i \in 1 .. Len(t.segs) |-> <<r, i>>]

\* NewStateSyncer and Start, up to the codes that were left to fetch.
StartSync(r) ==
    LET d == addCodeToFetchFromDBToQueue(clearIfRootDoesNotMatch(disk, r))
        t == NewTrieToSync(d, r, {})
    IN /\ disk' = d
       /\ root' = r
       /\ tries' = [q \in {r} |-> t]
       /\ inProgress' = {r}
       /\ segments' = [segments EXCEPT !.queue = SegmentsOf(r, t)]
       /\ codes' = [codes EXCEPT !.outstanding = d.toFetch]
       /\ producer' = [producer EXCEPT !.pc = "feed", !.send = Ascending(d.toFetch)]
       /\ UNCHANGED <<sem, done, worker, codeWorker, leafErr, leafDone, err, panic, raced>>

\* Start queues them, and starts the leaf workers and the producer.
FeedCodes ==
    /\ root # None /\ producer.pc = "feed"
    /\ IF producer.send = <<>> \/ err # "nil"
       THEN /\ producer' = [producer EXCEPT !.pc = "wait", !.send = <<>>]
            /\ UNCHANGED codes
       ELSE /\ Len(codes.queue) < MaxCodes
            /\ codes' = [codes EXCEPT !.queue = Append(@, Head(producer.send))]
            /\ producer' = [producer EXCEPT !.send = Tail(@)]
    /\ UNCHANGED <<disk, root, tries, inProgress, segments, sem, done, worker,
                   codeWorker, leafErr, leafDone, err, panic, raced>>

\* The three goroutines of the errgroup have returned.
SyncEnded ==
    /\ leafDone
    /\ producer.pc = "done"
    /\ \A w \in CodeWorkers : codeWorker[w].pc = "done"

\* Shutdown cancels the context of the sync.
Cancel ==
    /\ root # None /\ err = "nil"
    /\ err' = "ctx"
    /\ UNCHANGED <<disk, root, tries, inProgress, segments, sem, done, worker,
                   producer, codeWorker, codes, leafErr, leafDone, panic, raced>>

-----------------------------------------------------------------------------
(* A leaf worker.  leafErr # "nil" or err # "nil" is its context being     *)
(* done; a worker that fails makes it so for the others.                   *)

LeafCtxDone == leafErr # "nil" \/ err # "nil"

Task(w) == tries[worker[w].root].segs[worker[w].idx]

At(w, pc) == root # None /\ ~panic /\ worker[w].pc = pc

Goto(w, pc) ==
    worker' = [worker EXCEPT ![w] =
        [(IF pc \in {"idle", "done"} THEN IdleWorker ELSE @) EXCEPT !.pc = pc]]

Fail(w, e) ==
    /\ Goto(w, "done")
    /\ leafErr' = IF leafErr = "nil" THEN e ELSE leafErr

workerFrame == <<root, sem, done, producer, codeWorker, leafDone, err>>

\* workerLoop: the next segment, the end of the channel, or of the context.
\* Select takes either ready branch.
TakeTask(w) ==
    /\ At(w, "idle") /\ producer.pc # "feed"
    /\ \/ /\ segments.queue # <<>>
          /\ LET s == Head(segments.queue)
                 seg == tries[s[1]].segs[s[2]]
             IN worker' = [worker EXCEPT ![w] = [IdleWorker EXCEPT
                   !.pc = "start", !.root = s[1], !.idx = s[2],
                   !.start = IF seg.pos # Nil THEN seg.pos ELSE seg.start]]
          /\ segments' = [segments EXCEPT !.queue = Tail(@)]
          /\ UNCHANGED leafErr
       \/ /\ segments.queue = <<>> /\ segments.closed
          /\ Goto(w, "done")
          /\ UNCHANGED <<segments, leafErr>>
       \/ /\ LeafCtxDone
          /\ Fail(w, "ctx")
          /\ UNCHANGED segments
    /\ UNCHANGED <<workerFrame, disk, tries, inProgress, codes, panic, raced>>

\* OnStart: a storage trie that is on disk is only copied to the snapshot
\* of its accounts, and is finished.
OnStart(w) ==
    /\ At(w, "start")
    /\ LET r == worker[w].root
       IN IF r \in disk.tries \ MainRoots
          THEN /\ disk' = Flush(disk, r, tries[r], Leafs[r])
               /\ Goto(w, "release")
          ELSE /\ Goto(w, "fetch")
               /\ UNCHANGED disk
    /\ UNCHANGED <<workerFrame, tries, inProgress, segments, codes, leafErr, panic, raced>>

\* GetLeafs, and the first half of OnLeafs: the leafs enter the batch, and
\* markers for the storage tries and codes of accounts go to disk.
GetLeafs(w) ==
    /\ At(w, "fetch")
    /\ LET r == worker[w].root
       IN \/ /\ LeafCtxDone
             /\ Fail(w, "ctx")
             /\ UNCHANGED <<disk, tries, codes>>
          \/ /\ ~LeafCtxDone
             /\ \E resp \in Responses(r, worker[w].start) :
                LET cut == Truncated(resp, Task(w).end)
                    leafs == Within(Leafs[r], cut.keys)
                    new == IF r \in StorageRoots THEN {}
                           ELSE {leafs[k].code : k \in cut.keys} \ {None}
                    selected == new \ (codes.outstanding \cup disk.code)
                IN /\ tries' = [tries EXCEPT ![r].segs[worker[w].idx].batch =
                                   Over(leafs, @)]
                   /\ disk' = IF r \in StorageRoots THEN disk
                              ELSE Register(disk, leafs, selected)
                   /\ codes' = [codes EXCEPT !.outstanding = @ \cup selected]
                   /\ worker' = [worker EXCEPT ![w].pc = "code",
                        ![w].keys = cut.keys, ![w].last = cut.last,
                        ![w].todo = Ascending(selected)]
             /\ UNCHANGED leafErr
    /\ UNCHANGED <<workerFrame, inProgress, segments, panic, raced>>

\* addHashesToQueue: one code is queued, or the context ends the wait.
AddHashToQueue(w) ==
    /\ At(w, "code") /\ worker[w].todo # <<>>
    /\ \/ /\ Len(codes.queue) < MaxCodes
          /\ codes' = [codes EXCEPT !.queue = Append(@, Head(worker[w].todo))]
          /\ worker' = [worker EXCEPT ![w].todo = Tail(@)]
          /\ UNCHANGED leafErr
       \/ /\ err # "nil"
          /\ Fail(w, "codes")
          /\ UNCHANGED codes
    /\ UNCHANGED <<workerFrame, disk, tries, inProgress, segments, panic, raced>>

\* The position behind the last key.  OnLeafs and syncTask each increment
\* the same slice: the next request starts two keys further.
Continue(w, t) ==
    LET next == IncrOne(t.segs[worker[w].idx].pos)
    IN IF worker[w].last
       THEN /\ Goto(w, "hash")
            /\ tries' = [tries EXCEPT ![worker[w].root] = t]
       ELSE /\ worker' = [worker EXCEPT ![w].pc = "fetch", ![w].start = next]
            /\ tries' = [tries EXCEPT ![worker[w].root] =
                   [t EXCEPT !.segs[worker[w].idx].pos = next]]

\* The second half of OnLeafs: the batch is written if it is large enough
\* (either way here), and a trie that looks large is divided.
OnLeafs(w) ==
    /\ At(w, "code") /\ worker[w].todo = <<>>
    /\ \E full \in BOOLEAN :
       LET r == worker[w].root
           ks == worker[w].keys
           seg == [Task(w) EXCEPT
                     !.batch = IF full THEN Empty ELSE @,
                     !.leafs = @ + Cardinality(ks),
                     !.pos = IF ks = {} THEN @ ELSE IncrOne(Max(ks))]
           t == [tries[r] EXCEPT !.segs[worker[w].idx] = seg]
           parts == Parts(r, seg)
           first == seg.end = Nil /\ parts # <<>>
       IN /\ full => Task(w).batch # Empty
          /\ disk' = IF full THEN Flush(disk, r, tries[r], Task(w).batch) ELSE disk
          /\ IF shouldSegment(t)
             THEN /\ tries' = [tries EXCEPT ![r] =
                         IF first THEN [t EXCEPT !.segs[1].end = parts[1].end] ELSE t]
                  /\ worker' = [worker EXCEPT ![w].pc = "segment",
                         ![w].todo = IF first THEN Tail(parts) ELSE parts]
             ELSE Continue(w, t)
    /\ UNCHANGED <<workerFrame, inProgress, segments, codes, leafErr, panic, raced>>

\* createSegments: one more segment and its marker, then all into the
\* channel.
CreateSegment(w) ==
    /\ At(w, "segment")
    /\ LET r == worker[w].root
           t == tries[r]
           p == Head(worker[w].todo)
       IN IF worker[w].todo # <<>>
          THEN /\ tries' = [tries EXCEPT ![r].segs = Append(@, addSegment(p.start, p.end))]
               /\ disk' = [disk EXCEPT !.segments = @ \cup {<<r, p.start>>}]
               /\ worker' = [worker EXCEPT ![w].todo = Tail(@)]
          ELSE /\ worker' = [worker EXCEPT ![w].pc = "send",
                                ![w].todo = Tail(SegmentsOf(r, t))]
               /\ UNCHANGED <<tries, disk>>
    /\ UNCHANGED <<workerFrame, inProgress, segments, codes, leafErr, panic, raced>>

\* MUTANT of Capacity: room for one segment of a trie only.
MutCapacity == Cardinality(Workers)

Capacity == Cardinality(Workers) * NumStorageSegments

\* A send into the segments channel blocks while it is full, whatever the
\* context, and panics when it is closed.
Send(s) ==
    \/ /\ segments.closed
       /\ panic' = TRUE
       /\ UNCHANGED segments
    \/ /\ ~segments.closed /\ Len(segments.queue) < Capacity
       /\ segments' = [segments EXCEPT !.queue = Append(@, s)]
       /\ UNCHANGED panic

SendSegment(w) ==
    /\ At(w, "send")
    /\ IF worker[w].todo # <<>>
       THEN /\ Send(Head(worker[w].todo))
            /\ worker' = [worker EXCEPT ![w].todo = Tail(@)]
            /\ UNCHANGED tries
       ELSE /\ Continue(w, tries[worker[w].root])
            /\ UNCHANGED <<segments, panic>>
    /\ UNCHANGED <<workerFrame, disk, inProgress, codes, leafErr, raced>>

\* Segments are hashed in order: as many as are finished, each read back
\* from disk into the stack trie, which takes ascending keys only.
Hashed(d, r, t) ==
    LET now == {n \in DOMAIN t.segs : n >= t.next /\ t.next .. n \subseteq t.finished}
        d2 == Flush(d, r, t, Merge({t.segs[i].batch : i \in now}))
        stored == IterateLeafs(d2, r, t.accounts)
        Read(i) == InSegment(t.segs[i]) \cap DOMAIN stored
    IN [disk |-> d2,
        ok |-> \A i \in now, k \in Key : k \in Read(i) =>
                  \A j \in DOMAIN t.hashed \cup UNION {Read(n) : n \in t.next .. i - 1} :
                     j < k,
        trie |-> [t EXCEPT !.next = @ + Cardinality(now),
                    !.segs = [i \in 1 .. Len(@) |->
                                IF i \in now THEN [@[i] EXCEPT !.batch = Empty] ELSE @[i]],
                    !.hashed = Over(Within(stored, UNION {Read(i) : i \in now}), @)]]

\* segmentFinished, up to the root of the finished trie.  The batch with
\* the root of the account trie is kept back.
SegmentFinished(w) ==
    /\ At(w, "hash")
    /\ LET r == worker[w].root
           h == Hashed(disk, r, [tries[r] EXCEPT !.finished = @ \cup {worker[w].idx}])
           complete == h.trie.next > Len(h.trie.segs)
           match == h.trie.hashed = Leafs[r]
       IN /\ tries' = [tries EXCEPT ![r] = h.trie]
          /\ \/ /\ LeafCtxDone /\ h.trie.hashed # tries[r].hashed
                /\ Fail(w, "ctx")
                /\ disk' = h.disk
             \/ /\ ~h.ok \/ (complete /\ ~match)
                /\ Fail(w, "root")
                /\ disk' = h.disk
             \/ /\ h.ok /\ ~complete
                /\ Goto(w, "idle")
                /\ disk' = h.disk
                /\ UNCHANGED leafErr
             \/ /\ h.ok /\ complete /\ match
                /\ Goto(w, "clear")
                /\ disk' = IF r \in MainRoots THEN h.disk
                           ELSE [h.disk EXCEPT !.tries = @ \cup {r}]
                /\ UNCHANGED leafErr
    /\ UNCHANGED <<workerFrame, inProgress, segments, codes, panic, raced>>

\* The segment markers of the finished trie are removed.
ClearSegments(w) ==
    /\ At(w, "clear")
    /\ disk' = ClearSyncSegments(disk, worker[w].root)
    /\ Goto(w, IF worker[w].root \in MainRoots THEN "main" ELSE "release")
    /\ UNCHANGED <<workerFrame, tries, inProgress, segments, codes, leafErr, panic, raced>>

\* MUTANT of OnMainTrieFinished: the root is written at once.
MutRootWritten(w) ==
    /\ At(w, "main")
    /\ codes' = [codes EXCEPT !.closed = TRUE]
    /\ done' = done \cup {"main"}
    /\ inProgress' = inProgress \ {root}
    /\ disk' = [disk EXCEPT !.tries = @ \cup {root}]
    /\ Goto(w, "idle")
    /\ UNCHANGED <<root, tries, segments, sem, producer, codeWorker,
                   leafErr, leafDone, err, panic, raced>>

\* MUTANT of OnMainTrieFinished: the code syncer is not told.
MutCodesOpen(w) ==
    /\ At(w, "main")
    /\ done' = done \cup {"main"}
    /\ inProgress' = inProgress \ {root}
    /\ Goto(w, "idle")
    /\ UNCHANGED <<disk, root, tries, segments, sem, producer, codeWorker, codes,
                   leafErr, leafDone, err, panic, raced>>

\* onMainTrieFinished: no more codes will come, storage tries may start.
OnMainTrieFinished(w) ==
    /\ At(w, "main")
    /\ codes' = [codes EXCEPT !.closed = TRUE]
    /\ done' = done \cup {"main"}
    /\ inProgress' = inProgress \ {root}
    /\ Goto(w, "idle")
    /\ UNCHANGED <<disk, root, tries, segments, sem, producer, codeWorker,
                   leafErr, leafDone, err, panic, raced>>

\* onStorageTrieFinished: a token is taken back from the semaphore, which
\* waits for one whatever the context, and the trie's marker removed.
ReleaseTrie(w) ==
    /\ At(w, "release") /\ sem > 0
    /\ sem' = sem - 1
    /\ disk' = ClearSyncStorageTrie(disk, worker[w].root)
    /\ Goto(w, "remove")
    /\ UNCHANGED <<root, tries, inProgress, segments, done, producer,
                   codeWorker, codes, leafErr, leafDone, err, panic, raced>>

\* removeTrieInProgress: how many are left, or an unexpected root.
RemoveTrie(w) ==
    /\ At(w, "remove")
    /\ LET r == worker[w].root
       IN IF r \in inProgress
          THEN /\ inProgress' = inProgress \ {r}
               /\ worker' = [worker EXCEPT ![w].pc = "close",
                               ![w].left = Cardinality(inProgress) - 1]
               /\ UNCHANGED leafErr
          ELSE /\ Fail(w, "unexpected")
               /\ UNCHANGED inProgress
    /\ UNCHANGED <<workerFrame, disk, tries, segments, codes, panic, raced>>

\* The last storage trie closes the channel of segments.
CloseSegments(w) ==
    /\ At(w, "close")
    /\ IF worker[w].left = 0 /\ "storage" \in done
       THEN /\ segments' = [segments EXCEPT !.closed = TRUE]
            /\ panic' = segments.closed
       ELSE UNCHANGED <<segments, panic>>
    /\ Goto(w, "idle")
    /\ UNCHANGED <<workerFrame, disk, tries, inProgress, codes, leafErr, raced>>

\* The leaf syncer reports: after an error it writes every batch that is
\* left, after success the state syncer writes the root of the account trie.
LeafSyncDone ==
    /\ root # None /\ ~panic /\ ~leafDone
    /\ producer.pc # "feed"
    /\ \A w \in Workers : worker[w].pc = "done"
    /\ leafDone' = TRUE
    /\ IF leafErr # "nil"
       THEN /\ disk' = FlushAll(disk)
            /\ err' = IF err = "nil" THEN leafErr ELSE err
       ELSE /\ disk' = [disk EXCEPT !.tries = @ \cup {root}]
            /\ UNCHANGED err
    /\ UNCHANGED <<root, tries, inProgress, segments, sem, done, worker,
                   producer, codeWorker, codes, leafErr, panic, raced>>

-----------------------------------------------------------------------------
(* The producer of storage tries.                                          *)

producerFrame == <<disk, root, worker, codeWorker, codes, leafErr, leafDone>>

AtProducer(pc) == root # None /\ ~panic /\ producer.pc = pc

Queued == {q[1] : q \in disk.queue}

ProducerFails ==
    /\ err # "nil"
    /\ root # None /\ ~panic /\ producer.pc \in {"wait", "next", "sem"}
    /\ producer' = [producer EXCEPT !.pc = "done"]
    /\ UNCHANGED <<producerFrame, tries, inProgress, segments, sem, done, err, panic, raced>>

\* getNextTrie, from the root it stopped at: the least root and all of its
\* accounts, and whether there are more roots.
GetNextTrie ==
    /\ err = "nil"
    /\ (AtProducer("wait") /\ "main" \in done) \/ AtProducer("next")
    /\ LET rs == {r \in Queued : r >= producer.seek}
           r == Min(rs)
           more == rs # {r}
       IN IF rs = {}
          THEN /\ segments' = [segments EXCEPT !.closed = TRUE]
               /\ producer' = [producer EXCEPT !.pc = "done"]
          ELSE /\ producer' = [producer EXCEPT !.pc = "sem", !.root = r,
                     !.accounts = {a \in Key : <<r, a>> \in disk.queue},
                     !.more = more,
                     !.seek = IF more THEN Min(rs \ {r}) ELSE @]
               /\ UNCHANGED segments
    /\ UNCHANGED <<producerFrame, tries, inProgress, sem, done, err, panic, raced>>

\* With a token of the semaphore the trie is restored and tracked.
AddTrie ==
    /\ AtProducer("sem") /\ sem < Cardinality(Workers)
    /\ sem' = sem + 1
    /\ LET r == producer.root
           t == NewTrieToSync(disk, r, producer.accounts)
       IN /\ tries' = Over([q \in {r} |-> t], tries)
          /\ inProgress' = inProgress \cup {r}
          /\ producer' = [producer EXCEPT !.send = SegmentsOf(r, t),
                             !.pc = IF producer.more THEN "send" ELSE "mark"]
    /\ UNCHANGED <<producerFrame, segments, done, err, panic, raced>>

\* storageTriesDone is closed once the last trie is tracked.
CloseStorageTriesDone ==
    /\ AtProducer("mark")
    /\ done' = done \cup {"storage"}
    /\ producer' = [producer EXCEPT !.pc = "send"]
    /\ raced' = (raced \/ \E w \in Workers : worker[w].pc = "close" /\ worker[w].left = 0)
    /\ UNCHANGED <<producerFrame, tries, inProgress, segments, sem, err, panic>>

\* startSyncing.
StartSyncing ==
    /\ AtProducer("send")
    /\ IF producer.send # <<>>
       THEN /\ Send(Head(producer.send))
            /\ producer' = [producer EXCEPT !.send = Tail(@)]
       ELSE /\ producer' = [producer EXCEPT !.pc = IF producer.more THEN "next" ELSE "done"]
            /\ UNCHANGED <<segments, panic>>
    /\ UNCHANGED <<producerFrame, tries, inProgress, sem, done, err, raced>>

-----------------------------------------------------------------------------
(* A code worker.                                                          *)

AtCode(w, pc) == root # None /\ ~panic /\ codeWorker[w].pc = pc

codeFrame == <<root, tries, inProgress, segments, sem, done, worker, producer,
               leafErr, leafDone, err, panic, raced>>

CodeWorkerFails(w) ==
    /\ err # "nil" /\ root # None /\ ~panic
    /\ codeWorker[w].pc \in {"work", "fetch"}
    /\ codeWorker' = [codeWorker EXCEPT ![w].pc = "done"]
    /\ UNCHANGED <<codeFrame, disk, codes>>

\* Codes are collected until a request is full or no more can come.
TakeCode(w) ==
    /\ AtCode(w, "work")
    /\ LET batch == Append(codeWorker[w].batch, Head(codes.queue))
       IN \/ /\ codes.queue # <<>>
             /\ codes' = [codes EXCEPT !.queue = Tail(@)]
             /\ codeWorker' = [codeWorker EXCEPT ![w].batch = batch,
                   ![w].pc = IF Len(batch) < CodesPerRequest THEN "work" ELSE "fetch"]
          \/ /\ codes.queue = <<>> /\ codes.closed
             /\ codeWorker' = [codeWorker EXCEPT ![w].pc =
                   IF codeWorker[w].batch = <<>> THEN "done" ELSE "fetch"]
             /\ UNCHANGED codes
    /\ UNCHANGED <<codeFrame, disk>>

\* fulfillCodeRequest: the codes arrive and are no longer outstanding...
GetCode(w) ==
    /\ AtCode(w, "fetch") /\ err = "nil"
    /\ codes' = [codes EXCEPT !.outstanding = @ \ ToSet(codeWorker[w].batch)]
    /\ codeWorker' = [codeWorker EXCEPT ![w].pc = "write"]
    /\ UNCHANGED <<codeFrame, disk>>

\* ... and are written, their markers removed.
WriteCode(w) ==
    /\ AtCode(w, "write")
    /\ disk' = [disk EXCEPT !.code = @ \cup ToSet(codeWorker[w].batch),
                            !.toFetch = @ \ ToSet(codeWorker[w].batch)]
    /\ codeWorker' = [codeWorker EXCEPT ![w] = [pc |-> "work", batch |-> <<>>]]
    /\ UNCHANGED <<codeFrame, codes>>

-----------------------------------------------------------------------------

WorkerStep(w) ==
    \/ TakeTask(w) \/ OnStart(w) \/ GetLeafs(w) \/ AddHashToQueue(w)
    \/ OnLeafs(w) \/ CreateSegment(w) \/ SendSegment(w) \/ SegmentFinished(w)
    \/ ClearSegments(w) \/ OnMainTrieFinished(w) \/ ReleaseTrie(w)
    \/ RemoveTrie(w) \/ CloseSegments(w)

ProducerStep ==
    \/ FeedCodes \/ ProducerFails \/ GetNextTrie \/ AddTrie
    \/ CloseStorageTriesDone \/ StartSyncing

CodeStep(w) == CodeWorkerFails(w) \/ TakeCode(w) \/ GetCode(w) \/ WriteCode(w)

SyncStep ==
    \/ \E w \in Workers : WorkerStep(w)
    \/ LeafSyncDone
    \/ ProducerStep
    \/ \E w \in CodeWorkers : CodeStep(w)
=============================================================================
