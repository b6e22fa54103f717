-------------------------- MODULE SyncWorkerProofs --------------------------
(***************************************************************************)
(* Every step of a leaf worker, and the end of the leaf syncer, keeps the  *)
(* invariant of a state sync.                                              *)
(***************************************************************************)
EXTENDS SyncLemmas

\* A leaf that names no prover is tried with each of these.
USE ZenonT(3), SMTT(20), ZenonT(20)

----------------------------------------------------------------------------
(* The steps of a leaf worker *)

\* TakeTask keeps the invariant: a worker takes a segment that exists.
LEMMA TakeTaskInv ==
    ASSUME SyncInv, UNCHANGED vmVars, NEW w \in Workers, TakeTask(w)
    PROVE  SyncInv'
  <1>1. SessionStep /\ root # None
        BY DEF TakeTask, At, workerFrame, vmVars, SessionStep
  <1>2. UNCHANGED <<disk, tries, producer, done, inProgress, codes>>
        BY DEF TakeTask, workerFrame
  <1>3. CASE /\ segments.queue # <<>>
             /\ LET s == Head(segments.queue)
                    seg == tries[s[1]].segs[s[2]]
                IN worker' = [worker EXCEPT ![w] = [IdleWorker EXCEPT
                      !.pc = "start", !.root = s[1], !.idx = s[2],
                      !.start = IF seg.pos # Nil THEN seg.pos ELSE seg.start]]
             /\ segments' = [segments EXCEPT !.queue = Tail(@)]
    <2> DEFINE s == Head(segments.queue)
               seg == tries[s[1]].segs[s[2]]
               x == [IdleWorker EXCEPT !.pc = "start", !.root = s[1], !.idx = s[2],
                         !.start = IF seg.pos # Nil THEN seg.pos ELSE seg.start]
    <2>1. s \in Items /\ Tail(segments.queue) \in Seq(Items)
      <3>1. segments.queue \in Seq(Items) /\ segments.queue # <<>>
            BY <1>3, <1>1, SegmentsFacts
      <3> QED BY <3>1, TailFacts
    <2>2. worker' = [worker EXCEPT ![w] = x]
          BY <1>3
    <2>3. WorkerShape(x) /\ x.pc = "start" /\ x.root = s[1] /\ x.idx = s[2]
          BY DEF WorkerShape, IdleWorker
    <2> HIDE DEF s, x
    <2>4. <<x.root, x.idx>> \in Items
          BY <2>1, <2>3, <1>1, SegmentsFacts
    <2>5. Items' = Items
          BY <1>1, <1>2, SameTries
    <2>6. TaskOK(Items', x) /\ WorkerProgress(disk', root, x)
          BY <2>3, <2>4, <2>5 DEF TaskOK, WorkerProgress
    <2>7. WorkersStep
          BY <2>2, <2>3, <2>6, OneWorker
    <2>8. DOMAIN segments' = {"queue", "closed"} /\ segments'.queue \in Seq(Items)
          BY <1>1, <1>3, <2>1, SegmentsFacts
    <2> QED BY <1>1, <1>2, <2>7, <2>8, LightStepInv
  <1>4. CASE Goto(w, "done") /\ UNCHANGED segments
    <2>1. WorkersStep
          BY <1>4, GotoEnd
    <2> QED BY <1>1, <1>2, <1>4, <2>1, LightStepInv
  <1> QED BY <1>3, <1>4 DEF TakeTask, Fail

\* OnStart keeps the invariant: a storage trie on disk is given to all accounts
\* that wait for it.
LEMMA OnStartInv ==
    ASSUME SyncInv, UNCHANGED vmVars, NEW w \in Workers, OnStart(w)
    PROVE  SyncInv'
  <1> DEFINE r == worker[w].root
  <1>1. SessionStep /\ root # None /\ worker[w].pc = "start"
        BY DEF OnStart, At, workerFrame, vmVars, SessionStep
  <1>2. UNCHANGED <<tries, producer, done, inProgress, codes, segments>>
        BY DEF OnStart, workerFrame
  <1>3. r \in DOMAIN tries /\ (r = root \/ (r \in StorageRoots /\ r \notin MainRoots))
        BY <1>1, WorkerFacts
  <1>4. TriesStep
        BY <1>1, <1>2, SameTries
  <1>5. CASE r \in disk.tries \ MainRoots
    <2>1. disk' = Flush(disk, r, tries[r], Leafs[r]) /\ Goto(w, "release")
          BY <1>5 DEF OnStart
    <2>2. r \in StorageRoots /\ r # root
          BY <1>1, <1>3, <1>5, SessionFacts
    <2>3. PartOf(Leafs[r], Leafs[r])
          BY <2>2, TrieFacts DEF Roots
    <2>4. DiskStep(disk')
          BY <2>1, <2>2, <2>3, <1>1, <1>3, FlushStep
    <2>5. ~torn => Stored(disk', r)
          BY <2>1, <2>2, <1>1, <1>3, <1>5, CopyStored
    <2>6. WorkersStep
          BY <2>1, <2>2, <2>5, <1>1, <1>4, GotoNext
    <2> QED BY <2>4, <2>6, <1>1, <1>2, <1>4, StepInv
  <1>6. CASE r \notin disk.tries \ MainRoots
    <2>1. UNCHANGED disk /\ Goto(w, "fetch")
          BY <1>6 DEF OnStart
    <2>2. WorkersStep
          BY <2>1, <1>1, <1>4, GotoNext
    <2> QED BY <2>1, <2>2, <1>1, <1>2, LightStepInv
  <1> QED BY <1>5, <1>6

\* GetLeafs keeps the invariant: leafs enter a batch when the markers of their
\* storage tries and codes are on disk.
LEMMA GetLeafsInv ==
    ASSUME SyncInv, UNCHANGED vmVars, NEW w \in Workers, GetLeafs(w)
    PROVE  SyncInv'
  <1> DEFINE r == worker[w].root
             i == worker[w].idx
  <1>1. SessionStep /\ root # None /\ worker[w].pc = "fetch"
        BY DEF GetLeafs, At, workerFrame, vmVars, SessionStep
  <1>2. UNCHANGED <<producer, done, inProgress, segments>>
        BY DEF GetLeafs, workerFrame
  <1>3. /\ r \in DOMAIN tries /\ i \in DOMAIN tries[r].segs /\ TrieShape(tries[r])
        /\ WorkerShape(worker[w])
        /\ (r = root /\ r \notin StorageRoots) \/ (r # root /\ r \in StorageRoots)
        BY <1>1, WorkerFacts, SessionFacts
  <1>4. CASE Goto(w, "done") /\ UNCHANGED <<disk, tries, codes>>
    <2>1. WorkersStep
          BY <1>4, GotoEnd
    <2> QED BY <1>1, <1>2, <1>4, <2>1, LightStepInv
  <1>5. ASSUME NEW resp \in Responses(r, worker[w].start),
               LET cut == Truncated(resp, Task(w).end)
                   leafs == Within(Leafs[r], cut.keys)
                   new == IF r \in StorageRoots THEN {}
                          ELSE {leafs[k].code : k \in cut.keys} \ {None}
                   selected == new \ (codes.outstanding \cup disk.code)
               IN /\ tries' = [tries EXCEPT ![r].segs[i].batch = Over(leafs, @)]
                  /\ disk' = IF r \in StorageRoots THEN disk
                             ELSE Register(disk, leafs, selected)
                  /\ codes' = [codes EXCEPT !.outstanding = @ \cup selected]
                  /\ worker' = [worker EXCEPT ![w].pc = "code",
                       ![w].keys = cut.keys, ![w].last = cut.last,
                       ![w].todo = Ascending(selected)]
        PROVE  SyncInv'
    <2> DEFINE cut == Truncated(resp, Task(w).end)
               leafs == Within(Leafs[r], cut.keys)
               new == IF r \in StorageRoots THEN {}
                      ELSE {leafs[k].code : k \in cut.keys} \ {None}
               selected == new \ (codes.outstanding \cup disk.code)
               s == [tries[r].segs[i] EXCEPT !.batch = Over(leafs, tries[r].segs[i].batch)]
               t == [tries[r] EXCEPT !.segs = [tries[r].segs EXCEPT ![i] = s]]
               x == [worker[w] EXCEPT !.pc = "code", !.keys = cut.keys, !.last = cut.last,
                        !.todo = Ascending(selected)]
    <2>1. /\ tries' = [tries EXCEPT ![r] = t]
          /\ disk' = IF r \in StorageRoots THEN disk ELSE Register(disk, leafs, selected)
          /\ codes' = [codes EXCEPT !.outstanding = codes.outstanding \cup selected]
          /\ worker' = [worker EXCEPT ![w] = x]
          BY <1>5
    <2>2. WorkerShape(x) /\ x.pc = "code" /\ x.root = r /\ x.idx = i
          BY <1>3 DEF WorkerShape
    <2> HIDE DEF cut
    <2>3. PartOf(leafs, Leafs[r]) /\ DOMAIN leafs \subseteq cut.keys
      <3>1. /\ PartOf(Within(Leafs[r], cut.keys), Leafs[r])
            /\ DOMAIN Within(Leafs[r], cut.keys) = DOMAIN Leafs[r] \cap cut.keys
            BY WithinPart
      <3> QED BY <3>1
    <2>4. r \notin StorageRoots => \A k \in DOMAIN leafs :
             leafs[k].code = None \/ leafs[k].code \in codes.outstanding \cup disk.code \cup selected
          BY <2>3
    <2>5. r \in StorageRoots => selected = {}
          OBVIOUS
    <2>6. DOMAIN tries[r].segs[i] = {"start", "end", "pos", "leafs", "batch"}
          BY <1>3 DEF TrieShape
    <2>7. /\ DOMAIN s = {"start", "end", "pos", "leafs", "batch"}
          /\ s.batch = Over(leafs, tries[r].segs[i].batch)
          BY <2>6
    <2> HIDE DEF leafs, selected, x, s
    <2>8. /\ TrieShape(t) /\ DOMAIN t.segs = DOMAIN tries[r].segs
          /\ t.segs[i] = s /\ \A j \in DOMAIN tries[r].segs \ {i} : t.segs[j] = tries[r].segs[j]
          /\ t.accounts = tries[r].accounts /\ t.hashed = tries[r].hashed
          BY <1>3, <2>7, BatchUpdate
    <2> HIDE DEF t
    <2>9. /\ DiskStep(disk')
          /\ disk.code \cup disk.toFetch \cup selected \subseteq disk'.code \cup disk'.toFetch
          /\ r = root => \A k \in DOMAIN leafs : Followed(disk', k)
      <3>1. CASE r = root
            BY <3>1, <1>1, <1>3, <2>1, <2>3, RegisterStep
      <3>2. CASE r # root
        <4>1. disk' = disk /\ selected = {}
              BY <3>2, <1>3, <2>1, <2>5
        <4> QED BY <4>1, <3>2, <1>1, SameDisk
      <3> QED BY <3>1, <3>2
    <2>10. \A j \in DOMAIN tries[r].segs : PartOf(tries[r].segs[j].batch, Leafs[r])
          BY <1>1, <1>3 DEF SyncInv, TriesInv
    <2>11. PartOf(s.batch, Leafs[r]) /\ DOMAIN s.batch = DOMAIN leafs \cup DOMAIN tries[r].segs[i].batch
          BY <2>3, <2>7, <2>10, <1>3, OverPart
    <2>12. \A j \in DOMAIN t.segs : PartOf(t.segs[j].batch, Leafs[r])
          BY <2>8, <2>10, <2>11
    <2>13. ASSUME r = root, NEW j \in DOMAIN t.segs, NEW k \in DOMAIN t.segs[j].batch
           PROVE  k \in BatchKeys \/
                  (CodeKnown(disk', Leafs[root][k].code) /\ (~torn => Followed(disk', k)))
      <3>1. k \in DOMAIN tries[r].segs[j].batch \/ k \in DOMAIN leafs
            BY <2>8, <2>11, <2>13
      <3>2. CASE k \in DOMAIN tries[r].segs[j].batch
            BY <3>2, <2>8, <2>13 DEF BatchKeys
      <3>3. CASE k \in DOMAIN leafs
        <4>1. leafs[k] = Leafs[root][k]
              BY <3>3, <2>3, <2>13 DEF PartOf
        <4>2. codes.outstanding \subseteq disk.code \cup disk.toFetch
              BY DEF SyncInv, CodesInv
        <4>3. CodeKnown(disk', leafs[k].code)
              BY <3>3, <4>2, <2>4, <2>9, <2>13, <1>3 DEF CodeKnown
        <4> QED BY <4>1, <4>3, <3>3, <2>9, <2>13
      <3> QED BY <3>1, <3>2, <3>3
    <2>14. ~torn => PartOf(t.hashed, IterateLeafs(disk', r, t.accounts))
          BY <2>8, <2>9, <1>1, <1>3, HashedLater
    <2>15. TriesStep
          BY <1>1, <1>3, <2>1, <2>8, <2>9, <2>12, <2>13, <2>14, OneTrie
    <2>16. WorkersStep
          BY <1>1, <2>1, <2>2, <2>15, GotoOn
    <2>17. /\ DOMAIN codes' = {"queue", "closed", "outstanding"}
           /\ codes'.outstanding \subseteq disk'.code \cup disk'.toFetch
      <3>1. codes.outstanding \subseteq disk.code \cup disk.toFetch
            BY DEF SyncInv, CodesInv
      <3>2. /\ DOMAIN codes' = {"queue", "closed", "outstanding"}
            /\ codes'.outstanding = codes.outstanding \cup selected
            BY <2>1, <1>1, SegmentsFacts
      <3> QED BY <3>1, <3>2, <2>9
    <2>18. DOMAIN tries' = DOMAIN tries
          BY <2>1
    <2> QED BY <1>1, <1>2, <2>9, <2>15, <2>16, <2>17, <2>18, StepInv
  <1> QED BY <1>4, <1>5 DEF GetLeafs, Fail

\* AddHashToQueue keeps the invariant: the markers of the codes are on disk.
LEMMA AddHashToQueueInv ==
    ASSUME SyncInv, UNCHANGED vmVars, NEW w \in Workers, AddHashToQueue(w)
    PROVE  SyncInv'
  <1>1. SessionStep /\ root # None /\ worker[w].pc = "code"
        BY DEF AddHashToQueue, At, workerFrame, vmVars, SessionStep
  <1>2. UNCHANGED <<disk, tries, producer, done, inProgress, segments>>
        BY DEF AddHashToQueue, workerFrame
  <1>3. CASE /\ codes' = [codes EXCEPT !.queue = Append(@, Head(worker[w].todo))]
             /\ worker' = [worker EXCEPT ![w].todo = Tail(@)]
    <2> DEFINE x == [worker[w] EXCEPT !.todo = Tail(worker[w].todo)]
    <2>1. worker' = [worker EXCEPT ![w] = x]
          BY <1>3
    <2>2. WorkerShape(x) /\ x.pc = "code" /\ x.root = worker[w].root /\ x.idx = worker[w].idx
          BY <1>1, WorkerFacts DEF WorkerShape
    <2> HIDE DEF x
    <2>3. TriesStep
          BY <1>1, <1>2, SameTries
    <2>4. WorkersStep
          BY <1>1, <2>1, <2>2, <2>3, GotoOn
    <2>5. /\ DOMAIN codes' = {"queue", "closed", "outstanding"}
          /\ codes'.outstanding = codes.outstanding
          BY <1>1, <1>3, SegmentsFacts
    <2> QED BY <1>1, <1>2, <2>4, <2>5, LightStepInv
  <1>4. CASE Goto(w, "done") /\ UNCHANGED codes
    <2>1. WorkersStep
          BY <1>4, GotoEnd
    <2> QED BY <1>1, <1>2, <1>4, <2>1, LightStepInv
  <1> QED BY <1>3, <1>4 DEF AddHashToQueue, Fail

\* OnLeafs keeps the invariant: the accounts of the batch it writes are followed.
LEMMA OnLeafsInv ==
    ASSUME SyncInv, UNCHANGED vmVars, NEW w \in Workers, OnLeafs(w)
    PROVE  SyncInv'
  <1> DEFINE r == worker[w].root
             i == worker[w].idx
             ks == worker[w].keys
             seg(full) == [Task(w) EXCEPT
                             !.batch = IF full THEN Empty ELSE @,
                             !.leafs = @ + Cardinality(ks),
                             !.pos = IF ks = {} THEN @ ELSE IncrOne(Max(ks))]
             t(full) == [tries[r] EXCEPT !.segs[i] = seg(full)]
             parts(full) == Parts(r, seg(full))
             first(full) == seg(full).end = Nil /\ parts(full) # <<>>
  <1>1. SessionStep /\ root # None /\ worker[w].pc = "code"
        BY DEF OnLeafs, At, workerFrame, vmVars, SessionStep
  <1>2. UNCHANGED <<producer, done, inProgress, segments, codes>>
        BY DEF OnLeafs, workerFrame
  <1>3. /\ r \in DOMAIN tries /\ i \in DOMAIN tries[r].segs /\ TrieShape(tries[r])
        /\ WorkerShape(worker[w])
        BY <1>1, WorkerFacts
  <1>4. PICK full \in BOOLEAN :
          /\ disk' = IF full THEN Flush(disk, r, tries[r], Task(w).batch) ELSE disk
          /\ IF shouldSegment(t(full))
             THEN /\ tries' = [tries EXCEPT ![r] =
                         IF first(full) THEN [t(full) EXCEPT !.segs[1].end = parts(full)[1].end]
                         ELSE t(full)]
                  /\ worker' = [worker EXCEPT ![w].pc = "segment",
                         ![w].todo = IF first(full) THEN Tail(parts(full)) ELSE parts(full)]
             ELSE Continue(w, t(full))
        BY DEF OnLeafs
  <1> DEFINE s == seg(full)
             u == t(full)
  <1>5. /\ DOMAIN s = {"start", "end", "pos", "leafs", "batch"}
        /\ s.batch = IF full THEN Empty ELSE tries[r].segs[i].batch
        BY <1>3 DEF TrieShape, Task
  <1>6. u = [tries[r] EXCEPT !.segs = [tries[r].segs EXCEPT ![i] = s]]
        OBVIOUS
  <1> DEFINE more == first(full)
             end == parts(full)[1].end
             todo == IF more THEN Tail(parts(full)) ELSE parts(full)
             v == [u EXCEPT !.segs[1].end = end]
  <1>7. /\ disk' = IF full THEN Flush(disk, r, tries[r], tries[r].segs[i].batch) ELSE disk
        /\ IF shouldSegment(u)
           THEN /\ tries' = [tries EXCEPT ![r] = IF more THEN v ELSE u]
                /\ worker' = [worker EXCEPT ![w] =
                                 [worker[w] EXCEPT !.pc = "segment", !.todo = todo]]
           ELSE Continue(w, u)
        BY <1>4 DEF Task
  <1>8. v = [u EXCEPT !.segs = [u.segs EXCEPT ![1] = [u.segs[1] EXCEPT !.end = end]]]
        OBVIOUS
  <1> HIDE DEF s, u, more, end, todo, v, seg, t, parts, first
  <1>9. Alike(tries[r], u)
        BY <1>3, <1>5, <1>6, AlikeUpdate
  <1>10. DiskStep(disk')
    <2>1. PartOf(tries[r].segs[i].batch, Leafs[r])
          BY <1>1, <1>3 DEF SyncInv, TriesInv
    <2>2. r = root => DOMAIN tries[r].segs[i].batch \subseteq BatchKeys
          BY <1>3 DEF BatchKeys
    <2>3. CASE full
          BY <2>1, <2>2, <2>3, <1>1, <1>3, <1>7, FlushStep
    <2>4. CASE ~full
          BY <2>4, <1>1, <1>7, SameDisk
    <2> QED BY <2>3, <2>4
  <1>11. TriesStep /\ WorkersStep /\ DOMAIN tries' = DOMAIN tries
    <2>1. CASE ~shouldSegment(u)
          BY <2>1, <1>1, <1>7, <1>9, <1>10, ContinueStep
    <2>2. CASE shouldSegment(u)
      <3> DEFINE x == [worker[w] EXCEPT !.pc = "segment", !.todo = todo]
      <3>1. WorkerShape(x) /\ x.pc = "segment" /\ x.root = r /\ x.idx = i
            BY <1>3 DEF WorkerShape
      <3>2. worker' = [worker EXCEPT ![w] = x]
            BY <1>7, <2>2
      <3> HIDE DEF x
      <3>3. TrieShape(u) /\ 1 \in DOMAIN u.segs
        <4>1. TrieShape(u) /\ Sequence(u.segs)
              BY <1>9 DEF Alike, TrieShape
        <4>2. DOMAIN u.segs = 1 .. Len(u.segs)
              BY <4>1, SeqFunction DEF Sequence
        <4>3. Len(u.segs) = 1
              BY <2>2 DEF shouldSegment
        <4> QED BY <4>1, <4>2, <4>3
      <3>4. Alike(tries[r], v)
        <4> DEFINE y == [u.segs[1] EXCEPT !.end = end]
        <4>1. DOMAIN y = {"start", "end", "pos", "leafs", "batch"} /\ y.batch = u.segs[1].batch
              BY <3>3 DEF TrieShape
        <4> HIDE DEF y
        <4>2. v = [u EXCEPT !.segs = [u.segs EXCEPT ![1] = y]]
              BY <1>8 DEF y
        <4>3. Alike(u, v)
              BY <3>3, <4>1, <4>2, AlikeUpdate
        <4> QED BY <4>3, <1>9, AlikeTwice
      <3>5. PICK z : Alike(tries[r], z) /\ tries' = [tries EXCEPT ![r] = z]
            BY <3>4, <1>7, <1>9, <2>2
      <3>6. TriesStep /\ DOMAIN tries' = DOMAIN tries
            BY <3>5, <1>1, <1>3, <1>10, AlikeStep
      <3>7. WorkersStep
            BY <3>1, <3>2, <3>6, <1>1, GotoOn
      <3> QED BY <3>6, <3>7
    <2> QED BY <2>1, <2>2
  <1> QED BY <1>1, <1>2, <1>10, <1>11, StepInv

\* CreateSegment keeps the invariant: the new segment has no batch.
LEMMA CreateSegmentInv ==
    ASSUME SyncInv, UNCHANGED vmVars, NEW w \in Workers, CreateSegment(w)
    PROVE  SyncInv'
  <1> DEFINE r == worker[w].root
             p == Head(worker[w].todo)
  <1>1. SessionStep /\ root # None /\ worker[w].pc = "segment"
        BY DEF CreateSegment, At, workerFrame, vmVars, SessionStep
  <1>2. UNCHANGED <<producer, done, inProgress, segments, codes>>
        BY DEF CreateSegment, workerFrame
  <1>3. /\ r \in DOMAIN tries /\ TrieShape(tries[r]) /\ WorkerShape(worker[w])
        /\ worker[w].idx \in DOMAIN tries[r].segs
        BY <1>1, WorkerFacts
  <1>4. CASE worker[w].todo # <<>>
    <2> DEFINE x == [worker[w] EXCEPT !.todo = Tail(worker[w].todo)]
    <2>1. /\ tries' = [tries EXCEPT ![r].segs = Append(@, addSegment(p.start, p.end))]
          /\ disk' = [disk EXCEPT !.segments = @ \cup {<<r, p.start>>}]
          /\ worker' = [worker EXCEPT ![w] = x]
          BY <1>4 DEF CreateSegment
    <2>2. WorkerShape(x) /\ x.pc = "segment" /\ x.root = r /\ x.idx = worker[w].idx
          BY <1>1, <1>3 DEF WorkerShape
    <2> HIDE DEF x
    <2>3. DiskStep(disk') /\ TriesStep /\ DOMAIN tries' = DOMAIN tries
          BY <2>1, <1>1, <1>3, AppendSegment
    <2>4. WorkersStep
          BY <2>1, <2>2, <2>3, <1>1, GotoOn
    <2> QED BY <2>3, <2>4, <1>1, <1>2, StepInv
  <1>5. CASE worker[w].todo = <<>>
    <2> DEFINE todo == Tail(SegmentsOf(r, tries[r]))
               x == [worker[w] EXCEPT !.pc = "send", !.todo = todo]
    <2>1. worker' = [worker EXCEPT ![w] = x] /\ UNCHANGED <<tries, disk>>
          BY <1>5 DEF CreateSegment
    <2>2. todo \in Seq(Items)
      <3>1. SegmentsOf(r, tries[r]) \in Seq(Items)
            BY <1>3, SegmentsOfType
      <3>2. SegmentsOf(r, tries[r]) # <<>>
        <4>1. Len(tries[r].segs) \in Nat /\ DOMAIN tries[r].segs = 1 .. Len(tries[r].segs)
              BY <1>3, SeqFunction DEF TrieShape, Sequence
        <4>2. DOMAIN SegmentsOf(r, tries[r]) = DOMAIN tries[r].segs
              BY <4>1 DEF SegmentsOf
        <4> QED BY <4>2, <1>3
      <3> QED BY <3>1, <3>2
    <2> HIDE DEF todo
    <2>3. /\ WorkerShape(x) /\ x.pc = "send" /\ x.root = r /\ x.idx = worker[w].idx
          /\ x.todo = todo
          BY <1>1, <1>3 DEF WorkerShape
    <2> HIDE DEF x
    <2>4. Items' = Items
          BY <2>1, <1>1, SameTries
    <2>5. <<x.root, x.idx>> \in Items
          BY <2>3, <1>3 DEF Items
    <2>6. TaskOK(Items', x) /\ WorkerProgress(disk', root, x)
          BY <2>2, <2>3, <2>4, <2>5 DEF TaskOK, WorkerProgress
    <2>7. WorkersStep
          BY <2>1, <2>3, <2>6, OneWorker
    <2> QED BY <2>1, <2>7, <1>1, <1>2, LightStepInv
  <1> QED BY <1>4, <1>5

\* SendSegment keeps the invariant: what is sent is a segment of the trie.
LEMMA SendSegmentInv ==
    ASSUME SyncInv, UNCHANGED vmVars, NEW w \in Workers, SendSegment(w)
    PROVE  SyncInv'
  <1>1. SessionStep /\ root # None /\ worker[w].pc = "send"
        BY DEF SendSegment, At, workerFrame, vmVars, SessionStep
  <1>2. UNCHANGED <<producer, done, inProgress, codes, disk>>
        BY DEF SendSegment, workerFrame
  <1>3. /\ worker[w].root \in DOMAIN tries /\ WorkerShape(worker[w])
        /\ TrieShape(tries[worker[w].root])
        /\ worker[w].idx \in DOMAIN tries[worker[w].root].segs
        BY <1>1, WorkerFacts
  <1>4. CASE worker[w].todo # <<>>
    <2> DEFINE x == [worker[w] EXCEPT !.todo = Tail(worker[w].todo)]
    <2>1. Send(Head(worker[w].todo)) /\ worker' = [worker EXCEPT ![w] = x] /\ UNCHANGED tries
          BY <1>4 DEF SendSegment
    <2>2. worker[w].todo \in Seq(Items)
          BY <1>1 DEF SyncInv, TriesInv
    <2>3. /\ segments' = segments \/ /\ DOMAIN segments' = {"queue", "closed"}
                                     /\ segments'.queue \in Seq(Items)
          /\ Tail(worker[w].todo) \in Seq(Items)
          BY <2>1, <2>2, <1>1, <1>4, SendStep
    <2>4. /\ WorkerShape(x) /\ x.pc = "send" /\ x.root = worker[w].root
          /\ x.idx = worker[w].idx /\ x.todo = Tail(worker[w].todo)
          BY <1>1, <1>3 DEF WorkerShape
    <2> HIDE DEF x
    <2>5. Items' = Items
          BY <2>1, <1>1, SameTries
    <2>6. <<x.root, x.idx>> \in Items
          BY <2>4, <1>3 DEF Items
    <2>7. TaskOK(Items', x) /\ WorkerProgress(disk', root, x)
          BY <2>3, <2>4, <2>5, <2>6 DEF TaskOK, WorkerProgress
    <2>8. WorkersStep
          BY <2>1, <2>4, <2>7, OneWorker
    <2> QED BY <2>1, <2>3, <2>8, <1>1, <1>2, LightStepInv
  <1>5. CASE worker[w].todo = <<>>
    <2>1. Continue(w, tries[worker[w].root]) /\ UNCHANGED segments
          BY <1>5 DEF SendSegment
    <2>2. Alike(tries[worker[w].root], tries[worker[w].root])
          BY <1>3 DEF Alike
    <2>3. DiskStep(disk')
          BY <1>1, <1>2, SameDisk
    <2>4. TriesStep /\ WorkersStep /\ DOMAIN tries' = DOMAIN tries
          BY <2>1, <2>2, <2>3, <1>1, ContinueStep
    <2> QED BY <2>1, <2>3, <2>4, <1>1, <1>2, StepInv
  <1> QED BY <1>4, <1>5

\* SegmentFinished keeps the invariant: a trie that hashes to its root is in the
\* snapshot as a whole.
LEMMA SegmentFinishedInv ==
    ASSUME SyncInv, UNCHANGED vmVars, NEW w \in Workers, SegmentFinished(w)
    PROVE  SyncInv'
  <1> DEFINE r == worker[w].root
  <1>1. SessionStep /\ root # None /\ worker[w].pc = "hash"
        BY DEF SegmentFinished, At, workerFrame, vmVars, SessionStep
  <1>2. UNCHANGED <<producer, done, inProgress, segments, codes>>
        BY DEF SegmentFinished, workerFrame
  <1>3. /\ r \in DOMAIN tries
        /\ r = root \/ (r \in StorageRoots /\ r \notin MainRoots)
        /\ root \in MainRoots
        BY <1>1, WorkerFacts, SessionFacts
  <1>4. PICK t, h :
        /\ t = [tries[r] EXCEPT !.finished = @ \cup {worker[w].idx}]
        /\ h = Hashed(disk, r, t)
        /\ tries' = [tries EXCEPT ![r] = h.trie]
        /\ \/ Goto(w, "done") /\ disk' = h.disk
           \/ Goto(w, "idle") /\ disk' = h.disk
           \/ /\ h.trie.hashed = Leafs[r] /\ Goto(w, "clear")
              /\ disk' = IF r \in MainRoots THEN h.disk
                         ELSE [h.disk EXCEPT !.tries = @ \cup {r}]
        BY DEF SegmentFinished, Fail
  <1>5. /\ DiskStep(h.disk)
        /\ TrieShape(h.trie) /\ DOMAIN h.trie.segs = DOMAIN tries[r].segs
        /\ h.trie.accounts = tries[r].accounts
        /\ \A i \in DOMAIN tries[r].segs :
              h.trie.segs[i].batch \in {tries[r].segs[i].batch, Empty}
        /\ ~torn => PartOf(h.trie.hashed, IterateLeafs(h.disk, r, tries[r].accounts))
    <2>1. t = [tries[r] EXCEPT !.finished = tries[r].finished \cup {worker[w].idx}]
          BY <1>4
    <2> DEFINE F == tries[r].finished \cup {worker[w].idx}
    <2>2. t = [tries[r] EXCEPT !.finished = F]
          BY <2>1
    <2> HIDE DEF F
    <2>3. h = Hashed(disk, r, t)
          BY <1>4
    <2>4. HashedOK(r, h)
          BY <1>1, <1>3, <2>2, <2>3, HashedFacts
    <2> QED BY <2>4 DEF HashedOK
  <1> DEFINE e == [h.disk EXCEPT !.tries = h.disk.tries \cup {r}]
  <1>6. DiskShape(h.disk)
        BY <1>5 DEF DiskStep, Later
  <1>7. /\ DiskShape(e) /\ e.summary = h.disk.summary /\ e.syncRoot = h.disk.syncRoot
        /\ e.accounts = h.disk.accounts /\ e.slots = h.disk.slots /\ e.queue = h.disk.queue
        /\ e.tries = h.disk.tries \cup {r} /\ e.code = h.disk.code
        /\ e.toFetch = h.disk.toFetch
        BY <1>6 DEF DiskShape
  <1>a. /\ tries' = [tries EXCEPT ![r] = h.trie]
        /\ \/ Goto(w, "done") /\ disk' = h.disk
           \/ Goto(w, "idle") /\ disk' = h.disk
           \/ /\ h.trie.hashed = Leafs[r] /\ Goto(w, "clear")
              /\ disk' = IF r \in MainRoots THEN h.disk ELSE e
        BY <1>4
  <1>8. disk' = h.disk \/ disk' = e
        BY <1>a
  <1> HIDE DEF e
  <1>9. DiskStep(e)
        BY <1>1, <1>5, <1>7, SameContent
  <1>10. DiskStep(disk')
        BY <1>5, <1>8, <1>9
  <1>11. IterateLeafs(disk', r, tries[r].accounts) = IterateLeafs(h.disk, r, tries[r].accounts)
        BY <1>7, <1>8 DEF IterateLeafs
  <1>12. \A i \in DOMAIN h.trie.segs : PartOf(h.trie.segs[i].batch, Leafs[r])
    <2>1. \A i \in DOMAIN tries[r].segs : PartOf(tries[r].segs[i].batch, Leafs[r])
          BY <1>1, <1>3 DEF SyncInv, TriesInv
    <2>2. PartOf(Empty, Leafs[r])
          BY PartFacts
    <2> SUFFICES ASSUME NEW i \in DOMAIN h.trie.segs
                 PROVE  PartOf(h.trie.segs[i].batch, Leafs[r])
          OBVIOUS
    <2>3. /\ i \in DOMAIN tries[r].segs
          /\ h.trie.segs[i].batch = tries[r].segs[i].batch \/ h.trie.segs[i].batch = Empty
          BY <1>5
    <2> QED BY <2>1, <2>2, <2>3
  <1>13. ASSUME r = root, NEW j \in DOMAIN h.trie.segs, NEW k \in DOMAIN h.trie.segs[j].batch
         PROVE  k \in BatchKeys
    <2>1. j \in DOMAIN tries[r].segs /\ k \in DOMAIN tries[r].segs[j].batch
          BY <1>5, <1>13 DEF Empty
    <2> QED BY <2>1, <1>13 DEF BatchKeys
  <1>14. TriesStep
        BY <1>1, <1>3, <1>a, <1>5, <1>10, <1>11, <1>12, <1>13, OneTrie
  <1>15. WorkersStep
    <2>1. CASE Goto(w, "done") \/ Goto(w, "idle")
          BY <2>1, GotoEnd
    <2>2. CASE /\ h.trie.hashed = Leafs[r] /\ Goto(w, "clear")
               /\ disk' = IF r \in MainRoots THEN h.disk ELSE e
      <3>1. ASSUME ~torn PROVE PartOf(Leafs[r], IterateLeafs(disk', r, tries[r].accounts))
            BY <3>1, <2>2, <1>5, <1>11
      <3>2. ~torn => (r = root => disk'.accounts = Leafs[root])
            BY <3>1, <1>1, <1>3, <1>10, MatchStored
      <3>3. ASSUME ~torn, r # root PROVE Stored(disk', r)
        <4>1. \A k \in Users(root, r) : disk'.slots[k] = Leafs[r]
              BY <3>1, <3>3, <1>1, <1>3, <1>10, MatchStored
        <4>2. disk' = e
              BY <2>2, <1>3, <3>3
        <4>3. disk'.syncRoot = root
              BY <1>1, <1>10, SessionFacts DEF DiskStep, Later
        <4> QED BY <4>1, <4>2, <4>3, <1>7 DEF Stored
      <3>4. "clear" \notin {"idle", "done", "send"} /\ worker[w].pc \notin {"idle", "done"}
            BY <1>1
      <3> QED BY <3>2, <3>3, <3>4, <2>2, <1>1, <1>14, GotoNext
    <2> QED BY <2>1, <2>2, <1>a
  <1>16. DOMAIN tries' = DOMAIN tries
        BY <1>a
  <1> QED BY <1>1, <1>2, <1>10, <1>14, <1>15, <1>16, StepInv

\* ClearSegments keeps the invariant.
LEMMA ClearSegmentsInv ==
    ASSUME SyncInv, UNCHANGED vmVars, NEW w \in Workers, ClearSegments(w)
    PROVE  SyncInv'
  <1> DEFINE r == worker[w].root
             pc == IF r \in MainRoots THEN "main" ELSE "release"
             S == {s \in disk.segments : s[1] # r}
  <1>1. SessionStep /\ root # None /\ worker[w].pc = "clear"
        BY DEF ClearSegments, At, workerFrame, vmVars, SessionStep
  <1>2. UNCHANGED <<producer, done, inProgress, segments, codes, tries>>
        BY DEF ClearSegments, workerFrame
  <1>3. disk' = [disk EXCEPT !.segments = S] /\ Goto(w, pc)
        BY DEF ClearSegments, ClearSyncSegments
  <1>4. DiskShape(disk)
        BY DEF SyncInv, ShapesOK
  <1> HIDE DEF S
  <1>5. /\ DiskShape(disk') /\ disk'.summary = disk.summary /\ disk'.syncRoot = disk.syncRoot
        /\ disk'.accounts = disk.accounts /\ disk'.slots = disk.slots
        /\ disk'.queue = disk.queue /\ disk'.tries = disk.tries
        /\ disk'.code = disk.code /\ disk'.toFetch = disk.toFetch
        BY <1>3, <1>4 DEF DiskShape
  <1>6. DiskStep(disk')
    <2>1. DiskStep(disk)
          BY <1>1, SameDisk
    <2> QED BY <2>1, <1>1, <1>5, SameContent
  <1>7. TriesStep
        BY <1>1, <1>2, SameTries
  <1>8. WorkerProgress(disk, root, worker[w]) \/ torn
        BY <1>1 DEF SyncInv, ProgressInv
  <1>9. r = root \/ (r \in StorageRoots /\ r \notin MainRoots /\ r # root)
        BY <1>1, WorkerFacts, SessionFacts
  <1>10. ~torn => /\ pc = "main" \/ (pc = "clear" /\ r = root) => disk'.accounts = Leafs[root]
                  /\ pc \in {"clear", "release"} /\ r # root => Stored(disk', r)
    <2>1. pc = "main" => r = root
          BY <1>9
    <2>2. pc = "release" => r # root
          BY <1>1, SessionFacts
    <2> QED BY <2>1, <2>2, <1>1, <1>5, <1>8 DEF WorkerProgress, Stored
  <1>11. pc \notin {"idle", "done", "send"}
        OBVIOUS
  <1> HIDE DEF pc
  <1>12. WorkersStep
        BY <1>1, <1>3, <1>7, <1>10, <1>11, GotoNext
  <1> QED BY <1>1, <1>2, <1>6, <1>7, <1>12, StepInv

\* OnMainTrieFinished keeps the invariant: the account trie is complete.
LEMMA OnMainTrieFinishedInv ==
    ASSUME SyncInv, UNCHANGED vmVars, NEW w \in Workers, OnMainTrieFinished(w)
    PROVE  SyncInv'
  <1>1. SessionStep /\ root # None /\ worker[w].pc = "main"
        BY DEF OnMainTrieFinished, At, vmVars, SessionStep
  <1>2. /\ UNCHANGED <<disk, tries, segments, producer>> /\ Goto(w, "idle")
        /\ done' = done \cup {"main"} /\ inProgress' = inProgress \ {root}
        /\ codes' = [codes EXCEPT !.closed = TRUE]
        BY DEF OnMainTrieFinished
  <1>3. ASSUME ~torn PROVE "main" \in done \/ disk.accounts = Leafs[root]
    <2>1. WorkerProgress(disk, root, worker[w])
          BY <1>1, <1>3 DEF SyncInv, ProgressInv
    <2> QED BY <2>1, <1>1 DEF WorkerProgress
  <1>4. WorkersStep
        BY <1>2, GotoEnd
  <1>5. /\ DOMAIN codes' = {"queue", "closed", "outstanding"}
        /\ codes'.outstanding \subseteq codes.outstanding
        BY <1>2 DEF SyncInv, ShapesOK
  <1>6. /\ (~torn /\ "main" \in done') => "main" \in done \/ disk.accounts = Leafs[root]
        /\ done \subseteq done' /\ inProgress' \subseteq inProgress
        BY <1>2, <1>3
  <1> QED BY <1>1, <1>2, <1>4, <1>5, <1>6, LightStepInv

\* ReleaseTrie keeps the invariant: the queue entries of a trie go when all its
\* accounts have it.
LEMMA ReleaseTrieInv ==
    ASSUME SyncInv, UNCHANGED vmVars, NEW w \in Workers, ReleaseTrie(w)
    PROVE  SyncInv'
  <1> DEFINE r == worker[w].root
             Q == {q \in disk.queue : q[1] # r}
  <1>1. SessionStep /\ root # None /\ worker[w].pc = "release"
        BY DEF ReleaseTrie, At, vmVars, SessionStep
  <1>2. /\ UNCHANGED <<producer, done, inProgress, segments, codes, tries>>
        /\ disk' = [disk EXCEPT !.queue = Q] /\ Goto(w, "remove")
        BY DEF ReleaseTrie, ClearSyncStorageTrie
  <1>3. /\ DiskShape(disk) /\ disk.syncRoot = root /\ root \in MainRoots
        BY <1>1, SessionFacts DEF SyncInv, ShapesOK
  <1>4. \A q \in disk.queue : q \in Q \/ (q[1] = r /\ r \in StorageRoots)
    <2>1. \A q \in disk.queue : q[1] \in StorageRoots
          BY <1>1, <1>3, RootsAssumption DEF SyncInv, SnapshotInv, Roots
    <2> QED BY <2>1
  <1>5. Q \subseteq disk.queue
        OBVIOUS
  <1> HIDE DEF Q
  <1>6. /\ DiskShape(disk') /\ disk'.summary = disk.summary /\ disk'.syncRoot = disk.syncRoot
        /\ disk'.accounts = disk.accounts /\ disk'.slots = disk.slots
        /\ disk'.queue = Q /\ disk'.tries = disk.tries
        /\ disk'.code = disk.code /\ disk'.toFetch = disk.toFetch
        BY <1>2, <1>3 DEF DiskShape
  <1>7. ASSUME ~torn, NEW q \in disk.queue PROVE q \in disk'.queue \/ Stored(disk, q[1])
    <2>1. WorkerProgress(disk, root, worker[w])
          BY <1>1, <1>7 DEF SyncInv, ProgressInv
    <2>2. CASE q[1] = r /\ r \in StorageRoots
      <3>1. r # root
            BY <2>2, <1>3, RootsAssumption
      <3> QED BY <2>1, <2>2, <3>1, <1>1 DEF WorkerProgress
    <2> QED BY <2>2, <1>4, <1>6
  <1>8. DiskStep(disk)
        BY <1>1, SameDisk
  <1>9. DiskStep(disk')
    <2>1. Later(disk, disk')
          BY <1>6, <1>8 DEF DiskStep, Later
    <2>2. ASSUME ~torn PROVE Grown(disk, disk')
      <3>1. Grown(disk, disk)
            BY <1>8, <2>2 DEF DiskStep
      <3>2. SnapshotOK(disk')
            BY <3>1, <1>6 DEF Grown, SnapshotOK
      <3> QED BY <3>1, <3>2, <1>6, <1>7, <2>2 DEF Grown
    <2>3. \A k \in DOMAIN disk'.accounts : CodeKnown(disk', disk'.accounts[k].code)
          BY <1>6, <1>8 DEF DiskStep, CodeKnown
    <2> QED BY <2>1, <2>2, <2>3, <1>5, <1>6 DEF DiskStep
  <1>10. TriesStep
        BY <1>1, <1>2, SameTries
  <1>11. WorkersStep
    <2>1. "remove" \notin {"idle", "done", "send", "main", "clear", "release"}
          OBVIOUS
    <2>2. worker[w].pc \notin {"idle", "done"}
          BY <1>1
    <2> QED BY <2>1, <2>2, <1>1, <1>2, <1>10, GotoNext
  <1> QED BY <1>1, <1>2, <1>9, <1>10, <1>11, StepInv

\* RemoveTrie keeps the invariant.
LEMMA RemoveTrieInv ==
    ASSUME SyncInv, UNCHANGED vmVars, NEW w \in Workers, RemoveTrie(w)
    PROVE  SyncInv'
  <1> DEFINE x == [worker[w] EXCEPT !.pc = "close", !.left = Cardinality(inProgress) - 1]
  <1>1. SessionStep /\ root # None /\ worker[w].pc = "remove"
        BY DEF RemoveTrie, At, workerFrame, vmVars, SessionStep
  <1>2. /\ UNCHANGED <<disk, tries, producer, done, segments, codes>>
        /\ inProgress' \subseteq inProgress
        BY DEF RemoveTrie, workerFrame
  <1>3. worker' = [worker EXCEPT ![w] = x] \/ Goto(w, "done")
        BY DEF RemoveTrie, Fail
  <1>4. WorkerShape(worker[w])
        BY <1>1, WorkerFacts
  <1>5. WorkerShape(x) /\ x.pc = "close" /\ x.root = worker[w].root /\ x.idx = worker[w].idx
        BY <1>4 DEF WorkerShape
  <1> HIDE DEF x
  <1>6. TriesStep
        BY <1>1, <1>2, SameTries
  <1>7. WorkersStep
    <2>1. CASE worker' = [worker EXCEPT ![w] = x]
      <3>1. "close" \notin {"idle", "done", "send"} /\ worker[w].pc \notin {"idle", "done"}
            BY <1>1
      <3> QED BY <3>1, <2>1, <1>1, <1>5, <1>6, GotoOn
    <2>2. CASE Goto(w, "done")
          BY <2>2, GotoEnd
    <2> QED BY <2>1, <2>2, <1>3
  <1> QED BY <1>1, <1>2, <1>7, LightStepInv

\* CloseSegments keeps the invariant.
LEMMA CloseSegmentsInv ==
    ASSUME SyncInv, UNCHANGED vmVars, NEW w \in Workers, CloseSegments(w)
    PROVE  SyncInv'
  <1>1. SessionStep /\ root # None
        BY DEF CloseSegments, At, workerFrame, vmVars, SessionStep
  <1>2. /\ UNCHANGED <<disk, tries, producer, done, inProgress, codes>>
        /\ segments' = segments \/ segments' = [segments EXCEPT !.closed = TRUE]
        /\ Goto(w, "idle")
        BY DEF CloseSegments, workerFrame
  <1>3. DOMAIN segments = {"queue", "closed"} /\ segments.queue \in Seq(Items)
        BY <1>1 DEF SyncInv, ShapesOK, TriesInv
  <1>4. DOMAIN segments' = {"queue", "closed"} /\ segments'.queue \in Seq(Items)
        BY <1>2, <1>3
  <1>5. WorkersStep
        BY <1>2, GotoEnd
  <1> QED BY <1>1, <1>2, <1>4, <1>5, LightStepInv

----------------------------------------------------------------------------
(* The end of the leaf syncer *)

\* The unwritten batches of a trie are a part of it.
LEMMA UnwrittenPart ==
    ASSUME SyncInv, root # None, NEW q \in DOMAIN tries, NEW rs, rs \subseteq {q}
    PROVE  /\ PartOf(Unwritten(rs), Leafs[q])
           /\ q = root => DOMAIN Unwritten(rs) \subseteq BatchKeys
  <1> DEFINE B == UNION {{tries[r].segs[i].batch : i \in DOMAIN tries[r].segs} : r \in rs}
  <1>1. \A b \in B : \E i \in DOMAIN tries[q].segs : b = tries[q].segs[i].batch
        OBVIOUS
  <1>2. Unwritten(rs) = Merge(B)
        BY DEF Unwritten
  <1> HIDE DEF B
  <1>3. \A i \in DOMAIN tries[q].segs : PartOf(tries[q].segs[i].batch, Leafs[q])
        BY DEF SyncInv, TriesInv
  <1>4. \A b \in B : PartOf(b, Leafs[q])
        BY <1>1, <1>3
  <1>5. PartOf(Merge(B), Leafs[q]) /\ DOMAIN Merge(B) = UNION {DOMAIN b : b \in B}
        BY <1>4, MergePart
  <1>6. q = root => UNION {DOMAIN b : b \in B} \subseteq BatchKeys
        BY <1>1 DEF BatchKeys
  <1> QED BY <1>2, <1>5, <1>6

\* No trie, no batch.
LEMMA UnwrittenNone == Unwritten({}) = Empty
  <1>1. Unwritten({}) = Merge({})
    <2>1. UNION {{tries[r].segs[i].batch : i \in DOMAIN tries[r].segs} : r \in {}} = {}
          OBVIOUS
    <2> QED BY <2>1 DEF Unwritten
  <1>2. PartOf(Merge({}), Empty) /\ DOMAIN Merge({}) = {}
    <2>1. \A b \in {} : PartOf(b, Empty)
          OBVIOUS
    <2>2. PartOf(Merge({}), Empty) /\ DOMAIN Merge({}) = UNION {DOMAIN b : b \in {}}
          BY <2>1, MergePart
    <2> QED BY <2>2
  <1>3. PartOf(Empty, Merge({}))
        BY PartFacts
  <1> QED BY <1>1, <1>2, <1>3, PartFacts

\* The storage tries in progress that an account has are its own.
Tracked(k) == {r \in inProgress \ MainRoots : k \in tries[r].accounts}

\* The trie in progress that holds slots of an account is its storage trie.
LEMMA TrackedFacts ==
    ASSUME SyncInv, root # None, NEW k \in Key
    PROVE  /\ \A q \in StorageRoots : k \in Users(root, q) =>
                 Tracked(k) = IF q \in inProgress /\ k \in tries[q].accounts THEN {q} ELSE {}
           /\ (\A q \in StorageRoots : k \notin Users(root, q)) => Tracked(k) = {}
  <1>1. /\ root \in MainRoots /\ inProgress \subseteq DOMAIN tries
        /\ DOMAIN tries \subseteq {root} \cup StorageRoots
        /\ \A r \in DOMAIN tries \ {root} : tries[r].accounts \subseteq Users(root, r)
        BY SessionFacts DEF SyncInv, TriesInv
  <1>2. \A r \in Tracked(k) : r \in StorageRoots /\ r \in inProgress /\ k \in tries[r].accounts
                              /\ k \in Users(root, r)
        BY <1>1 DEF Tracked
  <1>3. ASSUME NEW q \in StorageRoots, k \in Users(root, q)
        PROVE  Tracked(k) = IF q \in inProgress /\ k \in tries[q].accounts THEN {q} ELSE {}
    <2>1. \A r \in Tracked(k) : r = q
          BY <1>1, <1>2, <1>3, UserFacts
    <2>2. q \notin MainRoots
          BY RootsAssumption
    <2>3. q \in Tracked(k) <=> q \in inProgress /\ k \in tries[q].accounts
          BY <2>2 DEF Tracked
    <2> QED BY <2>1, <2>3
  <1> QED BY <1>2, <1>3

\* Writing all batches after a failure is an allowed step of the disk
\* (onSyncFailure).
LEMMA FlushAllStep ==
    ASSUME SyncInv, root # None, NEW e, e = FlushAll(disk)
    PROVE  DiskStep(e)
  <1> DEFINE b == [k \in Key |-> Unwritten(Tracked(k))]
             s == [k \in Key |-> Over(Unwritten(Tracked(k)), disk.slots[k])]
             a == Unwritten(inProgress \cap MainRoots)
  <1>1. /\ root \in MainRoots /\ disk.syncRoot = root /\ DiskShape(disk)
        /\ ~torn => SnapshotOK(disk)
        BY SessionFacts DEF SyncInv, ShapesOK
  <1>2. e = [disk EXCEPT !.accounts = Over(a, disk.accounts), !.slots = s]
        BY DEF FlushAll, Tracked
  <1>3. \A k \in Key : s[k] = Over(b[k], disk.slots[k])
        OBVIOUS
  <1>4. DOMAIN s = Key
        OBVIOUS
  <1>5. \A k \in Key : b[k] = Unwritten(Tracked(k))
        OBVIOUS
  <1> HIDE DEF b, s
  <1>6. PartOf(a, Leafs[root]) /\ DOMAIN a \subseteq BatchKeys
    <2>1. root \in DOMAIN tries /\ inProgress \subseteq {root} \cup StorageRoots
          BY DEF SyncInv, TriesInv
    <2>2. inProgress \cap MainRoots \subseteq {root}
          BY <2>1, RootsAssumption
    <2> QED BY <2>1, <2>2, UnwrittenPart
  <1> HIDE DEF a
  <1>7. /\ DiskShape(e) /\ e.summary = disk.summary /\ e.syncRoot = disk.syncRoot
        /\ e.queue = disk.queue /\ e.tries = disk.tries /\ e.code = disk.code
        /\ e.toFetch = disk.toFetch /\ e.accounts = Over(a, disk.accounts) /\ e.slots = s
        BY <1>1, <1>2, <1>4 DEF DiskShape
  <1>8. Later(disk, e)
        BY <1>7 DEF Later
  <1>9. /\ \A k \in DOMAIN e.accounts : CodeKnown(e, e.accounts[k].code)
        /\ \A k \in DOMAIN e.accounts : k \in DOMAIN disk.accounts \/ k \in BatchKeys
        /\ ~torn => PartOf(disk.accounts, e.accounts) /\ PartOf(e.accounts, Leafs[root])
        BY <1>6, <1>7, <1>8, AccountsGrow
  <1>10. ASSUME NEW k \in Key, \A r \in StorageRoots : k \notin Users(root, r)
         PROVE  b[k] = Empty
        BY <1>5, <1>10, TrackedFacts, UnwrittenNone
  <1>11. ASSUME NEW r \in StorageRoots, NEW k \in Users(root, r)
         PROVE  PartOf(b[k], Leafs[r])
    <2>1. k \in Key
          BY <1>1, UserFacts
    <2>2. Tracked(k) = IF r \in inProgress /\ k \in tries[r].accounts THEN {r} ELSE {}
          BY <2>1, TrackedFacts
    <2>3. CASE r \in inProgress
      <3>1. r \in DOMAIN tries
            BY <2>3 DEF SyncInv, TriesInv
      <3>2. Tracked(k) \subseteq {r}
            BY <2>2
      <3>3. PartOf(Unwritten(Tracked(k)), Leafs[r])
            BY <3>1, <3>2, UnwrittenPart
      <3> QED BY <3>3, <2>1, <1>5
    <2>4. CASE r \notin inProgress
      <3>1. b[k] = Empty
            BY <2>1, <2>2, <2>4, <1>5, UnwrittenNone
      <3> QED BY <3>1, PartFacts
    <2> QED BY <2>3, <2>4
  <1>12. ASSUME ~torn, NEW r \in StorageRoots, NEW j \in Users(root, r), NEW k \in Users(root, r)
         PROVE  b[j] = b[k] \/ disk.slots[j] = Leafs[r]
    <2>1. j \in Key /\ k \in Key /\ disk.slots[j] = disk.slots[k]
          BY <1>1, <1>12, UserFacts DEF SnapshotOK
    <2>2. /\ Tracked(j) = IF r \in inProgress /\ j \in tries[r].accounts THEN {r} ELSE {}
          /\ Tracked(k) = IF r \in inProgress /\ k \in tries[r].accounts THEN {r} ELSE {}
          BY <2>1, TrackedFacts
    <2>3. CASE r \in inProgress
      <3>1. r \in DOMAIN tries \ {root}
            BY <2>3, <1>1, RootsAssumption DEF SyncInv, TriesInv
      <3>2. Covers(disk, r, tries[r].accounts)
            BY <3>1, <1>12 DEF SyncInv, ProgressInv
      <3>3. /\ j \in tries[r].accounts \/ disk.slots[j] = Leafs[r]
            /\ k \in tries[r].accounts \/ disk.slots[k] = Leafs[r]
            BY <3>2, <1>1 DEF Covers
      <3> QED BY <3>3, <2>1, <2>2, <1>5
    <2>4. CASE r \notin inProgress
          BY <2>4, <2>1, <2>2, <1>5
    <2> QED BY <2>3, <2>4
  <1>13. ASSUME ~torn PROVE Grown(disk, e)
    <2>1. \A k \in Key : e.slots[k] = Over(b[k], disk.slots[k])
          BY <1>3, <1>7
    <2>2. /\ \A k \in Key : PartOf(disk.slots[k], e.slots[k])
          /\ \A k \in Key : (\A r \in StorageRoots : k \notin Users(root, r)) => e.slots[k] = Empty
          /\ \A r \in StorageRoots : \A j, k \in Users(root, r) :
                PartOf(e.slots[k], Leafs[r]) /\ e.slots[j] = e.slots[k]
          BY <2>1, <1>10, <1>11, <1>12, <1>13, SlotsGrow
    <2>3. SnapshotOK(e)
          BY <2>2, <1>1, <1>7, <1>9, <1>13 DEF SnapshotOK
    <2> QED BY <2>2, <2>3, <1>7, <1>9, <1>13 DEF Grown
  <1> QED BY <1>7, <1>8, <1>9, <1>13, WriteStep

\* LeafSyncDone keeps the invariant: a failure writes parts of tries only.
LEMMA LeafSyncDoneInv ==
    ASSUME SyncInv, UNCHANGED vmVars, LeafSyncDone
    PROVE  SyncInv'
  <1>1. SessionStep /\ root # None
        BY DEF LeafSyncDone, vmVars, SessionStep
  <1>2. UNCHANGED <<producer, done, inProgress, segments, codes, tries, worker>>
        BY DEF LeafSyncDone
  <1> DEFINE e == [disk EXCEPT !.tries = disk.tries \cup {root}]
  <1>3. disk' = FlushAll(disk) \/ disk' = e
        BY DEF LeafSyncDone
  <1>4. DiskShape(disk)
        BY DEF SyncInv, ShapesOK
  <1>5. /\ DiskShape(e) /\ e.summary = disk.summary /\ e.syncRoot = disk.syncRoot
        /\ e.accounts = disk.accounts /\ e.slots = disk.slots /\ e.queue = disk.queue
        /\ disk.tries \subseteq e.tries /\ e.code = disk.code /\ e.toFetch = disk.toFetch
        BY <1>4 DEF DiskShape
  <1> HIDE DEF e
  <1>6. DiskStep(e)
    <2>1. DiskStep(disk)
          BY <1>1, SameDisk
    <2> QED BY <2>1, <1>1, <1>5, SameContent
  <1>7. DiskStep(disk')
        BY <1>1, <1>3, <1>6, FlushAllStep
  <1>8. TriesStep
        BY <1>1, <1>2, <1>7, SameTries
  <1>9. WorkersStep
        BY <1>1, <1>2, <1>7, <1>8, SameWorkers
  <1> QED BY <1>1, <1>2, <1>7, <1>8, <1>9, StepInv
=============================================================================
