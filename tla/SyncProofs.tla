----------------------------- MODULE SyncProofs -----------------------------
(***************************************************************************)
(* For every set of tries, every division into segments and any number of  *)
(* workers: no account that reached the snapshot is forgotten by a crash.  *)
(***************************************************************************)
EXTENDS SyncWorkerProofs

\* A leaf that names no prover is tried with each of these.
USE ZenonT(3), SMTT(20), ZenonT(20)

----------------------------------------------------------------------------
(* The producer of storage tries *)

\* A step that changes the producer, and neither disk, tries nor workers.
LEMMA PlanStepInv ==
    ASSUME SyncInv, SessionStep, UNCHANGED <<disk, tries, worker, inProgress>>,
           "main" \in done' => "main" \in done,
           codes' = codes \/ /\ DOMAIN codes' = {"queue", "closed", "outstanding"}
                             /\ codes'.outstanding \subseteq codes.outstanding,
           segments' = segments \/ /\ DOMAIN segments' = {"queue", "closed"}
                                   /\ segments'.queue \in Seq(Items),
           DOMAIN producer' = {"pc", "root", "accounts", "more", "seek", "send"},
           ProducerInv',
           (~torn /\ producer'.pc = "sem") => Covers(disk, producer'.root, producer'.accounts)
    PROVE  SyncInv'
  <1>1. DiskStep(disk')
        BY SameDisk DEF SessionStep
  <1>2. TriesStep /\ Items' = Items
        BY SameTries
  <1>3. WorkersStep
        BY SameWorkers
  <1>4. ProducerStepOK
        BY DEF ProducerStepOK
  <1>5. /\ codes.outstanding \subseteq disk'.code \cup disk'.toFetch
        /\ DOMAIN codes = {"queue", "closed", "outstanding"}
        /\ DOMAIN segments = {"queue", "closed"}
        /\ segments.queue \in Seq(Items')
        /\ inProgress \subseteq DOMAIN tries'
        BY <1>1, <1>2, RestLater
  <1>6. RestStep
        BY <1>2, <1>5 DEF RestStep
  <1> QED BY <1>1, <1>2, <1>3, <1>4, <1>6, SessionInv

\* While no trie is added, segments and the order of tries are what they were.
LEMMA SamePlan ==
    ASSUME SessionStep, UNCHANGED tries
    PROVE  /\ \A r : Below(r)' <=> Below(r)
           /\ Items' = Items
  BY DEF SessionStep, Below, Items

\* FeedCodes keeps the invariant.
LEMMA FeedCodesInv ==
    ASSUME SyncInv, UNCHANGED vmVars, FeedCodes
    PROVE  SyncInv'
  <1>1. SessionStep /\ root # None /\ producer.pc = "feed"
        BY DEF FeedCodes, vmVars, SessionStep
  <1>2. /\ UNCHANGED <<disk, tries, worker, inProgress, done, segments>>
        /\ \/ producer' = [producer EXCEPT !.pc = "wait", !.send = <<>>]
           \/ producer' = [producer EXCEPT !.send = Tail(producer.send)]
        /\ \/ codes' = codes
           \/ codes' = [codes EXCEPT !.queue = Append(codes.queue, Head(producer.send))]
        BY DEF FeedCodes
  <1>3. /\ DOMAIN codes = {"queue", "closed", "outstanding"}
        /\ DOMAIN producer = {"pc", "root", "accounts", "more", "seek", "send"}
        BY DEF SyncInv, ShapesOK
  <1>4. /\ DOMAIN codes' = {"queue", "closed", "outstanding"}
        /\ codes'.outstanding \subseteq codes.outstanding
        BY <1>2, <1>3
  <1>5. /\ DOMAIN producer' = {"pc", "root", "accounts", "more", "seek", "send"}
        /\ producer'.pc \in {"feed", "wait"} /\ producer'.seek = producer.seek
        BY <1>1, <1>2, <1>3
  <1>6. producer.seek \in Nat /\ DOMAIN tries = {root} /\ root' = root
        BY <1>1 DEF SyncInv, ProducerInv, SessionStep
  <1>7. ProducerInv'
        BY <1>2, <1>5, <1>6 DEF ProducerInv
  <1> QED BY <1>1, <1>2, <1>4, <1>5, <1>7, PlanStepInv

\* ProducerFails keeps the invariant.
LEMMA ProducerFailsInv ==
    ASSUME SyncInv, UNCHANGED vmVars, ProducerFails
    PROVE  SyncInv'
  <1>1. SessionStep
        BY DEF ProducerFails, producerFrame, vmVars, SessionStep
  <1>2. /\ UNCHANGED <<disk, tries, worker, inProgress, done, segments, codes>>
        /\ producer' = [producer EXCEPT !.pc = "done"]
        BY DEF ProducerFails, producerFrame
  <1>3. DOMAIN producer = {"pc", "root", "accounts", "more", "seek", "send"}
        BY DEF SyncInv, ShapesOK
  <1>4. /\ DOMAIN producer' = {"pc", "root", "accounts", "more", "seek", "send"}
        /\ producer'.pc = "done" /\ producer'.seek = producer.seek
        BY <1>2, <1>3
  <1>5. producer.seek \in Nat
        BY <1>1 DEF SyncInv, ProducerInv, SessionStep
  <1>6. ProducerInv'
        BY <1>4, <1>5 DEF ProducerInv
  <1> QED BY <1>1, <1>2, <1>4, <1>6, PlanStepInv

\* CloseStorageTriesDone keeps the invariant.
LEMMA CloseStorageTriesDoneInv ==
    ASSUME SyncInv, UNCHANGED vmVars, CloseStorageTriesDone
    PROVE  SyncInv'
  <1>1. SessionStep /\ root # None /\ producer.pc = "mark"
        BY DEF CloseStorageTriesDone, AtProducer, producerFrame, vmVars, SessionStep
  <1>2. /\ UNCHANGED <<disk, tries, worker, inProgress, segments, codes>>
        /\ done' = done \cup {"storage"}
        /\ producer' = [producer EXCEPT !.pc = "send"]
        BY DEF CloseStorageTriesDone, producerFrame
  <1>3. DOMAIN producer = {"pc", "root", "accounts", "more", "seek", "send"}
        BY DEF SyncInv, ShapesOK
  <1>4. /\ DOMAIN producer' = {"pc", "root", "accounts", "more", "seek", "send"}
        /\ producer'.pc = "send" /\ producer'.seek = producer.seek
        /\ producer'.more = producer.more /\ producer'.send = producer.send
        BY <1>2, <1>3
  <1>5. /\ producer.seek \in Nat /\ "main" \in done /\ root' = root
        /\ producer.more => Below(producer.seek)
        /\ producer.send \in Seq(Items)
        BY <1>1 DEF SyncInv, ProducerInv, SessionStep
  <1>6. ProducerInv'
    <2>1. "main" \in done' /\ Items' = Items
          BY <1>1, <1>2, <1>5, SamePlan
    <2>2. producer'.more => Below(producer.seek)'
          BY <1>1, <1>2, <1>4, <1>5, SamePlan
    <2> QED BY <2>1, <2>2, <1>4, <1>5 DEF ProducerInv
  <1> QED BY <1>1, <1>2, <1>4, <1>5, <1>6, PlanStepInv

\* StartSyncing keeps the invariant.
LEMMA StartSyncingInv ==
    ASSUME SyncInv, UNCHANGED vmVars, StartSyncing
    PROVE  SyncInv'
  <1>1. SessionStep /\ root # None /\ producer.pc = "send"
        BY DEF StartSyncing, AtProducer, producerFrame, vmVars, SessionStep
  <1>2. UNCHANGED <<disk, tries, worker, inProgress, codes, done>>
        BY DEF StartSyncing, producerFrame
  <1>3. DOMAIN producer = {"pc", "root", "accounts", "more", "seek", "send"}
        BY DEF SyncInv, ShapesOK
  <1>4. /\ producer.seek \in Nat /\ "main" \in done /\ root' = root
        /\ producer.more => Below(producer.seek)
        /\ producer.send \in Seq(Items)
        BY <1>1 DEF SyncInv, ProducerInv, SessionStep
  <1>5. CASE /\ producer.send # <<>> /\ Send(Head(producer.send))
             /\ producer' = [producer EXCEPT !.send = Tail(producer.send)]
    <2>1. /\ segments' = segments \/ /\ DOMAIN segments' = {"queue", "closed"}
                                     /\ segments'.queue \in Seq(Items)
          /\ Tail(producer.send) \in Seq(Items)
          BY <1>1, <1>4, <1>5, SendStep
    <2>2. /\ DOMAIN producer' = {"pc", "root", "accounts", "more", "seek", "send"}
          /\ producer'.pc = "send" /\ producer'.seek = producer.seek
          /\ producer'.more = producer.more /\ producer'.send = Tail(producer.send)
          BY <1>1, <1>3, <1>5
    <2>3. ProducerInv'
      <3>1. "main" \in done' /\ Items' = Items
            BY <1>1, <1>2, <1>4, SamePlan
      <3>2. producer'.more => Below(producer.seek)'
            BY <1>1, <1>2, <1>4, <2>2, SamePlan
      <3> QED BY <3>1, <3>2, <2>1, <2>2, <1>4 DEF ProducerInv
    <2> QED BY <2>1, <2>2, <2>3, <1>1, <1>2, PlanStepInv
  <1>6. CASE /\ producer' = [producer EXCEPT !.pc = IF producer.more THEN "next" ELSE "done"]
             /\ UNCHANGED segments
    <2>1. /\ DOMAIN producer' = {"pc", "root", "accounts", "more", "seek", "send"}
          /\ producer'.pc = IF producer.more THEN "next" ELSE "done"
          /\ producer'.seek = producer.seek
          BY <1>3, <1>6
    <2>2. ProducerInv'
      <3>1. producer'.pc = "next" => Below(producer.seek)'
            BY <1>1, <1>2, <1>4, <2>1, SamePlan
      <3> QED BY <3>1, <2>1, <1>2, <1>4 DEF ProducerInv
    <2> QED BY <2>1, <2>2, <1>1, <1>2, <1>6, PlanStepInv
  <1> QED BY <1>5, <1>6 DEF StartSyncing

\* The markers of a storage root name accounts that have it.
LEMMA QueueFacts ==
    ASSUME SyncInv, root # None, NEW q \in disk.queue
    PROVE  /\ q[1] \in StorageRoots /\ q[2] \in Key /\ q = <<q[1], q[2]>>
           /\ q[2] \in Users(root, q[1])
           /\ q[1] \in Nat
  <1>1. q \in StorageRoots \X Key /\ q[2] \in Users(root, q[1])
        BY SessionFacts DEF SyncInv, SnapshotInv
  <1> QED BY <1>1, RootsAssumption DEF Roots

\* Once all accounts are there, the markers cover a storage trie.
LEMMA MarkersCover ==
    ASSUME SyncInv, root # None, ~torn, "main" \in done, NEW r \in StorageRoots
    PROVE  Covers(disk, r, {a \in Key : <<r, a>> \in disk.queue})
  <1>1. /\ root \in MainRoots /\ disk.syncRoot = root /\ disk.accounts = Leafs[root]
        /\ \A k \in DOMAIN disk.accounts : Followed(disk, k)
        BY SessionFacts DEF SyncInv, ProgressInv
  <1>2. ASSUME NEW k \in Users(root, r)
        PROVE  k \in Key /\ (<<r, k>> \in disk.queue \/ disk.slots[k] = Leafs[r])
    <2>1. k \in Key /\ k \in DOMAIN Leafs[root] /\ Leafs[root][k].root = r
          BY <1>1, <1>2, UserFacts DEF Users
    <2>2. r # None
          BY RootsAssumption DEF Roots
    <2> QED BY <2>1, <2>2, <1>1 DEF Followed
  <1> QED BY <1>1, <1>2 DEF Covers

\* GetNextTrie keeps the invariant: tries come in the order of their roots, and
\* each with all accounts that still wait for it.
LEMMA GetNextTrieInv ==
    ASSUME SyncInv, UNCHANGED vmVars, GetNextTrie
    PROVE  SyncInv'
  <1> DEFINE rs == {q \in Queued : q >= producer.seek}
             r == Min(rs)
             A == {a \in Key : <<r, a>> \in disk.queue}
             seek == IF rs # {r} THEN Min(rs \ {r}) ELSE producer.seek
  <1>1. /\ SessionStep /\ root # None /\ producer.pc \in {"wait", "next"}
        /\ producer.pc = "wait" => "main" \in done
        BY DEF GetNextTrie, AtProducer, producerFrame, vmVars, SessionStep
  <1>2. UNCHANGED <<disk, tries, worker, inProgress, codes, done>>
        BY DEF GetNextTrie, producerFrame
  <1>3. /\ DOMAIN producer = {"pc", "root", "accounts", "more", "seek", "send"}
        /\ DOMAIN segments = {"queue", "closed"} /\ segments.queue \in Seq(Items)
        BY <1>1 DEF SyncInv, ShapesOK, TriesInv
  <1>4. /\ producer.seek \in Nat /\ "main" \in done /\ root' = root
        /\ producer.pc = "wait" => DOMAIN tries = {root}
        /\ producer.pc = "next" => Below(producer.seek)
        BY <1>1 DEF SyncInv, ProducerInv, SessionStep
  <1>5. CASE /\ segments' = [segments EXCEPT !.closed = TRUE]
             /\ producer' = [producer EXCEPT !.pc = "done"]
    <2>1. /\ DOMAIN producer' = {"pc", "root", "accounts", "more", "seek", "send"}
          /\ producer'.pc = "done" /\ producer'.seek = producer.seek
          BY <1>3, <1>5
    <2>2. DOMAIN segments' = {"queue", "closed"} /\ segments'.queue \in Seq(Items)
          BY <1>3, <1>5
    <2>3. ProducerInv'
          BY <2>1, <1>4 DEF ProducerInv
    <2> QED BY <2>1, <2>2, <2>3, <1>1, <1>2, PlanStepInv
  <1>6. CASE /\ rs # {} /\ UNCHANGED segments
             /\ producer' = [producer EXCEPT !.pc = "sem", !.root = r, !.accounts = A,
                                !.more = (rs # {r}), !.seek = seek]
    <2>1. /\ DOMAIN producer' = {"pc", "root", "accounts", "more", "seek", "send"}
          /\ producer'.pc = "sem" /\ producer'.root = r /\ producer'.accounts = A
          /\ producer'.more = (rs # {r}) /\ producer'.seek = seek
          BY <1>3, <1>6
    <2>2. rs \subseteq Nat
          BY <1>1, QueueFacts DEF Queued
    <2>3. r \in rs /\ r \in Nat /\ \A y \in rs : r <= y
          BY <1>6, <2>2, LeastNat
    <2>4. r >= producer.seek /\ \E q \in disk.queue : q[1] = r
          BY <2>3 DEF Queued
    <2>5. /\ seek \in Nat
          /\ rs # {r} => r < seek
      <3>1. CASE rs # {r}
        <4> DEFINE S == rs \ {r}
        <4>1. S \subseteq Nat /\ S # {}
              BY <2>2, <2>3, <3>1
        <4>2. Min(S) \in S
              BY <4>1, LeastNat
        <4>3. Min(S) \in Nat /\ Min(S) \in rs /\ Min(S) # r
              BY <4>1, <4>2
        <4>4. r <= Min(S)
              BY <4>3, <2>3
        <4>5. r < Min(S)
              BY <4>3, <4>4, <2>3
        <4> QED BY <4>3, <4>5, <3>1
      <3> QED BY <3>1, <1>4
    <2> HIDE DEF r, rs, seek
    <2>6. r \in StorageRoots /\ A # {} /\ A \subseteq Users(root, r)
      <3>1. PICK q \in disk.queue : q[1] = r
            BY <2>4
      <3>2. q[1] \in StorageRoots /\ q[2] \in Key /\ q = <<q[1], q[2]>>
            BY <1>1, QueueFacts
      <3>3. ASSUME NEW a \in A PROVE a \in Users(root, r)
        <4>1. <<r, a>> \in disk.queue
              OBVIOUS
        <4> QED BY <4>1, <1>1, QueueFacts
      <3> QED BY <3>1, <3>2, <3>3
    <2>7. (~torn) => Covers(disk, r, A)
          BY <1>1, <1>4, <2>6, MarkersCover
    <2> HIDE DEF A
    <2>8. Below(r)
      <3>1. CASE producer.pc = "wait"
            BY <3>1, <1>4 DEF Below
      <3>2. CASE producer.pc = "next"
        <4>1. \A q \in DOMAIN tries \ {root} : q \in Nat
              BY <1>1, RootsAssumption DEF SyncInv, TriesInv, Roots
        <4>2. \A q \in DOMAIN tries \ {root} : q < producer.seek
              BY <3>2, <1>4 DEF Below
        <4>3. \A q \in DOMAIN tries \ {root} : q < r
              BY <4>1, <4>2, <2>3, <2>4, <1>4
        <4> QED BY <4>3 DEF Below
      <3> QED BY <3>1, <3>2, <1>1
    <2>9. Below(producer.root)'
      <3>1. \A q \in DOMAIN tries \ {root} : q < r
            BY <2>8 DEF Below
      <3> QED BY <3>1, <2>1, <1>2, <1>4 DEF Below
    <2>10. ProducerInv'
          BY <2>1, <2>5, <2>6, <2>9, <1>2, <1>4 DEF ProducerInv
    <2> QED BY <2>1, <2>7, <2>10, <1>1, <1>2, <1>6, PlanStepInv
  <1> QED BY <1>5, <1>6 DEF GetNextTrie

\* A trie is restored from its markers and the snapshot, with nothing in its
\* batches and nothing hashed.
NewTrieOK(t, A) ==
    /\ TrieShape(t) /\ t.accounts = A /\ t.hashed = Empty
    /\ \A i \in DOMAIN t.segs : t.segs[i].batch = Empty

\* A segment found on disk starts with an empty batch.
LEMMA ResumedFacts ==
    ASSUME NEW start, NEW end, NEW persisted, NEW s, s = Resumed(addSegment(start, end), persisted)
    PROVE  DOMAIN s = {"start", "end", "pos", "leafs", "batch"} /\ s.batch = Empty
  <1> DEFINE a == addSegment(start, end)
             n == Cardinality(DOMAIN persisted \cap InSegment(a))
             p == IF DOMAIN persisted \cap InSegment(a) = {} THEN Nil
                  ELSE IncrOne(Max(DOMAIN persisted \cap InSegment(a)))
  <1>1. DOMAIN a = {"start", "end", "pos", "leafs", "batch"} /\ a.batch = Empty
        BY DEF addSegment
  <1>2. s = [a EXCEPT !.leafs = n, !.pos = p]
        BY DEF Resumed
  <1> HIDE DEF a, n, p
  <1> QED BY <1>1, <1>2

\* A new trie is well-formed, holds no batch and has hashed nothing.
LEMMA NewTrieFacts ==
    ASSUME NEW d, NEW r, NEW A, NEW t, t = NewTrieToSync(d, r, A)
    PROVE  NewTrieOK(t, A)
  <1> DEFINE marks == {k \in Key : <<r, k>> \in d.segments}
             starts == Ascending(marks)
             n == Cardinality(marks)
             stored == IterateLeafs(d, r, A)
             Start(i) == IF i = 1 THEN 0 ELSE starts[i - 1]
             End(i) == IF i > n THEN Nil ELSE starts[i] - 1
             segs == [i \in 1 .. n + 1 |-> Resumed(addSegment(Start(i), End(i)), stored)]
  <1>1. n \in Nat
        BY FewMarks
  <1>2. loadSegments(d, r, A) = segs
        BY DEF loadSegments
  <1>3. /\ DOMAIN t = {"segs", "finished", "next", "hashed", "accounts"}
        /\ t.segs = segs /\ t.hashed = Empty /\ t.accounts = A
        BY <1>2 DEF NewTrieToSync
  <1> HIDE DEF n, starts, stored
  <1>4. /\ DOMAIN segs = 1 .. n + 1
        /\ \A i \in 1 .. n + 1 : segs[i] = Resumed(addSegment(Start(i), End(i)), stored)
        /\ segs = [i \in 1 .. n + 1 |-> segs[i]]
        OBVIOUS
  <1> HIDE DEF segs, Start, End
  <1>5. \A i \in 1 .. n + 1 : /\ DOMAIN segs[i] = {"start", "end", "pos", "leafs", "batch"}
                              /\ segs[i].batch = Empty
        BY <1>4, ResumedFacts
  <1>6. Sequence(segs)
    <2>1. n + 1 \in Nat
          BY <1>1
    <2> QED BY <2>1, <1>4, SequenceDef
  <1> QED BY <1>3, <1>4, <1>5, <1>6 DEF NewTrieOK, TrieShape

\* The segments of a trie as a sequence over any set that has them.
LEMMA SegmentsOfSeq ==
    ASSUME NEW r, NEW t, TrieShape(t), NEW S, {r} \X DOMAIN t.segs \subseteq S
    PROVE  SegmentsOf(r, t) \in Seq(S)
  <1>1. Len(t.segs) \in Nat /\ DOMAIN t.segs = 1 .. Len(t.segs)
        BY SeqFunction DEF TrieShape, Sequence
  <1>2. \A i \in 1 .. Len(t.segs) : <<r, i>> \in S
        BY <1>1
  <1> QED BY <1>1, <1>2 DEF SegmentsOf

\* AddTrie keeps the invariant: a trie is added once.
LEMMA AddTrieInv ==
    ASSUME SyncInv, UNCHANGED vmVars, AddTrie
    PROVE  SyncInv'
  <1> DEFINE r == producer.root
             A == producer.accounts
  <1>1. SessionStep /\ root # None /\ producer.pc = "sem"
        BY DEF AddTrie, AtProducer, producerFrame, vmVars, SessionStep
  <1>2. PICK t :
        /\ t = NewTrieToSync(disk, r, A)
        /\ tries' = Over([q \in {r} |-> t], tries)
        /\ inProgress' = inProgress \cup {r}
        /\ producer' = [producer EXCEPT !.send = SegmentsOf(r, t),
                           !.pc = IF producer.more THEN "send" ELSE "mark"]
        BY DEF AddTrie
  <1>3. UNCHANGED <<disk, worker, codes, segments, done>>
        BY DEF AddTrie, producerFrame
  <1>4. /\ producer.seek \in Nat /\ "main" \in done /\ root' = root
        /\ r \in StorageRoots /\ Below(r) /\ A # {} /\ A \subseteq Users(root, r)
        /\ producer.more => r < producer.seek
        /\ DOMAIN producer = {"pc", "root", "accounts", "more", "seek", "send"}
        BY <1>1 DEF SyncInv, ShapesOK, ProducerInv, SessionStep
  <1>5. (~torn) => Covers(disk, r, A)
        BY <1>1 DEF SyncInv, ProgressInv
  <1>6. NewTrieOK(t, A)
        BY <1>2, NewTrieFacts
  <1>7. /\ root \in DOMAIN tries /\ DOMAIN tries \subseteq {root} \cup StorageRoots
        /\ root \in MainRoots /\ root \notin StorageRoots
        BY <1>1, SessionFacts DEF SyncInv, TriesInv
  <1>8. r \notin DOMAIN tries /\ r # root
    <2>1. r # root /\ r \in Nat
          BY <1>4, <1>7, RootsAssumption DEF Roots
    <2>2. \A q \in DOMAIN tries \ {root} : q < r
          BY <1>4 DEF Below
    <2>3. ~(r < r)
          BY <2>1
    <2> QED BY <2>1, <2>2, <2>3
  <1>9. /\ DOMAIN tries' = DOMAIN tries \cup {r} /\ tries'[r] = t
        /\ \A q \in DOMAIN tries : tries'[q] = tries[q]
        BY <1>2, <1>8 DEF Over
  <1> HIDE DEF r, A
  <1>10. DiskStep(disk')
        BY <1>1, <1>3, SameDisk
  <1>11. BatchKeys' = BatchKeys
        BY <1>4, <1>7, <1>9 DEF BatchKeys
  <1>12. TrieStep(r)
    <2>1. PartOf(Empty, Leafs[r]) /\ PartOf(Empty, IterateLeafs(disk', r, A))
          BY PartFacts
    <2> QED BY <2>1, <1>3, <1>4, <1>5, <1>6, <1>8, <1>9 DEF TrieStep, NewTrieOK
  <1>13. TriesStep
    <2>1. \A q \in DOMAIN tries' : (q \in DOMAIN tries /\ tries'[q] = tries[q]) \/ TrieStep(q)
          BY <1>9, <1>12
    <2>2. DOMAIN tries \subseteq DOMAIN tries' /\ DOMAIN tries' \subseteq {root} \cup StorageRoots
          BY <1>4, <1>7, <1>9
    <2> QED BY <2>1, <2>2, <1>11 DEF TriesStep
  <1>14. WorkersStep
        BY <1>3, SameWorkers
  <1>15. /\ DOMAIN producer' = {"pc", "root", "accounts", "more", "seek", "send"}
         /\ producer'.pc \in {"send", "mark"} /\ producer'.send = SegmentsOf(r, t)
         /\ producer'.more = producer.more /\ producer'.seek = producer.seek
        BY <1>2, <1>4
  <1>16. SegmentsOf(r, t) \in Seq(Items')
    <2>1. {r} \X DOMAIN t.segs \subseteq Items'
          BY <1>9 DEF Items
    <2>2. TrieShape(t)
          BY <1>6 DEF NewTrieOK
    <2> HIDE DEF Items
    <2> QED BY <2>1, <2>2, SegmentsOfSeq
  <1>17. producer.more => Below(producer.seek)'
    <2> SUFFICES ASSUME producer.more, NEW q \in DOMAIN tries' \ {root}
                 PROVE  q < producer.seek
          BY <1>4, <1>15 DEF Below
    <2>1. r \in Nat /\ r < producer.seek
          BY <1>4, RootsAssumption DEF Roots
    <2>2. CASE q \in DOMAIN tries
      <3>1. q \in Nat /\ q < r
            BY <2>2, <1>4, <1>7, RootsAssumption DEF Below, Roots
      <3> QED BY <3>1, <2>1, <1>4
    <2> QED BY <2>1, <2>2, <1>9
  <1>18. ProducerInv'
        BY <1>3, <1>4, <1>15, <1>16, <1>17 DEF ProducerInv
  <1>19. ProducerStepOK
        BY <1>15, <1>18 DEF ProducerStepOK
  <1>20. /\ codes.outstanding \subseteq disk'.code \cup disk'.toFetch
         /\ DOMAIN codes = {"queue", "closed", "outstanding"}
         /\ DOMAIN segments = {"queue", "closed"}
         /\ segments.queue \in Seq(Items')
         /\ inProgress \subseteq DOMAIN tries'
        BY <1>1, <1>10, <1>13, RestLater
  <1>21. RestStep
        BY <1>2, <1>3, <1>4, <1>9, <1>20 DEF RestStep, r
  <1> QED BY <1>1, <1>10, <1>13, <1>14, <1>19, <1>21, SessionInv

----------------------------------------------------------------------------
(* The code workers, and the end of the context *)

\* CodeWorkerFails, TakeCode and GetCode leave the disk alone.
LEMMA WorkCodesInv ==
    ASSUME SyncInv, UNCHANGED vmVars, NEW w \in CodeWorkers,
           CodeWorkerFails(w) \/ TakeCode(w) \/ GetCode(w)
    PROVE  SyncInv'
  <1>1. SessionStep
        BY DEF CodeWorkerFails, TakeCode, GetCode, AtCode, codeFrame, vmVars, SessionStep
  <1>2. /\ UNCHANGED <<disk, tries, producer, worker, done, inProgress, segments>>
        /\ \/ codes' = codes
           \/ codes' = [codes EXCEPT !.queue = Tail(codes.queue)]
           \/ codes' = [codes EXCEPT !.outstanding = codes.outstanding \ ToSet(codeWorker[w].batch)]
        BY DEF CodeWorkerFails, TakeCode, GetCode, codeFrame
  <1>3. DOMAIN codes = {"queue", "closed", "outstanding"}
        BY DEF SyncInv, ShapesOK
  <1>4. /\ DOMAIN codes' = {"queue", "closed", "outstanding"}
        /\ codes'.outstanding \subseteq codes.outstanding
        BY <1>2, <1>3
  <1>5. WorkersStep
        BY <1>2, SameWorkers
  <1> QED BY <1>1, <1>2, <1>4, <1>5, LightStepInv

\* WriteCode keeps the invariant: a marker goes with the code that replaces it.
LEMMA WriteCodeInv ==
    ASSUME SyncInv, UNCHANGED vmVars, NEW w \in CodeWorkers, WriteCode(w)
    PROVE  SyncInv'
  <1> DEFINE B == ToSet(codeWorker[w].batch)
  <1>1. SessionStep /\ root # None
        BY DEF WriteCode, AtCode, codeFrame, vmVars, SessionStep
  <1>2. /\ UNCHANGED <<tries, producer, worker, done, inProgress, segments, codes>>
        /\ disk' = [disk EXCEPT !.code = disk.code \cup B, !.toFetch = disk.toFetch \ B]
        BY DEF WriteCode, codeFrame
  <1> HIDE DEF B
  <1>3. DiskShape(disk)
        BY DEF SyncInv, ShapesOK
  <1>4. /\ DiskShape(disk') /\ disk'.summary = disk.summary /\ disk'.syncRoot = disk.syncRoot
        /\ disk'.accounts = disk.accounts /\ disk'.slots = disk.slots
        /\ disk'.queue = disk.queue /\ disk'.tries = disk.tries
        /\ disk'.code = disk.code \cup B /\ disk'.toFetch = disk.toFetch \ B
        BY <1>2, <1>3 DEF DiskShape
  <1>5. disk.code \cup disk.toFetch \subseteq disk'.code \cup disk'.toFetch
        BY <1>4
  <1>6. DiskStep(disk')
    <2>1. DiskStep(disk)
          BY <1>1, SameDisk
    <2> QED BY <2>1, <1>1, <1>4, <1>5, SameContent
  <1>7. TriesStep
        BY <1>1, <1>2, SameTries
  <1>8. WorkersStep
        BY <1>2, SameWorkers
  <1> QED BY <1>1, <1>2, <1>6, <1>7, <1>8, StepInv

\* Shutdown keeps the invariant.
LEMMA ShutdownInv ==
    ASSUME SyncInv, Shutdown
    PROVE  SyncInv'
  <1>1. SessionStep
        BY DEF Shutdown, Cancel, SessionStep
  <1>2. UNCHANGED <<disk, tries, producer, worker, done, inProgress, segments, codes>>
        BY DEF Shutdown, Cancel
  <1>3. WorkersStep
        BY <1>2, SameWorkers
  <1> QED BY <1>1, <1>2, <1>3, LightStepInv

\* Every step of the syncer keeps the invariant.
LEMMA SyncStepInv ==
    ASSUME SyncInv, UNCHANGED vmVars, SyncStep
    PROVE  SyncInv'
  <1>1. ASSUME NEW w \in Workers, WorkerStep(w) PROVE SyncInv'
        BY <1>1, TakeTaskInv, OnStartInv, GetLeafsInv, AddHashToQueueInv, OnLeafsInv,
           CreateSegmentInv, SendSegmentInv, SegmentFinishedInv, ClearSegmentsInv,
           OnMainTrieFinishedInv, ReleaseTrieInv, RemoveTrieInv, CloseSegmentsInv
        DEF WorkerStep
  <1>2. ASSUME ProducerStep PROVE SyncInv'
        BY <1>2, FeedCodesInv, ProducerFailsInv, GetNextTrieInv, AddTrieInv,
           CloseStorageTriesDoneInv, StartSyncingInv
        DEF ProducerStep
  <1>3. ASSUME NEW w \in CodeWorkers, CodeStep(w) PROVE SyncInv'
        BY <1>3, WorkCodesInv, WriteCodeInv DEF CodeStep
  <1> QED BY <1>1, <1>2, <1>3, LeafSyncDoneInv DEF SyncStep

----------------------------------------------------------------------------
(* The client, outside a sync *)

\* Nothing of a sync is left when none is running.
LEMMA OutsideInv ==
    ASSUME SyncInv, root' = None, (UNCHANGED syncVars) \/ Quiet,
           DiskShape(disk'), ClientInv', SnapshotInv',
           disk.code \cup disk.toFetch \subseteq disk'.code \cup disk'.toFetch,
           \A k \in DOMAIN disk'.accounts : CodeKnown(disk', disk'.accounts[k].code)
    PROVE  SyncInv'
  <1>1. /\ DOMAIN segments' = {"queue", "closed"}
        /\ DOMAIN codes' = {"queue", "closed", "outstanding"}
        /\ codes'.outstanding \subseteq disk.code \cup disk.toFetch
    <2>1. CASE UNCHANGED syncVars
          BY <2>1 DEF syncVars, SyncInv, ShapesOK, CodesInv
    <2>2. CASE Quiet
          BY <2>2 DEF Quiet
    <2> QED BY <2>1, <2>2
  <1>2. /\ done' = {} /\ producer' = IdleProducer
        /\ worker' = [w \in Workers |-> IdleWorker]
    <2>1. CASE UNCHANGED syncVars
          BY <2>1 DEF syncVars, SyncInv, IdleInv
    <2>2. CASE Quiet
          BY <2>2 DEF Quiet
    <2> QED BY <2>1, <2>2
  <1>3. \A r \in DOMAIN tries' : TrieShape(tries'[r])
    <2>1. CASE UNCHANGED syncVars
          BY <2>1 DEF syncVars, SyncInv, ShapesOK
    <2>2. CASE Quiet
          BY <2>2 DEF Quiet
    <2> QED BY <2>1, <2>2
  <1>4. /\ DOMAIN IdleProducer = {"pc", "root", "accounts", "more", "seek", "send"}
        /\ DOMAIN IdleWorker = {"pc", "root", "idx", "start", "keys", "last", "todo", "left"}
        BY DEF IdleProducer, IdleWorker
  <1>5. ShapesOK'
        BY <1>1, <1>2, <1>3, <1>4 DEF ShapesOK
  <1>6. CodesInv'
        BY <1>1 DEF CodesInv
  <1>7. IdleInv' /\ TriesInv' /\ ProducerInv' /\ ProgressInv'
        BY <1>2 DEF IdleInv, TriesInv, ProducerInv, ProgressInv
  <1> QED BY <1>5, <1>6, <1>7 DEF SyncInv

\* The content of the disk is left alone.
SameStore ==
    /\ disk'.syncRoot = disk.syncRoot /\ disk'.accounts = disk.accounts
    /\ disk'.slots = disk.slots /\ disk'.queue = disk.queue /\ disk'.tries = disk.tries
    /\ disk'.code = disk.code /\ disk'.toFetch = disk.toFetch

\* A step of the client that ends a sync or moves between phases, and leaves the
\* snapshot, queue and code markers as they are, keeps the invariant.
LEMMA SameStoreInv ==
    ASSUME SyncInv, root' = None, (UNCHANGED syncVars) \/ Quiet, UNCHANGED torn,
           DiskShape(disk'), SameStore, disk'.summary \in {disk.summary, None}, ClientInv'
    PROVE  SyncInv'
  <1>1. \A k \in DOMAIN disk'.accounts : CodeKnown(disk', disk'.accounts[k].code)
        BY DEF SameStore, CodeKnown, SyncInv, CodesInv
  <1>2. SnapshotInv'
    <2>1. \A k : Followed(disk', k) <=> Followed(disk, k)
          BY DEF SameStore, Followed
    <2>2. SnapshotOK(disk') <=> SnapshotOK(disk)
          BY DEF SameStore, SnapshotOK
    <2>3. SnapshotEmpty' <=> SnapshotEmpty
          BY DEF SameStore, SnapshotEmpty
    <2>4. /\ disk.syncRoot = None => disk.queue = {}
          /\ disk.syncRoot # None => \A q \in disk.queue :
                q \in StorageRoots \X Key /\ q[2] \in Users(disk.syncRoot, q[1])
          /\ (~torn /\ disk.summary # None) =>
                IF disk.summary # disk.syncRoot THEN SnapshotEmpty
                ELSE SnapshotOK(disk) /\ \A k \in DOMAIN disk.accounts : Followed(disk, k)
          BY DEF SyncInv, SnapshotInv
    <2>5. CASE disk'.summary = None
          BY <2>4, <2>5 DEF SnapshotInv, SameStore
    <2>6. CASE disk'.summary = disk.summary
          BY <2>1, <2>2, <2>3, <2>4, <2>6 DEF SnapshotInv, SameStore
    <2> QED BY <2>5, <2>6
  <1>3. disk.code \cup disk.toFetch \subseteq disk'.code \cup disk'.toFetch
        BY DEF SameStore
  <1> QED BY <1>1, <1>2, <1>3, OutsideInv

\* A client that is not syncing state has no sync under way.
LEMMA OutsideFacts ==
    ASSUME SyncInv, phase # "state"
    PROVE  root = None /\ DiskShape(disk)
  BY DEF SyncInv, ClientInv, ShapesOK

\* AcceptSyncSummary keeps the invariant.
LEMMA AcceptSyncSummaryInv ==
    ASSUME SyncInv, NEW r \in MainRoots, AcceptSyncSummary(r)
    PROVE  SyncInv'
  <1>1. /\ phase = "boot" /\ target' = r /\ UNCHANGED <<syncVars, torn, resumable>>
        /\ \/ phase' = "blocks" /\ r = resumable /\ disk' = [disk EXCEPT !.summary = r]
           \/ phase' \in {"skipped", "wipe"} /\ UNCHANGED disk
        BY DEF AcceptSyncSummary
  <1>2. root = None /\ root' = None /\ DiskShape(disk)
        BY <1>1, OutsideFacts DEF syncVars
  <1>3. resumable = disk.summary
        BY <1>1 DEF SyncInv, ClientInv
  <1>4. /\ DiskShape(disk') /\ SameStore
        /\ disk'.summary \in {disk.summary, None}
        /\ phase' = "blocks" => disk'.summary = r
        BY <1>1, <1>2, <1>3 DEF DiskShape, SameStore
  <1>5. ClientInv'
        BY <1>1, <1>2, <1>4 DEF ClientInv
  <1> QED BY <1>1, <1>2, <1>4, <1>5, SameStoreInv

\* SyncBlocks keeps the invariant.
LEMMA SyncBlocksInv ==
    ASSUME SyncInv, SyncBlocks
    PROVE  SyncInv'
  <1> DEFINE b == disk.blocks \cup (BlocksOf(target) \ OnDisk(target))
  <1>1. /\ phase = "blocks" /\ phase' = "state" /\ UNCHANGED <<syncVars, torn, target>>
        /\ disk' = [disk EXCEPT !.blocks = b]
        BY DEF SyncBlocks
  <1> HIDE DEF b
  <1>2. root = None /\ root' = None /\ DiskShape(disk)
        BY <1>1, OutsideFacts DEF syncVars
  <1>3. DiskShape(disk') /\ SameStore /\ disk'.summary = disk.summary
        BY <1>1, <1>2 DEF DiskShape, SameStore
  <1>4. target \in MainRoots /\ disk.summary = target
        BY <1>1 DEF SyncInv, ClientInv
  <1>5. ClientInv'
        BY <1>1, <1>2, <1>3, <1>4 DEF ClientInv
  <1> QED BY <1>1, <1>2, <1>3, <1>5, SameStoreInv

\* SyncStateTrieDone keeps the invariant.
LEMMA SyncStateTrieDoneInv ==
    ASSUME SyncInv, SyncStateTrieDone
    PROVE  SyncInv'
  <1>1. /\ phase = "state" /\ phase' \in {"reset", "failed"} /\ Quiet
        /\ UNCHANGED <<disk, target, torn>>
        BY DEF SyncStateTrieDone
  <1>2. root' = None
        BY <1>1 DEF Quiet
  <1>3. DiskShape(disk') /\ SameStore /\ disk'.summary = disk.summary
        BY <1>1 DEF SyncInv, ShapesOK, SameStore
  <1>4. target \in MainRoots /\ disk.summary = target
        BY <1>1 DEF SyncInv, ClientInv
  <1>5. ClientInv'
        BY <1>1, <1>2, <1>4 DEF ClientInv
  <1> QED BY <1>1, <1>2, <1>3, <1>5, SameStoreInv

\* ResetToStateSyncedBlock keeps the invariant.
LEMMA ResetToStateSyncedBlockInv ==
    ASSUME SyncInv, ResetToStateSyncedBlock
    PROVE  SyncInv'
  <1>1. /\ phase = "reset" /\ phase' \in {"markers", "failed"}
        /\ UNCHANGED <<syncVars, torn, target>>
        /\ disk' = [disk EXCEPT !.head = target] \/ UNCHANGED disk
        BY DEF ResetToStateSyncedBlock
  <1>2. root = None /\ root' = None /\ DiskShape(disk)
        BY <1>1, OutsideFacts DEF syncVars
  <1>3. DiskShape(disk') /\ SameStore /\ disk'.summary = disk.summary
        BY <1>1, <1>2 DEF DiskShape, SameStore
  <1>4. target \in MainRoots /\ disk.summary = target
        BY <1>1 DEF SyncInv, ClientInv
  <1>5. ClientInv'
        BY <1>1, <1>2, <1>3, <1>4 DEF ClientInv
  <1> QED BY <1>1, <1>2, <1>3, <1>5, SameStoreInv

\* UpdateVMMarkers and OnBootstrapStarted keep the invariant: the sync is over.
LEMMA EndInv ==
    ASSUME SyncInv, UpdateVMMarkers \/ OnBootstrapStarted
    PROVE  SyncInv'
  <1>1. /\ phase # "state" /\ phase' \in {"synced", "bootstrapping"}
        /\ UNCHANGED <<syncVars, torn>>
        /\ \/ disk' = [disk EXCEPT !.accepted = target, !.summary = None]
           \/ disk' = [disk EXCEPT !.summary = None]
        BY DEF UpdateVMMarkers, OnBootstrapStarted
  <1>2. root = None /\ root' = None /\ DiskShape(disk)
        BY <1>1, OutsideFacts DEF syncVars
  <1>3. DiskShape(disk') /\ SameStore /\ disk'.summary = None
        BY <1>1, <1>2 DEF DiskShape, SameStore
  <1>4. ClientInv'
        BY <1>1, <1>2 DEF ClientInv
  <1> QED BY <1>1, <1>2, <1>3, <1>4, SameStoreInv

\* After a crash the client starts from what the disk names.
LEMMA CrashInv ==
    ASSUME SyncInv, Crash
    PROVE  SyncInv'
  <1>1. /\ phase' = "boot" /\ resumable' = disk.summary /\ Quiet /\ UNCHANGED <<disk, torn>>
        BY DEF Crash
  <1>2. root' = None
        BY <1>1 DEF Quiet
  <1>3. DiskShape(disk') /\ SameStore /\ disk'.summary = disk.summary
        BY <1>1 DEF SyncInv, ShapesOK, SameStore
  <1>4. ClientInv'
        BY <1>1, <1>2 DEF ClientInv
  <1> QED BY <1>1, <1>2, <1>3, <1>4, SameStoreInv

\* WipeBatch keeps the invariant: the snapshot is torn until the wipe is over.
LEMMA WipeBatchInv ==
    ASSUME SyncInv, WipeBatch
    PROVE  SyncInv'
  <1> DEFINE f == Within(disk.accounts, DOMAIN disk.accounts \ {Min(DOMAIN disk.accounts)})
             g == Within(disk.slots[FirstSlot],
                         DOMAIN disk.slots[FirstSlot] \ {Min(DOMAIN disk.slots[FirstSlot])})
  <1>1. /\ phase = "wipe" /\ torn' = TRUE /\ UNCHANGED <<syncVars, phase, target>>
        /\ \/ disk' = [disk EXCEPT !.accounts = f]
           \/ disk' = [disk EXCEPT !.slots = [disk.slots EXCEPT ![FirstSlot] = g]]
    <2>1. /\ phase = "wipe" /\ torn' = TRUE /\ UNCHANGED <<syncVars, phase, target>>
          BY DEF WipeBatch
    <2>2. CASE disk.accounts # Empty
      <3>1. disk' = [disk EXCEPT !.accounts = f]
            BY <2>2 DEF WipeBatch
      <3> QED BY <2>1, <3>1
    <2>3. CASE disk.accounts = Empty
      <3>1. disk' = [disk EXCEPT !.slots = [disk.slots EXCEPT ![FirstSlot] = g]]
            BY <2>3 DEF WipeBatch
      <3> QED BY <2>1, <3>1
    <2> QED BY <2>2, <2>3
  <1>2. PartOf(f, disk.accounts)
        BY WithinPart
  <1> HIDE DEF f, g
  <1>3. root = None /\ root' = None /\ DiskShape(disk)
        BY <1>1, OutsideFacts DEF syncVars
  <1>4. /\ DiskShape(disk') /\ disk'.summary = disk.summary /\ disk'.syncRoot = disk.syncRoot
        /\ disk'.queue = disk.queue /\ disk'.code = disk.code /\ disk'.toFetch = disk.toFetch
        /\ disk'.accounts \in {f, disk.accounts}
        BY <1>1, <1>3 DEF DiskShape
  <1>5. \A k \in DOMAIN disk'.accounts : CodeKnown(disk', disk'.accounts[k].code)
    <2>1. \A k \in DOMAIN disk'.accounts :
              k \in DOMAIN disk.accounts /\ disk'.accounts[k] = disk.accounts[k]
          BY <1>2, <1>4 DEF PartOf
    <2>2. \A k \in DOMAIN disk.accounts : CodeKnown(disk, disk.accounts[k].code)
          BY DEF SyncInv, CodesInv
    <2> QED BY <2>1, <2>2, <1>4 DEF CodeKnown
  <1>6. SnapshotInv'
        BY <1>1, <1>4 DEF SyncInv, SnapshotInv
  <1>7. ClientInv'
        BY <1>1, <1>3, <1>4 DEF SyncInv, ClientInv
  <1>8. disk.code \cup disk.toFetch \subseteq disk'.code \cup disk'.toFetch
        BY <1>4
  <1> QED BY <1>1, <1>3, <1>4, <1>5, <1>6, <1>7, <1>8, OutsideInv

\* An empty snapshot is part of every state.
LEMMA EmptyOK ==
    ASSUME NEW d, d.accounts = Empty, \A a \in Key : d.slots[a] = Empty,
           d.syncRoot \in MainRoots
    PROVE  SnapshotOK(d) /\ \A k \in DOMAIN d.accounts : Followed(d, k)
  <1>1. PartOf(Empty, Leafs[d.syncRoot]) /\ \A r \in StorageRoots : PartOf(Empty, Leafs[r])
        BY PartFacts
  <1>2. \A r \in StorageRoots : Users(d.syncRoot, r) \subseteq Key
        BY UserFacts
  <1>3. SnapshotOK(d)
        BY <1>1, <1>2 DEF SnapshotOK
  <1>4. DOMAIN d.accounts = {}
        BY DEF Empty
  <1> QED BY <1>3, <1>4

\* WipeDone keeps the invariant: the key of the new summary goes with an empty
\* snapshot.
LEMMA WipeDoneInv ==
    ASSUME SyncInv, WipeDone
    PROVE  SyncInv'
  <1>1. /\ phase = "wipe" /\ phase' = "blocks" /\ torn' = FALSE /\ SnapshotEmpty
        /\ UNCHANGED <<syncVars, target>> /\ disk' = [disk EXCEPT !.summary = target]
        BY DEF WipeDone
  <1>2. root = None /\ root' = None /\ DiskShape(disk)
        BY <1>1, OutsideFacts DEF syncVars
  <1>3. DiskShape(disk') /\ SameStore /\ disk'.summary = target
        BY <1>1, <1>2 DEF DiskShape, SameStore
  <1>4. target \in MainRoots
        BY <1>1 DEF SyncInv, ClientInv
  <1>5. disk'.accounts = Empty /\ \A a \in Key : disk'.slots[a] = Empty
        BY <1>1, <1>3 DEF SnapshotEmpty, SameStore
  <1>6. disk'.summary = disk'.syncRoot =>
            SnapshotOK(disk') /\ \A k \in DOMAIN disk'.accounts : Followed(disk', k)
        BY <1>3, <1>4, <1>5, EmptyOK
  <1>7. /\ disk.syncRoot = None => disk.queue = {}
        /\ disk.syncRoot # None => \A q \in disk.queue :
              q \in StorageRoots \X Key /\ q[2] \in Users(disk.syncRoot, q[1])
        BY DEF SyncInv, SnapshotInv
  <1>8. SnapshotEmpty'
        BY <1>5 DEF SnapshotEmpty
  <1>9. SnapshotInv'
        BY <1>3, <1>6, <1>7, <1>8 DEF SnapshotInv, SameStore
  <1>10. ClientInv'
        BY <1>1, <1>2, <1>3, <1>4 DEF ClientInv
  <1>11. \A k \in DOMAIN disk'.accounts : CodeKnown(disk', disk'.accounts[k].code)
        BY <1>5 DEF Empty
  <1>12. disk.code \cup disk.toFetch \subseteq disk'.code \cup disk'.toFetch
        BY <1>3 DEF SameStore
  <1> QED BY <1>1, <1>2, <1>3, <1>9, <1>10, <1>11, <1>12, OutsideInv

\* A sync starts: markers of another state are dropped, and those of this one
\* are where it goes on.
StartedDisk(r, e) ==
    /\ DiskShape(e) /\ e.summary = disk.summary /\ e.syncRoot = r
    /\ e.accounts = disk.accounts /\ e.slots = disk.slots /\ e.tries = disk.tries
    /\ e.code = disk.code /\ e.toFetch = disk.toFetch \ disk.code
    /\ e.queue = IF disk.syncRoot \in {None, r} THEN disk.queue ELSE {}

\* What NewStateSyncer changes on disk: another state clears the queue and the
\* segment markers (clearIfRootDoesNotMatch), and code markers are not touched.
LEMMA StartedFields ==
    ASSUME DiskShape(disk), NEW r \in MainRoots, NEW e,
           e = addCodeToFetchFromDBToQueue(clearIfRootDoesNotMatch(disk, r))
    PROVE  StartedDisk(r, e)
  <1> DEFINE c == clearIfRootDoesNotMatch(disk, r)
  <1>1. /\ DOMAIN c = DOMAIN disk /\ c.summary = disk.summary /\ c.syncRoot = r
        /\ c.accounts = disk.accounts /\ c.slots = disk.slots /\ c.tries = disk.tries
        /\ c.code = disk.code /\ c.toFetch = disk.toFetch
        /\ c.queue = IF disk.syncRoot \in {None, r} THEN disk.queue ELSE {}
    <2>1. CASE disk.syncRoot \in {None, r}
      <3>1. c = [disk EXCEPT !.syncRoot = r]
            BY <2>1 DEF clearIfRootDoesNotMatch
      <3> HIDE DEF c
      <3> QED BY <3>1, <2>1 DEF DiskShape
    <2>2. CASE disk.syncRoot \notin {None, r}
      <3>1. c = [disk EXCEPT !.syncRoot = r, !.queue = {}, !.segments = {}]
            BY <2>2 DEF clearIfRootDoesNotMatch
      <3> HIDE DEF c
      <3> QED BY <3>1, <2>2 DEF DiskShape
    <2> QED BY <2>1, <2>2
  <1>2. e = [c EXCEPT !.toFetch = c.toFetch \ c.code]
        BY DEF addCodeToFetchFromDBToQueue
  <1> HIDE DEF c
  <1> QED BY <1>1, <1>2 DEF StartedDisk, DiskShape

\* A sync starts on a snapshot that is empty or part of its state, with every
\* account in it followed.
LEMMA StartedSnapshot ==
    ASSUME SyncInv, NEW r \in MainRoots, disk.summary = r, NEW e, StartedDisk(r, e)
    PROVE  /\ \A q \in e.queue : q \in StorageRoots \X Key /\ q[2] \in Users(r, q[1])
           /\ ~torn => SnapshotOK(e) /\ \A k \in DOMAIN e.accounts : Followed(e, k)
           /\ \A k \in DOMAIN e.accounts : CodeKnown(e, e.accounts[k].code)
  <1>1. r # None
        BY UserFacts
  <1>2. /\ disk.syncRoot = None => disk.queue = {}
        /\ disk.syncRoot # None => \A q \in disk.queue :
              q \in StorageRoots \X Key /\ q[2] \in Users(disk.syncRoot, q[1])
        /\ ~torn => IF r # disk.syncRoot THEN SnapshotEmpty
                    ELSE SnapshotOK(disk) /\ \A k \in DOMAIN disk.accounts : Followed(disk, k)
        BY <1>1 DEF SyncInv, SnapshotInv
  <1>3. \A q \in e.queue : q \in StorageRoots \X Key /\ q[2] \in Users(r, q[1])
        BY <1>1, <1>2 DEF StartedDisk
  <1>4. ASSUME ~torn PROVE SnapshotOK(e) /\ \A k \in DOMAIN e.accounts : Followed(e, k)
    <2>1. CASE disk.syncRoot = r
      <3>1. SnapshotOK(e)
            BY <2>1, <1>2, <1>4 DEF StartedDisk, SnapshotOK
      <3>2. \A k : Followed(e, k) <=> Followed(disk, k)
            BY <2>1 DEF StartedDisk, Followed
      <3> QED BY <3>1, <3>2, <2>1, <1>2, <1>4 DEF StartedDisk
    <2>2. CASE disk.syncRoot # r
      <3>1. e.accounts = Empty /\ \A a \in Key : e.slots[a] = Empty
            BY <2>2, <1>2, <1>4 DEF StartedDisk, SnapshotEmpty
      <3>2. e.syncRoot \in MainRoots
            BY DEF StartedDisk
      <3> QED BY <3>1, <3>2, EmptyOK
    <2> QED BY <2>1, <2>2
  <1>5. \A k \in DOMAIN e.accounts : CodeKnown(e, e.accounts[k].code)
        BY DEF SyncInv, CodesInv, CodeKnown, StartedDisk
  <1> QED BY <1>3, <1>4, <1>5

\* SyncStateTrie keeps the invariant: a sync starts or resumes.
LEMMA SyncStateTrieInv ==
    ASSUME SyncInv, SyncStateTrie
    PROVE  SyncInv'
  <1> DEFINE r == target
  <1>1. /\ phase = "state" /\ root = None /\ UNCHANGED <<phase, target, resumable, torn>>
        BY DEF SyncStateTrie, vmVars
  <1>2. PICK t :
        /\ disk' = addCodeToFetchFromDBToQueue(clearIfRootDoesNotMatch(disk, r))
        /\ t = NewTrieToSync(disk', r, {})
        /\ root' = r /\ tries' = [q \in {r} |-> t] /\ inProgress' = {r}
        /\ segments' = [segments EXCEPT !.queue = SegmentsOf(r, t)]
        /\ codes' = [codes EXCEPT !.outstanding = disk'.toFetch]
        /\ producer' = [producer EXCEPT !.pc = "feed", !.send = Ascending(disk'.toFetch)]
        /\ UNCHANGED <<done, worker>>
        BY DEF SyncStateTrie, StartSync
  <1>3. /\ r \in MainRoots /\ disk.summary = r /\ DiskShape(disk)
        BY <1>1 DEF SyncInv, ClientInv, ShapesOK
  <1>4. StartedDisk(r, disk')
        BY <1>2, <1>3, StartedFields
  <1>5. /\ \A q \in disk'.queue : q \in StorageRoots \X Key /\ q[2] \in Users(r, q[1])
        /\ ~torn => SnapshotOK(disk') /\ \A k \in DOMAIN disk'.accounts : Followed(disk', k)
        /\ \A k \in DOMAIN disk'.accounts : CodeKnown(disk', disk'.accounts[k].code)
        BY <1>3, <1>4, StartedSnapshot
  <1>6. NewTrieOK(t, {})
        BY <1>2, NewTrieFacts
  <1>7. DOMAIN tries' = {r} /\ tries'[r] = t /\ root' = r /\ r # None
        BY <1>2, <1>3, UserFacts
  <1>8. DiskShape(disk') /\ disk'.syncRoot = r /\ disk'.summary = r
        BY <1>3, <1>4 DEF StartedDisk
  <1>9. /\ done = {} /\ producer = IdleProducer /\ worker = [w \in Workers |-> IdleWorker]
        BY <1>1 DEF SyncInv, IdleInv
  <1>10. /\ DOMAIN segments' = {"queue", "closed"} /\ segments'.queue = SegmentsOf(r, t)
         /\ DOMAIN codes' = {"queue", "closed", "outstanding"}
         /\ codes'.outstanding = disk'.toFetch
    <2>1. DOMAIN segments = {"queue", "closed"} /\ DOMAIN codes = {"queue", "closed", "outstanding"}
          BY DEF SyncInv, ShapesOK
    <2> QED BY <2>1, <1>2
  <1>11. /\ DOMAIN producer' = {"pc", "root", "accounts", "more", "seek", "send"}
         /\ producer'.pc = "feed" /\ producer'.seek = 0
        BY <1>2, <1>9 DEF IdleProducer
  <1>12. \A w \in Workers :
            /\ DOMAIN worker'[w] = {"pc", "root", "idx", "start", "keys", "last", "todo", "left"}
            /\ worker'[w].pc = "idle"
        BY <1>2, <1>9 DEF IdleWorker
  <1>13. DOMAIN worker' = Workers /\ done' = {} /\ inProgress' = {r}
        BY <1>2, <1>9
  <1> HIDE DEF r
  <1>14. SegmentsOf(r, t) \in Seq(Items')
    <2>1. {r} \X DOMAIN t.segs \subseteq Items'
          BY <1>7 DEF Items
    <2>2. TrieShape(t)
          BY <1>6 DEF NewTrieOK
    <2> QED BY <2>1, <2>2, SegmentsOfSeq
  <1>15. BatchKeys' = {}
    <2>1. \A i \in DOMAIN tries'[root'].segs : DOMAIN tries'[root'].segs[i].batch = {}
          BY <1>6, <1>7 DEF NewTrieOK, Empty
    <2> QED BY <2>1 DEF BatchKeys
  <1>16. ShapesOK'
    <2>1. TrieShape(t)
          BY <1>6 DEF NewTrieOK
    <2> QED BY <2>1, <1>3, <1>7, <1>8, <1>10, <1>11, <1>12, <1>13 DEF ShapesOK
  <1>17. ClientInv'
        BY <1>1, <1>3, <1>7, <1>8 DEF ClientInv, r
  <1>18. IdleInv'
        BY <1>7 DEF IdleInv
  <1>19. CodesInv'
        BY <1>5, <1>10, <1>15 DEF CodesInv
  <1>20. SnapshotInv'
        BY <1>1, <1>5, <1>7, <1>8 DEF SnapshotInv
  <1>21. TriesInv'
    <2>1. \A i \in DOMAIN t.segs : PartOf(t.segs[i].batch, Leafs[r])
          BY <1>6, PartFacts DEF NewTrieOK
    <2> QED BY <2>1, <1>7, <1>10, <1>12, <1>13, <1>14 DEF TriesInv
  <1>22. ProducerInv'
        BY <1>7, <1>11 DEF ProducerInv
  <1>23. ProgressInv'
    <2>1. PartOf(t.hashed, IterateLeafs(disk', r, t.accounts))
          BY <1>6, PartFacts DEF NewTrieOK
    <2>2. \A w \in Workers : WorkerProgress(disk', root', worker'[w])
          BY <1>12 DEF WorkerProgress
    <2> QED BY <2>1, <2>2, <1>7, <1>11, <1>13, <1>15 DEF ProgressInv
  <1> QED BY <1>16, <1>17, <1>18, <1>19, <1>20, <1>21, <1>22, <1>23 DEF SyncInv

----------------------------------------------------------------------------

\* A new database and an idle client satisfy the invariant.
LEMMA InitInv ==
    ASSUME Init
    PROVE  SyncInv
  <1>1. ShapesOK
        BY DEF Init, ShapesOK, DiskShape, NewDisk, IdleProducer, IdleWorker
  <1>2. ClientInv
        BY DEF Init, ClientInv, NewDisk
  <1>3. CodesInv
        BY DEF Init, CodesInv, NewDisk, Empty
  <1>4. SnapshotInv
        BY DEF Init, SnapshotInv, NewDisk
  <1>5. IdleInv /\ TriesInv /\ ProducerInv /\ ProgressInv
        BY DEF Init, IdleInv, TriesInv, ProducerInv, ProgressInv
  <1> QED BY <1>1, <1>2, <1>3, <1>4, <1>5 DEF SyncInv

\* Every step of the client, the syncer and the environment keeps the invariant.
LEMMA NextInv ==
    ASSUME SyncInv, Next
    PROVE  SyncInv'
  BY AcceptSyncSummaryInv, WipeBatchInv, WipeDoneInv, SyncBlocksInv, SyncStateTrieInv,
     SyncStepInv, SyncStateTrieDoneInv, ResetToStateSyncedBlockInv, EndInv, ShutdownInv,
     CrashInv
  DEF Next

\* A stuttering step keeps the invariant.
LEMMA StutterInv ==
    ASSUME SyncInv, UNCHANGED vars
    PROVE  SyncInv'
  <1>1. /\ UNCHANGED <<disk, root, tries, inProgress, segments, done, worker, producer, codes>>
        /\ UNCHANGED <<phase, target, resumable, torn>>
        BY DEF vars, syncVars, vmVars
  <1>2. ShapesOK' /\ ClientInv'
        BY <1>1 DEF SyncInv, ShapesOK, ClientInv
  <1>3. IdleInv' /\ CodesInv'
        BY <1>1 DEF SyncInv, IdleInv, CodesInv, BatchKeys
  <1>4. SnapshotInv'
        BY <1>1 DEF SyncInv, SnapshotInv, SnapshotEmpty
  <1>5. TriesInv'
        BY <1>1 DEF SyncInv, TriesInv, Items
  <1>6. ProducerInv'
        BY <1>1 DEF SyncInv, ProducerInv, Items, Below
  <1>7. ProgressInv'
        BY <1>1 DEF SyncInv, ProgressInv, BatchKeys
  <1> QED BY <1>2, <1>3, <1>4, <1>5, <1>6, <1>7 DEF SyncInv

\* Along every behaviour of the client and the syncer, with crashes and
\* shutdowns at any point, the inductive invariant holds.
THEOREM SyncInvariant == Spec => []SyncInv
  <1>1. SyncInv /\ [Next]_vars => SyncInv'
        BY NextInv, StutterInv
  <1> QED BY <1>1, InitInv, PTL DEF Spec

\* The invariant says what is promised of an account on disk.
LEMMA InvFollows ==
    ASSUME SyncInv
    PROVE  PersistedAccountIsFollowed
  <1> SUFFICES ASSUME disk.summary # None, disk.summary = disk.syncRoot, ~torn,
                      NEW k \in DOMAIN disk.accounts
               PROVE  /\ disk.accounts[k].code \in disk.code \cup disk.toFetch \cup {None}
                      /\ \/ disk.accounts[k].root = None
                         \/ <<disk.accounts[k].root, k>> \in disk.queue
                         \/ /\ disk.accounts[k].root \in disk.tries
                            /\ disk.slots[k] = Leafs[disk.accounts[k].root]
        BY DEF PersistedAccountIsFollowed
  <1>1. CodeKnown(disk, disk.accounts[k].code)
        BY DEF SyncInv, CodesInv
  <1>2. SnapshotOK(disk) /\ Followed(disk, k)
        BY DEF SyncInv, SnapshotInv
  <1>3. disk.accounts[k] = Leafs[disk.syncRoot][k]
        BY <1>2 DEF SnapshotOK, PartOf
  <1> QED BY <1>1, <1>2, <1>3 DEF Followed, CodeKnown

\* No account that reached the disk is forgotten by a crash, whatever the tries,
\* the workers and the number of crashes: its storage is queued or in the
\* snapshot, its code queued or there (mainTrieTask.OnLeafs, onStorageTrieFinished,
\* codeSyncer.addCode, acceptSyncSummary).
THEOREM AccountsFollowed == Spec => []PersistedAccountIsFollowed
  BY SyncInvariant, InvFollows, PTL
=============================================================================
