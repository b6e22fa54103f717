----------------------------- MODULE SyncLemmas -----------------------------
(***************************************************************************)
(* What the steps of a state sync have in common: parts of tries, what a   *)
(* step may do to the disk, the tries, the workers and the producer, and   *)
(* that such a step keeps the invariant.                                   *)
(***************************************************************************)
EXTENDS SyncProps, FiniteSetTheorems, TLAPS

\* A leaf that names no prover is tried with each of these.
USE ZenonT(3), SMTT(20), ZenonT(20)

----------------------------------------------------------------------------
(* Sets of keys and parts of tries *)

\* A set of naturals has a least element.
LEMMA LeastNat ==
    ASSUME NEW S, S \subseteq Nat, S # {}
    PROVE  Min(S) \in S /\ \A y \in S : Min(S) <= y
  <1>1. IsWellFoundedOn(OpToRel(<, Nat), Nat)
        BY NatLessThanWellFounded
  <1>2. \E x \in S : \A y \in S : ~(<<y, x>> \in OpToRel(<, Nat))
        BY <1>1, WFMin
  <1>3. ASSUME NEW x \in S, NEW y \in S, ~(<<y, x>> \in OpToRel(<, Nat)) PROVE x <= y
    <2>1. x \in Nat /\ y \in Nat
          OBVIOUS
    <2>2. ~(y < x)
          BY <1>3, <2>1 DEF OpToRel
    <2> QED BY <2>1, <2>2
  <1>4. \E x \in S : \A y \in S : x <= y
        BY <1>2, <1>3
  <1> QED BY <1>4 DEF Min

\* There are finitely many keys.
LEMMA FewMarks ==
    ASSUME NEW S, S \subseteq Key
    PROVE  Cardinality(S) \in Nat
  <1>1. IsFiniteSet(Key)
        BY FS_Interval, LeafsAssumption DEF Key
  <1>2. IsFiniteSet(S)
        BY <1>1, FS_Subset
  <1> QED BY <1>2, FS_CardinalityType

\* Parts of one function.
LEMMA PartFacts ==
    ASSUME NEW f, NEW g, NEW h
    PROVE  /\ PartOf(f, g) /\ PartOf(g, h) => PartOf(f, h)
           /\ PartOf(f, g) /\ PartOf(g, f) => f = g
           /\ PartOf(f, h) /\ PartOf(g, h) /\ DOMAIN f = DOMAIN g => f = g
           /\ PartOf(f, h) /\ PartOf(g, h) /\ DOMAIN f \subseteq DOMAIN g => PartOf(f, g)
           /\ PartOf(Empty, f)
  BY DEF PartOf, Empty

\* Two parts of a trie with the same keys are equal.
LEMMA SamePart ==
    ASSUME NEW f, NEW g, NEW h, PartOf(f, h), PartOf(g, h), DOMAIN f = DOMAIN g
    PROVE  f = g
  BY DEF PartOf

\* Two parts of a function give one.
LEMMA OverPart ==
    ASSUME NEW f, NEW g, NEW h, PartOf(f, h), PartOf(g, h)
    PROVE  /\ PartOf(Over(f, g), h)
           /\ PartOf(g, Over(f, g))
           /\ DOMAIN Over(f, g) = DOMAIN f \cup DOMAIN g
  BY DEF PartOf, Over

\* So do the batches of a trie.
LEMMA MergePart ==
    ASSUME NEW B, NEW h, \A b \in B : PartOf(b, h)
    PROVE  /\ PartOf(Merge(B), h)
           /\ DOMAIN Merge(B) = UNION {DOMAIN b : b \in B}
  <1>1. ASSUME NEW k \in UNION {DOMAIN b : b \in B}
        PROVE  k \in DOMAIN h /\ (CHOOSE b \in B : k \in DOMAIN b)[k] = h[k]
    <2>1. \E b \in B : k \in DOMAIN b
          BY <1>1
    <2>2. /\ (CHOOSE b \in B : k \in DOMAIN b) \in B
          /\ k \in DOMAIN (CHOOSE b \in B : k \in DOMAIN b)
          BY <2>1
    <2> QED BY <2>2 DEF PartOf
  <1> QED BY <1>1 DEF Merge, PartOf

\* A restriction of a function is a part of it.
LEMMA WithinPart ==
    ASSUME NEW f, NEW S
    PROVE  PartOf(Within(f, S), f) /\ DOMAIN Within(f, S) = DOMAIN f \cap S
  BY DEF PartOf, Within

\* Tries are functions on keys.
LEMMA TrieFacts ==
    ASSUME NEW r \in Roots
    PROVE  /\ PartOf(Leafs[r], Leafs[r])
           /\ DOMAIN Leafs[r] \subseteq Key
           /\ r # None
  BY LeafsAssumption, RootsAssumption DEF PartOf

\* An account has one storage trie, and its root is not that of a state.
LEMMA UserFacts ==
    ASSUME NEW main \in MainRoots
    PROVE  /\ \A r : Users(main, r) \subseteq Key
           /\ \A q, r : q # r => Users(main, q) \cap Users(main, r) = {}
           /\ \A k \in DOMAIN Leafs[main] : /\ Leafs[main][k].root \in StorageRoots \cup {None}
                                            /\ k \in Users(main, Leafs[main][k].root)
           /\ main \notin StorageRoots /\ main # None
  BY LeafsAssumption, RootsAssumption DEF Users, Roots

\* A sequence over a set is one over every larger set.
LEMMA SeqMono ==
    ASSUME NEW S, NEW T, S \subseteq T, NEW q \in Seq(S)
    PROVE  q \in Seq(T)
  OBVIOUS

\* A sequence is a function on 1 .. Len.
LEMMA SeqFunction ==
    ASSUME NEW S, NEW q \in Seq(S)
    PROVE  Len(q) \in Nat /\ DOMAIN q = 1 .. Len(q) /\ q = [j \in 1 .. Len(q) |-> q[j]]
  OBVIOUS

\* A sequence that is not empty has a first member and a rest.
LEMMA TailFacts ==
    ASSUME NEW S, NEW q \in Seq(S), q # <<>>
    PROVE  Head(q) \in S /\ Tail(q) \in Seq(S)
  OBVIOUS

\* A function on 1 .. n is a sequence of length n.
LEMMA SequenceDef ==
    ASSUME NEW n \in Nat, NEW s, DOMAIN s = 1 .. n, s = [i \in 1 .. n |-> s[i]]
    PROVE  Sequence(s) /\ Len(s) = n
  <1> DEFINE S == {s[i] : i \in DOMAIN s}
  <1>1. s \in [1 .. n -> S]
        OBVIOUS
  <1>2. s \in Seq(S)
        BY <1>1
  <1> QED BY <1>2 DEF Sequence

\* Replacing an element keeps a sequence and the other elements.
LEMMA SequenceUpdate ==
    ASSUME NEW s, Sequence(s), NEW i \in DOMAIN s, NEW x, NEW q, q = [s EXCEPT ![i] = x]
    PROVE  Sequence(q) /\ Len(q) = Len(s) /\ DOMAIN q = DOMAIN s
           /\ \A j \in DOMAIN s : q[j] = IF j = i THEN x ELSE s[j]
  <1>1. Len(s) \in Nat /\ DOMAIN s = 1 .. Len(s)
        BY DEF Sequence
  <1>2. DOMAIN q = 1 .. Len(s) /\ q = [j \in 1 .. Len(s) |-> q[j]]
        BY <1>1
  <1> QED BY <1>1, <1>2, SequenceDef

Appended(q, s, x) ==
    /\ Sequence(q) /\ Len(q) = Len(s) + 1 /\ DOMAIN q = DOMAIN s \cup {Len(s) + 1}
    /\ \A j \in DOMAIN q : q[j] = IF j \in DOMAIN s THEN s[j] ELSE x

\* Appending an element keeps a sequence and its elements.
LEMMA SequenceAppend ==
    ASSUME NEW s, Sequence(s), NEW x, NEW q, q = Append(s, x)
    PROVE  Appended(q, s, x)
  <1>1. Len(s) \in Nat /\ DOMAIN s = 1 .. Len(s)
        BY DEF Sequence
  <1> DEFINE S == {s[i] : i \in DOMAIN s} \cup {x}
  <1>2. s \in Seq(S) /\ x \in S
        BY SeqMono DEF Sequence
  <1> HIDE DEF S
  <1>3. /\ q \in Seq(S) /\ Len(q) = Len(s) + 1
        /\ \A j \in 1 .. Len(s) : q[j] = s[j]
        /\ q[Len(s) + 1] = x
        BY <1>2
  <1>4. Len(q) \in Nat /\ DOMAIN q = 1 .. Len(q) /\ q = [j \in 1 .. Len(q) |-> q[j]]
        BY <1>3, SeqFunction
  <1>5. Sequence(q)
        BY <1>4, SequenceDef
  <1> QED BY <1>1, <1>3, <1>4, <1>5 DEF Appended

----------------------------------------------------------------------------
(* What a step of a sync may do to the disk *)

Later(d, e) ==
    /\ DiskShape(e)
    /\ e.summary = d.summary /\ e.syncRoot = d.syncRoot
    /\ d.tries \subseteq e.tries
    /\ d.code \cup d.toFetch \subseteq e.code \cup e.toFetch

Grown(d, e) ==
    /\ PartOf(d.accounts, e.accounts)
    /\ \A k \in Key : PartOf(d.slots[k], e.slots[k])
    /\ SnapshotOK(e)
    /\ \A q \in d.queue : q \in e.queue \/ Stored(d, q[1])

\* Slots that are whole stay so.
LEMMA WholeLater ==
    ASSUME NEW d, NEW e, Later(d, e), Grown(d, e), d.syncRoot \in MainRoots,
           NEW r \in StorageRoots, NEW k \in Users(d.syncRoot, r), d.slots[k] = Leafs[r]
    PROVE  e.slots[k] = Leafs[r]
  <1>1. k \in Key
        BY UserFacts
  <1>2. PartOf(Leafs[r], e.slots[k])
        BY <1>1 DEF Grown
  <1>3. PartOf(e.slots[k], Leafs[r])
        BY DEF Grown, SnapshotOK, Later
  <1> QED BY <1>2, <1>3, PartFacts

\* An account that is followed stays so when the disk only gains.
LEMMA FollowedLater ==
    ASSUME NEW d, NEW e, Later(d, e), Grown(d, e), d.syncRoot \in MainRoots,
           NEW k \in DOMAIN Leafs[d.syncRoot], Followed(d, k)
    PROVE  Followed(e, k)
  <1> DEFINE r == Leafs[d.syncRoot][k].root
  <1>1. r \in StorageRoots \cup {None} /\ k \in Users(d.syncRoot, r)
        BY UserFacts
  <1>2. e.syncRoot = d.syncRoot /\ d.tries \subseteq e.tries
        BY DEF Later
  <1>3. r = None \/ <<r, k>> \in d.queue \/ (r \in d.tries /\ d.slots[k] = Leafs[r])
        BY DEF Followed
  <1>4. r \in StorageRoots /\ d.slots[k] = Leafs[r] => e.slots[k] = Leafs[r]
        BY <1>1, WholeLater
  <1>6. <<r, k>> \in d.queue => <<r, k>> \in e.queue \/ Stored(d, r)
        BY DEF Grown
  <1>7. Stored(d, r) => r \in d.tries /\ d.slots[k] = Leafs[r]
        BY <1>1 DEF Stored
  <1> HIDE DEF r
  <1>5. r = None \/ <<r, k>> \in e.queue \/ (r \in e.tries /\ e.slots[k] = Leafs[r])
        BY <1>1, <1>2, <1>3, <1>4, <1>6, <1>7
  <1> USE DEF r
  <1> QED BY <1>2, <1>5 DEF Followed

\* A storage trie that is on disk stays there, and an account that has its
\* storage keeps it, when the disk only gains.
LEMMA StoredLater ==
    ASSUME NEW d, NEW e, Later(d, e), Grown(d, e), d.syncRoot \in MainRoots,
           NEW r \in StorageRoots
    PROVE  /\ Stored(d, r) => Stored(e, r)
           /\ \A A : Covers(d, r, A) => Covers(e, r, A)
  <1>1. \A k \in Users(d.syncRoot, r) : d.slots[k] = Leafs[r] => e.slots[k] = Leafs[r]
        BY WholeLater
  <1>2. e.syncRoot = d.syncRoot /\ d.tries \subseteq e.tries
        BY DEF Later
  <1> QED BY <1>1, <1>2 DEF Stored, Covers

\* Once the snapshot has all accounts it keeps them.
LEMMA AccountsLater ==
    ASSUME NEW d, NEW e, Later(d, e), Grown(d, e), d.accounts = Leafs[d.syncRoot]
    PROVE  e.accounts = Leafs[d.syncRoot]
  <1>1. PartOf(d.accounts, e.accounts) /\ PartOf(e.accounts, Leafs[d.syncRoot])
        BY DEF Grown, SnapshotOK, Later
  <1> QED BY <1>1, PartFacts

\* Leafs that were read stay readable.
LEMMA ReadLater ==
    ASSUME NEW d, NEW e, Grown(d, e), NEW r, NEW A, NEW h,
           r \in MainRoots \/ (A \subseteq Key /\ A # {}),
           PartOf(h, IterateLeafs(d, r, A))
    PROVE  PartOf(h, IterateLeafs(e, r, A))
  <1>1. PartOf(IterateLeafs(d, r, A), IterateLeafs(e, r, A))
    <2>1. CASE r \in MainRoots
          BY <2>1 DEF Grown, IterateLeafs
    <2>2. CASE r \notin MainRoots
      <3>1. A \subseteq Nat
            BY <2>2 DEF Key
      <3>2. Min(A) \in Key
            BY <3>1, <2>2, LeastNat
      <3> QED BY <3>2, <2>2 DEF Grown, IterateLeafs
    <2> QED BY <2>1, <2>2
  <1> QED BY <1>1, PartFacts

----------------------------------------------------------------------------
(* Steps inside a sync *)

SessionStep == root # None /\ UNCHANGED <<root, phase, target, resumable, torn>>

\* New markers are for users of their trie; new accounts are followed.
DiskStep(e) ==
    /\ Later(disk, e)
    /\ ~torn => Grown(disk, e)
    /\ \A q \in e.queue : q \in disk.queue
          \/ (q \in StorageRoots \X Key /\ q[2] \in Users(root, q[1]))
    /\ ~torn => \A k \in DOMAIN e.accounts : k \in DOMAIN disk.accounts \/ Followed(e, k)
    /\ \A k \in DOMAIN e.accounts : CodeKnown(e, e.accounts[k].code)

\* During a sync the keys on disk and the client name the state being synced.
LEMMA SessionFacts ==
    ASSUME SyncInv, root # None
    PROVE  /\ root \in MainRoots /\ root \notin StorageRoots
           /\ disk.syncRoot = root /\ disk.summary = root /\ target = root
           /\ phase = "state"
           /\ ~torn => SnapshotOK(disk) /\ \A k \in DOMAIN disk.accounts : Followed(disk, k)
  <1>1. root \in MainRoots
        BY DEF SyncInv, ShapesOK
  <1>2. disk.syncRoot = root /\ disk.summary = root /\ target = root /\ phase = "state"
        BY DEF SyncInv, ClientInv
  <1>3. root \notin StorageRoots
        BY <1>1, UserFacts
  <1> QED BY <1>1, <1>2, <1>3 DEF SyncInv, SnapshotInv

\* The parts of a good snapshot are functions.
LEMMA SelfPart ==
    ASSUME NEW d, SnapshotOK(d)
    PROVE  PartOf(d.accounts, d.accounts) /\ \A k \in Key : PartOf(d.slots[k], d.slots[k])
  <1>1. PartOf(d.accounts, d.accounts)
        BY DEF SnapshotOK, PartOf
  <1>2. ASSUME NEW k \in Key PROVE PartOf(d.slots[k], d.slots[k])
    <2>1. d.slots[k] = Empty \/ \E r \in StorageRoots : PartOf(d.slots[k], Leafs[r])
          BY DEF SnapshotOK
    <2> QED BY <2>1 DEF PartOf, Empty
  <1> QED BY <1>1, <1>2

\* A disk that is not written.
LEMMA SameDisk ==
    ASSUME SyncInv, root # None
    PROVE  DiskStep(disk)
  <1>1. Later(disk, disk)
        BY DEF Later, SyncInv, ShapesOK
  <1>2. ~torn => Grown(disk, disk)
    <2>1. SUFFICES ASSUME ~torn PROVE Grown(disk, disk)
          OBVIOUS
    <2>2. SnapshotOK(disk) /\ disk.syncRoot \in MainRoots
          BY <2>1, SessionFacts
    <2> QED BY <2>2, SelfPart DEF Grown
  <1>3. \A k \in DOMAIN disk.accounts : CodeKnown(disk, disk.accounts[k].code)
        BY DEF SyncInv, CodesInv
  <1> QED BY <1>1, <1>2, <1>3 DEF DiskStep

\* The disk's part of the invariant.
LEMMA DiskStepInv ==
    ASSUME SyncInv, SessionStep, DiskStep(disk')
    PROVE  DiskShape(disk') /\ ClientInv' /\ SnapshotInv'
  <1>1. /\ root \in MainRoots /\ disk.syncRoot = root /\ disk.summary = root
        /\ ~torn => SnapshotOK(disk) /\ \A k \in DOMAIN disk.accounts : Followed(disk, k)
        BY SessionFacts DEF SessionStep
  <1>2. Later(disk, disk') /\ DiskShape(disk')
        BY DEF DiskStep, Later
  <1>3. disk'.syncRoot = root /\ disk'.summary = root /\ root # None
        BY <1>1, <1>2 DEF Later, SessionStep
  <1>4. ClientInv'
        BY <1>1, <1>3 DEF SyncInv, ClientInv, SessionStep
  <1>5. \A q \in disk'.queue : q \in StorageRoots \X Key /\ q[2] \in Users(root, q[1])
        BY <1>1, <1>3 DEF SyncInv, SnapshotInv, DiskStep
  <1>6. ASSUME ~torn, NEW k \in DOMAIN disk'.accounts PROVE Followed(disk', k)
    <2>1. k \in DOMAIN Leafs[root] /\ Grown(disk, disk')
          BY <1>6, <1>3 DEF DiskStep, Grown, SnapshotOK, PartOf
    <2>2. k \in DOMAIN disk.accounts => Followed(disk', k)
          BY <2>1, <1>1, <1>2, <1>6, FollowedLater
    <2> QED BY <2>2, <1>6 DEF DiskStep
  <1>7. ~torn => SnapshotOK(disk')
        BY DEF DiskStep, Grown
  <1> QED BY <1>2, <1>3, <1>4, <1>5, <1>6, <1>7 DEF SnapshotInv, SessionStep

----------------------------------------------------------------------------
(* What a step of a sync may do to the rest *)

TaskOK(items, x) ==
    /\ x.pc \notin {"idle", "done"} => <<x.root, x.idx>> \in items
    /\ x.pc = "send" => x.todo \in Seq(items)

WorkerShape(x) ==
    DOMAIN x = {"pc", "root", "idx", "start", "keys", "last", "todo", "left"}

WorkersStep ==
    /\ DOMAIN worker' = Workers
    /\ \A w \in Workers : worker'[w] = worker[w] \/
          /\ WorkerShape(worker'[w])
          /\ TaskOK(Items', worker'[w])
          /\ ~torn => WorkerProgress(disk', root, worker'[w])

TrieStep(r) ==
    /\ TrieShape(tries'[r])
    /\ r \in DOMAIN tries => DOMAIN tries[r].segs \subseteq DOMAIN tries'[r].segs
    /\ \A i \in DOMAIN tries'[r].segs : PartOf(tries'[r].segs[i].batch, Leafs[r])
    /\ r # root => tries'[r].accounts # {} /\ tries'[r].accounts \subseteq Users(root, r)
    /\ ~torn => /\ PartOf(tries'[r].hashed, IterateLeafs(disk', r, tries'[r].accounts))
                /\ r # root => Covers(disk', r, tries'[r].accounts)

TriesStep ==
    /\ DOMAIN tries \subseteq DOMAIN tries'
    /\ DOMAIN tries' \subseteq {root} \cup StorageRoots
    /\ \A r \in DOMAIN tries' : (r \in DOMAIN tries /\ tries'[r] = tries[r]) \/ TrieStep(r)
    /\ \A k \in BatchKeys' : k \in BatchKeys \/
          (CodeKnown(disk', Leafs[root][k].code) /\ (~torn => Followed(disk', k)))

ProducerStepOK ==
    /\ DOMAIN producer' = {"pc", "root", "accounts", "more", "seek", "send"}
    /\ ProducerInv'
    /\ (~torn /\ producer'.pc = "sem") => Covers(disk', producer'.root, producer'.accounts)

RestStep ==
    /\ DOMAIN codes' = {"queue", "closed", "outstanding"}
    /\ codes'.outstanding \subseteq disk'.code \cup disk'.toFetch
    /\ DOMAIN segments' = {"queue", "closed"}
    /\ segments'.queue \in Seq(Items')
    /\ inProgress' \subseteq DOMAIN tries'
    /\ (~torn /\ "main" \in done') => "main" \in done \/ disk.accounts = Leafs[root]

\* Segments are never taken from a trie.
LEMMA ItemsGrow ==
    ASSUME TriesStep
    PROVE  Items \subseteq Items'
  <1>1. \A r \in DOMAIN tries : r \in DOMAIN tries' /\ DOMAIN tries[r].segs \subseteq DOMAIN tries'[r].segs
        BY DEF TriesStep, TrieStep
  <1> QED BY <1>1 DEF Items

\* A step of a running sync whose parts are allowed (the disk gains, the tries,
\* workers and producer keep their places) keeps the invariant.
LEMMA SessionInv ==
    ASSUME SyncInv, SessionStep, DiskStep(disk'), TriesStep, WorkersStep, ProducerStepOK, RestStep
    PROVE  SyncInv'
  <1>1. /\ root \in MainRoots /\ root \notin StorageRoots /\ disk.syncRoot = root
        /\ root' = root /\ torn' = torn /\ root # None
        BY SessionFacts DEF SessionStep
  <1>2. DiskShape(disk') /\ ClientInv' /\ SnapshotInv'
        BY DiskStepInv
  <1>3. Items \subseteq Items'
        BY ItemsGrow
  <1>4. Later(disk, disk') /\ (~torn => Grown(disk, disk')) /\ disk'.syncRoot = root
        BY <1>1 DEF DiskStep, Later
  <1>5. ShapesOK'
    <2>1. \A w \in Workers : WorkerShape(worker'[w])
          BY DEF WorkersStep, SyncInv, ShapesOK, WorkerShape
    <2>2. \A r \in DOMAIN tries' : TrieShape(tries'[r])
          BY DEF TriesStep, TrieStep, SyncInv, ShapesOK
    <2>3. /\ DOMAIN worker' = Workers /\ DOMAIN segments' = {"queue", "closed"}
          /\ DOMAIN codes' = {"queue", "closed", "outstanding"}
          /\ DOMAIN producer' = {"pc", "root", "accounts", "more", "seek", "send"}
          BY DEF WorkersStep, RestStep, ProducerStepOK
    <2> QED BY <2>1, <2>2, <2>3, <1>1, <1>2 DEF ShapesOK, WorkerShape
  <1>6. BatchKeys \subseteq DOMAIN Leafs[root]
    <2>1. \A i \in DOMAIN tries[root].segs :
              DOMAIN tries[root].segs[i].batch \subseteq DOMAIN Leafs[root]
          BY <1>1 DEF SyncInv, TriesInv, PartOf
    <2> QED BY <2>1 DEF BatchKeys
  <1>7. CodesInv'
    <2>1. \A k \in BatchKeys : CodeKnown(disk', Leafs[root][k].code)
          BY <1>1, <1>4 DEF SyncInv, CodesInv, CodeKnown, Later
    <2>2. \A k \in BatchKeys' : CodeKnown(disk', Leafs[root][k].code)
          BY <2>1 DEF TriesStep
    <2>3. codes'.outstanding \subseteq disk'.code \cup disk'.toFetch
          BY DEF RestStep
    <2>4. \A k \in DOMAIN disk'.accounts : CodeKnown(disk', disk'.accounts[k].code)
          BY DEF DiskStep
    <2> QED BY <2>2, <2>3, <2>4, <1>1 DEF CodesInv
  <1>8. TriesInv'
    <2>1. root \in DOMAIN tries' /\ DOMAIN tries' \subseteq {root} \cup StorageRoots
          /\ inProgress' \subseteq DOMAIN tries' /\ segments'.queue \in Seq(Items')
          BY <1>1 DEF SyncInv, TriesInv, TriesStep, RestStep
    <2>2. \A r \in DOMAIN tries' : \A i \in DOMAIN tries'[r].segs :
              PartOf(tries'[r].segs[i].batch, Leafs[r])
          BY <1>1 DEF SyncInv, TriesInv, TriesStep, TrieStep
    <2>3. \A r \in DOMAIN tries' \ {root} :
              tries'[r].accounts # {} /\ tries'[r].accounts \subseteq Users(root, r)
          BY <1>1 DEF SyncInv, TriesInv, TriesStep, TrieStep
    <2>4. ASSUME NEW w \in Workers PROVE TaskOK(Items', worker'[w])
      <3>1. TaskOK(Items, worker[w])
            BY <1>1 DEF SyncInv, TriesInv, TaskOK
      <3>2. TaskOK(Items', worker[w])
            BY <3>1, <1>3, SeqMono DEF TaskOK
      <3> QED BY <3>2 DEF WorkersStep
    <2> QED BY <2>1, <2>2, <2>3, <2>4, <1>1 DEF TriesInv, TaskOK
  <1>9. ASSUME ~torn PROVE
          /\ \A k \in BatchKeys' : Followed(disk', k)
          /\ \A r \in DOMAIN tries' \ {root} : Covers(disk', r, tries'[r].accounts)
          /\ \A r \in DOMAIN tries' :
                PartOf(tries'[r].hashed, IterateLeafs(disk', r, tries'[r].accounts))
          /\ "main" \in done' => disk'.accounts = Leafs[root]
          /\ \A w \in Workers : WorkerProgress(disk', root, worker'[w])
    <2>1. Grown(disk, disk')
          BY <1>4, <1>9
    <2>2. \A k \in BatchKeys : Followed(disk', k)
      <3>1. \A k \in BatchKeys : Followed(disk, k) /\ k \in DOMAIN Leafs[root]
            BY <1>1, <1>6, <1>9 DEF SyncInv, ProgressInv
      <3> QED BY <3>1, <2>1, <1>1, <1>4, FollowedLater
    <2>3. \A k \in BatchKeys' : Followed(disk', k)
          BY <2>2, <1>9 DEF TriesStep
    <2>4. ASSUME NEW r \in DOMAIN tries', r # root PROVE Covers(disk', r, tries'[r].accounts)
      <3>1. r \in DOMAIN tries => Covers(disk, r, tries[r].accounts)
            BY <1>1, <1>9, <2>4 DEF SyncInv, ProgressInv
      <3>2. r \in StorageRoots
            BY <2>4 DEF TriesStep
      <3>3. r \in DOMAIN tries => Covers(disk', r, tries[r].accounts)
            BY <3>1, <3>2, <2>1, <1>1, <1>4, StoredLater
      <3> QED BY <3>3, <2>4, <1>9 DEF TriesStep, TrieStep
    <2>5. ASSUME NEW r \in DOMAIN tries'
          PROVE  PartOf(tries'[r].hashed, IterateLeafs(disk', r, tries'[r].accounts))
      <3>1. ASSUME r \in DOMAIN tries
            PROVE  PartOf(tries[r].hashed, IterateLeafs(disk', r, tries[r].accounts))
        <4>1. PartOf(tries[r].hashed, IterateLeafs(disk, r, tries[r].accounts))
              BY <3>1, <1>1, <1>9 DEF SyncInv, ProgressInv
        <4>2. r \in MainRoots \/ (tries[r].accounts \subseteq Key /\ tries[r].accounts # {})
              BY <3>1, <1>1, UserFacts DEF SyncInv, TriesInv
        <4> QED BY <4>1, <4>2, <2>1, ReadLater
      <3> QED BY <3>1, <2>5, <1>9 DEF TriesStep, TrieStep
    <2>6. disk.accounts = Leafs[root] => disk'.accounts = Leafs[root]
          BY <1>1, <1>4, <2>1, AccountsLater
    <2>7. "main" \in done' => disk'.accounts = Leafs[root]
          BY <2>6, <1>1, <1>9 DEF RestStep, SyncInv, ProgressInv
    <2>8. ASSUME NEW w \in Workers PROVE WorkerProgress(disk', root, worker'[w])
      <3>1. WorkerProgress(disk, root, worker[w]) /\ TaskOK(Items, worker[w])
            BY <1>1, <1>9 DEF SyncInv, ProgressInv, TriesInv, TaskOK
      <3>2. ASSUME worker[w].pc \in {"clear", "release"}, worker[w].root # root
            PROVE  Stored(disk', worker[w].root)
        <4>1. worker[w].root \in StorageRoots
              BY <3>1, <3>2, <1>1 DEF TaskOK, Items, SyncInv, TriesInv
        <4>2. Stored(disk, worker[w].root)
              BY <3>1, <3>2 DEF WorkerProgress
        <4> QED BY <4>1, <4>2, <2>1, <1>1, <1>4, StoredLater
      <3>3. WorkerProgress(disk', root, worker[w])
            BY <3>1, <3>2, <2>6 DEF WorkerProgress
      <3> QED BY <3>3, <1>9 DEF WorkersStep
    <2> QED BY <2>3, <2>4, <2>5, <2>7, <2>8
  <1>10. ProgressInv'
    <2>1. (~torn /\ producer'.pc = "sem") => Covers(disk', producer'.root, producer'.accounts)
          BY DEF ProducerStepOK
    <2> QED BY <2>1, <1>1, <1>9 DEF ProgressInv
  <1>11. IdleInv'
        BY <1>1 DEF IdleInv
  <1> QED BY <1>2, <1>5, <1>7, <1>8, <1>10, <1>11 DEF SyncInv, ProducerStepOK

----------------------------------------------------------------------------
(* Writes of batches *)

\* Slots gain leafs of their tries, the same for all accounts of a trie but
\* those that have it.
LEMMA SlotsGrow ==
    ASSUME SyncInv, root # None, ~torn, NEW b, NEW e,
           \A k \in Key : e.slots[k] = Over(b[k], disk.slots[k]),
           \A k \in Key : (\A r \in StorageRoots : k \notin Users(root, r)) => b[k] = Empty,
           \A r \in StorageRoots : \A k \in Users(root, r) : PartOf(b[k], Leafs[r]),
           \A r \in StorageRoots : \A j, k \in Users(root, r) :
              b[j] = b[k] \/ disk.slots[j] = Leafs[r]
    PROVE  /\ \A k \in Key : PartOf(disk.slots[k], e.slots[k])
           /\ \A k \in Key : (\A r \in StorageRoots : k \notin Users(root, r)) =>
                 e.slots[k] = Empty
           /\ \A r \in StorageRoots : \A j, k \in Users(root, r) :
                 PartOf(e.slots[k], Leafs[r]) /\ e.slots[j] = e.slots[k]
  <1>1. /\ SnapshotOK(disk) /\ root \in MainRoots /\ disk.syncRoot = root
        BY SessionFacts
  <1>2. ASSUME NEW k \in Key, \A r \in StorageRoots : k \notin Users(root, r)
        PROVE  e.slots[k] = Empty /\ disk.slots[k] = Empty
    <2>1. b[k] = Empty /\ disk.slots[k] = Empty
          BY <1>1, <1>2 DEF SnapshotOK
    <2> QED BY <2>1 DEF Over, Empty
  <1>3. ASSUME NEW r \in StorageRoots, NEW k \in Users(root, r)
        PROVE  /\ k \in Key
               /\ PartOf(disk.slots[k], e.slots[k]) /\ PartOf(e.slots[k], Leafs[r])
               /\ DOMAIN e.slots[k] = DOMAIN b[k] \cup DOMAIN disk.slots[k]
    <2>1. k \in Key /\ PartOf(b[k], Leafs[r]) /\ PartOf(disk.slots[k], Leafs[r])
          BY <1>1, UserFacts DEF SnapshotOK
    <2>2. e.slots[k] = Over(b[k], disk.slots[k])
          BY <2>1
    <2>3. /\ PartOf(Over(b[k], disk.slots[k]), Leafs[r])
          /\ PartOf(disk.slots[k], Over(b[k], disk.slots[k]))
          /\ DOMAIN Over(b[k], disk.slots[k]) = DOMAIN b[k] \cup DOMAIN disk.slots[k]
          BY <2>1, OverPart
    <2> QED BY <2>1, <2>2, <2>3
  <1>4. ASSUME NEW r \in StorageRoots, NEW j \in Users(root, r), NEW k \in Users(root, r)
        PROVE  e.slots[j] = e.slots[k]
    <2>1. /\ DOMAIN e.slots[j] = DOMAIN b[j] \cup DOMAIN disk.slots[j]
          /\ DOMAIN e.slots[k] = DOMAIN b[k] \cup DOMAIN disk.slots[k]
          /\ PartOf(e.slots[j], Leafs[r]) /\ PartOf(e.slots[k], Leafs[r])
          BY <1>3
    <2>2. disk.slots[j] = disk.slots[k]
          BY <1>1 DEF SnapshotOK
    <2>3. CASE b[j] = b[k]
          BY <2>1, <2>2, <2>3, PartFacts
    <2>4. CASE disk.slots[j] = Leafs[r]
      <3>1. DOMAIN b[j] \subseteq DOMAIN Leafs[r] /\ DOMAIN b[k] \subseteq DOMAIN Leafs[r]
            BY DEF PartOf
      <3>2. DOMAIN e.slots[j] = DOMAIN e.slots[k]
            BY <3>1, <2>1, <2>2, <2>4
      <3> QED BY <3>2, <2>1, SamePart
    <2> QED BY <2>3, <2>4
  <1>5. ASSUME NEW k \in Key PROVE PartOf(disk.slots[k], e.slots[k])
    <2>1. CASE \A r \in StorageRoots : k \notin Users(root, r)
          BY <1>2, <2>1, PartFacts
    <2>2. CASE \E r \in StorageRoots : k \in Users(root, r)
          BY <1>3, <2>2
    <2> QED BY <2>1, <2>2
  <1> QED BY <1>2, <1>3, <1>4, <1>5

\* Accounts come from batches of the account trie.
LEMMA AccountsGrow ==
    ASSUME SyncInv, root # None, NEW b, PartOf(b, Leafs[root]), DOMAIN b \subseteq BatchKeys,
           NEW e, e.accounts = Over(b, disk.accounts), Later(disk, e)
    PROVE  /\ \A k \in DOMAIN e.accounts : CodeKnown(e, e.accounts[k].code)
           /\ \A k \in DOMAIN e.accounts : k \in DOMAIN disk.accounts \/ k \in BatchKeys
           /\ ~torn => /\ PartOf(disk.accounts, e.accounts)
                       /\ PartOf(e.accounts, Leafs[root])
  <1>1. DOMAIN e.accounts = DOMAIN b \cup DOMAIN disk.accounts
        BY DEF Over
  <1>2. ASSUME NEW k \in DOMAIN e.accounts PROVE CodeKnown(e, e.accounts[k].code)
    <2>1. CASE k \in DOMAIN b
      <3>1. e.accounts[k] = Leafs[root][k]
            BY <2>1, <1>1 DEF Over, PartOf
      <3>2. CodeKnown(disk, Leafs[root][k].code)
            BY <2>1 DEF SyncInv, CodesInv
      <3> QED BY <3>1, <3>2 DEF CodeKnown, Later
    <2>2. CASE k \notin DOMAIN b
      <3>1. e.accounts[k] = disk.accounts[k] /\ k \in DOMAIN disk.accounts
            BY <2>2, <1>1 DEF Over
      <3>2. CodeKnown(disk, disk.accounts[k].code)
            BY <3>1 DEF SyncInv, CodesInv
      <3> QED BY <3>1, <3>2 DEF CodeKnown, Later
    <2> QED BY <2>1, <2>2
  <1>3. ASSUME ~torn PROVE PartOf(disk.accounts, e.accounts) /\ PartOf(e.accounts, Leafs[root])
    <2>1. PartOf(disk.accounts, Leafs[root])
          BY <1>3, SessionFacts DEF SnapshotOK
    <2> QED BY <2>1, OverPart
  <1> QED BY <1>1, <1>2, <1>3

\* Both together are a step of the disk.
LEMMA WriteStep ==
    ASSUME SyncInv, root # None, NEW e, Later(disk, e), e.queue = disk.queue,
           \A k \in DOMAIN e.accounts : CodeKnown(e, e.accounts[k].code),
           \A k \in DOMAIN e.accounts : k \in DOMAIN disk.accounts \/ k \in BatchKeys,
           ~torn => Grown(disk, e)
    PROVE  DiskStep(e)
  <1>1. ASSUME ~torn, NEW k \in BatchKeys PROVE Followed(e, k)
    <2>1. root \in MainRoots /\ disk.syncRoot = root
          BY SessionFacts
    <2>2. k \in DOMAIN Leafs[root]
      <3>1. \A i \in DOMAIN tries[root].segs :
                DOMAIN tries[root].segs[i].batch \subseteq DOMAIN Leafs[root]
            BY DEF SyncInv, TriesInv, PartOf
      <3> QED BY <3>1, <1>1 DEF BatchKeys
    <2>3. Followed(disk, k)
          BY <1>1 DEF SyncInv, ProgressInv
    <2> QED BY <2>1, <2>2, <2>3, <1>1, FollowedLater
  <1> QED BY <1>1 DEF DiskStep

\* What writing a batch changes on disk, and what it leaves alone (OnLeafs).
LEMMA FlushFields ==
    ASSUME NEW d, DiskShape(d), NEW r, NEW t, NEW batch, NEW e, e = Flush(d, r, t, batch)
    PROVE  /\ DiskShape(e)
           /\ e.summary = d.summary /\ e.syncRoot = d.syncRoot /\ e.queue = d.queue
           /\ e.tries = d.tries /\ e.code = d.code /\ e.toFetch = d.toFetch
           /\ e.segments = d.segments /\ e.blocks = d.blocks
           /\ r \in MainRoots => e.accounts = Over(batch, d.accounts) /\ e.slots = d.slots
           /\ r \notin MainRoots => e.accounts = d.accounts
           /\ r \notin MainRoots => \A a \in Key :
                 e.slots[a] = IF a \in t.accounts THEN Over(batch, d.slots[a]) ELSE d.slots[a]
  <1>1. CASE r \in MainRoots
    <2>1. e = [d EXCEPT !.accounts = Over(batch, d.accounts)]
          BY <1>1 DEF Flush
    <2> QED BY <2>1, <1>1 DEF DiskShape
  <1>2. CASE r \notin MainRoots
    <2> DEFINE s == [a \in Key |-> IF a \in t.accounts THEN Over(batch, d.slots[a]) ELSE d.slots[a]]
    <2>1. e = [d EXCEPT !.slots = s]
          BY <1>2 DEF Flush
    <2>2. DOMAIN s = Key /\ \A a \in Key :
              s[a] = IF a \in t.accounts THEN Over(batch, d.slots[a]) ELSE d.slots[a]
          OBVIOUS
    <2> HIDE DEF s
    <2>3. e.slots = s /\ DOMAIN e = DOMAIN d
          BY <2>1 DEF DiskShape
    <2>4. /\ e.summary = d.summary /\ e.syncRoot = d.syncRoot /\ e.queue = d.queue
          /\ e.tries = d.tries /\ e.code = d.code /\ e.toFetch = d.toFetch
          /\ e.segments = d.segments /\ e.blocks = d.blocks /\ e.accounts = d.accounts
          BY <2>1 DEF DiskShape
    <2> QED BY <2>2, <2>3, <2>4, <1>2 DEF DiskShape
  <1> QED BY <1>1, <1>2

\* Flush writes a batch of one trie.
LEMMA FlushStep ==
    ASSUME SyncInv, root # None, NEW r \in DOMAIN tries, NEW batch, PartOf(batch, Leafs[r]),
           r = root => DOMAIN batch \subseteq BatchKeys,
           NEW t, t.accounts = tries[r].accounts, NEW e, e = Flush(disk, r, t, batch)
    PROVE  DiskStep(e)
  <1>1. /\ root \in MainRoots /\ disk.syncRoot = root /\ DiskShape(disk)
        /\ ~torn => SnapshotOK(disk)
        BY SessionFacts DEF SyncInv, ShapesOK
  <1>2. r = root \/ (r \in StorageRoots /\ r \notin MainRoots)
        BY RootsAssumption DEF SyncInv, TriesInv
  <1>3. Later(disk, e) /\ e.queue = disk.queue /\ e.syncRoot = root
        BY <1>1, FlushFields DEF Later
  <1>4. CASE r = root
    <2>1. e.accounts = Over(batch, disk.accounts) /\ e.slots = disk.slots
          BY <1>1, <1>4, FlushFields
    <2>2. /\ \A k \in DOMAIN e.accounts : CodeKnown(e, e.accounts[k].code)
          /\ \A k \in DOMAIN e.accounts : k \in DOMAIN disk.accounts \/ k \in BatchKeys
          /\ ~torn => PartOf(disk.accounts, e.accounts) /\ PartOf(e.accounts, Leafs[root])
          BY <2>1, <1>3, <1>4, AccountsGrow
    <2>3. ~torn => SnapshotOK(e)
          BY <2>1, <2>2, <1>1, <1>3 DEF SnapshotOK
    <2>4. ~torn => Grown(disk, e)
          BY <2>1, <2>2, <2>3, <1>1, <1>3, SelfPart DEF Grown
    <2> QED BY <2>2, <2>4, <1>3, WriteStep
  <1>5. CASE r \in StorageRoots
    <2>0. r \notin MainRoots
          BY <1>5, RootsAssumption
    <2>1. e.accounts = disk.accounts
          BY <1>1, <2>0, FlushFields
    <2>2. \A k \in DOMAIN e.accounts : CodeKnown(e, e.accounts[k].code)
          BY <2>1, <1>3 DEF SyncInv, CodesInv, CodeKnown, Later
    <2>3. ASSUME ~torn PROVE Grown(disk, e)
      <3> DEFINE b == [k \in Key |-> IF k \in tries[r].accounts THEN batch ELSE Empty]
      <3>1. \A k \in Key : b[k] = IF k \in tries[r].accounts THEN batch ELSE Empty
            OBVIOUS
      <3> HIDE DEF b
      <3>2. \A k \in Key : PartOf(disk.slots[k], disk.slots[k])
            BY <1>1, <2>3, SelfPart
      <3>3. \A k \in Key : Over(Empty, disk.slots[k]) = disk.slots[k]
            BY <3>2 DEF Over, Empty, PartOf
      <3>4. \A k \in Key : e.slots[k] = IF k \in tries[r].accounts THEN Over(batch, disk.slots[k])
                                        ELSE disk.slots[k]
        <4>1. \A k \in Key : e.slots[k] = IF k \in t.accounts THEN Over(batch, disk.slots[k])
                                         ELSE disk.slots[k]
              BY <1>1, <2>0, FlushFields
        <4> QED BY <4>1
      <3>5. \A k \in Key : e.slots[k] = Over(b[k], disk.slots[k])
            BY <3>1, <3>3, <3>4
      <3>6. /\ tries[r].accounts \subseteq Users(root, r)
            /\ Covers(disk, r, tries[r].accounts)
            BY <1>1, <1>5, <2>3, SessionFacts DEF SyncInv, TriesInv, ProgressInv
      <3>7. \A q \in StorageRoots : \A k \in Users(root, q) :
               /\ k \in Key
               /\ b[k] = IF q = r /\ k \in tries[r].accounts THEN batch ELSE Empty
        <4>1. ASSUME NEW q \in StorageRoots, NEW k \in Users(root, q)
              PROVE  k \in Key /\ (k \in tries[r].accounts => q = r)
              BY <3>6, <1>1, UserFacts
        <4> QED BY <4>1, <3>1
      <3>8. \A k \in Key : (\A q \in StorageRoots : k \notin Users(root, q)) => b[k] = Empty
            BY <3>1, <3>6, <1>5
      <3>9. \A q \in StorageRoots : \A k \in Users(root, q) : PartOf(b[k], Leafs[q])
            BY <3>7, PartFacts
      <3>10. ASSUME NEW q \in StorageRoots, NEW j \in Users(root, q), NEW k \in Users(root, q)
             PROVE  b[j] = b[k] \/ disk.slots[j] = Leafs[q]
        <4>1. CASE q # r
              BY <4>1, <3>7
        <4>2. CASE q = r
          <5>1. \A x \in Users(root, r) : x \in tries[r].accounts \/ disk.slots[x] = Leafs[r]
                BY <3>6, <1>1 DEF Covers
          <5>2. disk.slots[j] = disk.slots[k]
                BY <1>1, <2>3 DEF SnapshotOK
          <5> QED BY <5>1, <5>2, <3>7, <4>2
        <4> QED BY <4>1, <4>2
      <3>11. /\ \A k \in Key : PartOf(disk.slots[k], e.slots[k])
             /\ \A k \in Key : (\A q \in StorageRoots : k \notin Users(root, q)) =>
                   e.slots[k] = Empty
             /\ \A q \in StorageRoots : \A j, k \in Users(root, q) :
                   PartOf(e.slots[k], Leafs[q]) /\ e.slots[j] = e.slots[k]
             BY <3>5, <3>8, <3>9, <3>10, <2>3, SlotsGrow
      <3>12. PartOf(disk.accounts, e.accounts) /\ PartOf(e.accounts, Leafs[root])
             BY <2>1, <2>3, <1>1, SelfPart DEF SnapshotOK
      <3> QED BY <3>11, <3>12, <1>3 DEF Grown, SnapshotOK
    <2> QED BY <2>1, <2>2, <2>3, <1>3, WriteStep
  <1> QED BY <1>2, <1>4, <1>5

----------------------------------------------------------------------------
(* Parts of a step *)

\* The tries are left alone.
LEMMA SameTries ==
    ASSUME SyncInv, SessionStep, UNCHANGED tries
    PROVE  TriesStep /\ Items' = Items
  <1>1. BatchKeys' = BatchKeys
        BY DEF BatchKeys, SessionStep
  <1>2. DOMAIN tries \subseteq {root} \cup StorageRoots
        BY DEF SyncInv, TriesInv, SessionStep
  <1>3. Items' = Items
        BY DEF Items
  <1> QED BY <1>1, <1>2, <1>3 DEF TriesStep

\* What a trie was hashed from is still there.
LEMMA HashedLater ==
    ASSUME SyncInv, root # None, NEW e, DiskStep(e), ~torn, NEW r \in DOMAIN tries
    PROVE  PartOf(tries[r].hashed, IterateLeafs(e, r, tries[r].accounts))
  <1>1. root \in MainRoots
        BY SessionFacts
  <1>2. PartOf(tries[r].hashed, IterateLeafs(disk, r, tries[r].accounts))
        BY <1>1 DEF SyncInv, ProgressInv
  <1>3. r \in MainRoots \/ (tries[r].accounts \subseteq Key /\ tries[r].accounts # {})
        BY <1>1, UserFacts DEF SyncInv, TriesInv
  <1>4. Grown(disk, e)
        BY DEF DiskStep
  <1> QED BY <1>2, <1>3, <1>4, ReadLater

\* A trie that is fetched for all accounts without it is still so after a step.
LEMMA CoversLater ==
    ASSUME SyncInv, SessionStep, DiskStep(disk'), ~torn, NEW r \in StorageRoots, NEW A,
           Covers(disk, r, A)
    PROVE  Covers(disk', r, A)
  <1>1. disk.syncRoot \in MainRoots
        BY SessionFacts DEF SessionStep
  <1>2. Grown(disk, disk') /\ Later(disk, disk')
        BY DEF DiskStep
  <1> QED BY <1>1, <1>2, StoredLater

\* One trie is updated.
LEMMA OneTrie ==
    ASSUME SyncInv, SessionStep, DiskStep(disk'), NEW r \in DOMAIN tries, NEW t,
           tries' = [tries EXCEPT ![r] = t],
           TrieShape(t), DOMAIN tries[r].segs \subseteq DOMAIN t.segs,
           t.accounts = tries[r].accounts,
           \A i \in DOMAIN t.segs : PartOf(t.segs[i].batch, Leafs[r]),
           ~torn => PartOf(t.hashed, IterateLeafs(disk', r, t.accounts)),
           r = root => \A i \in DOMAIN t.segs : \A k \in DOMAIN t.segs[i].batch :
              k \in BatchKeys \/
              (CodeKnown(disk', Leafs[root][k].code) /\ (~torn => Followed(disk', k)))
    PROVE  TriesStep
  <1>1. DOMAIN tries' = DOMAIN tries /\ tries'[r] = t
        /\ \A q \in DOMAIN tries \ {r} : tries'[q] = tries[q]
        OBVIOUS
  <1>2. /\ root \in DOMAIN tries /\ DOMAIN tries \subseteq {root} \cup StorageRoots
        /\ root' = root /\ root # None
        BY DEF SyncInv, TriesInv, SessionStep
  <1>3. r # root => t.accounts # {} /\ t.accounts \subseteq Users(root, r)
        BY <1>2 DEF SyncInv, TriesInv
  <1>4. ASSUME ~torn, r # root PROVE Covers(disk', r, t.accounts)
    <2>1. Covers(disk, r, t.accounts)
          BY <1>2, <1>4 DEF SyncInv, ProgressInv
    <2> QED BY <2>1, <1>2, <1>4, CoversLater
  <1>5. TrieStep(r)
        BY <1>1, <1>3, <1>4 DEF TrieStep
  <1>6. ASSUME NEW k \in BatchKeys'
        PROVE  k \in BatchKeys \/
               (CodeKnown(disk', Leafs[root][k].code) /\ (~torn => Followed(disk', k)))
    <2>1. CASE r = root
      <3>1. k \in UNION {DOMAIN t.segs[i].batch : i \in DOMAIN t.segs}
            BY <2>1, <1>1, <1>2, <1>6 DEF BatchKeys
      <3> QED BY <3>1, <2>1
    <2>2. CASE r # root
      <3>1. tries'[root] = tries[root]
            BY <2>2, <1>1, <1>2
      <3>2. BatchKeys' = BatchKeys
            BY <3>1, <1>2 DEF BatchKeys
      <3> QED BY <3>2, <1>6
    <2> QED BY <2>1, <2>2
  <1>7. \A q \in DOMAIN tries' : (q \in DOMAIN tries /\ tries'[q] = tries[q]) \/ TrieStep(q)
        BY <1>1, <1>5
  <1> QED BY <1>1, <1>2, <1>6, <1>7 DEF TriesStep

\* What of the rest is left alone.
LEMMA RestLater ==
    ASSUME SyncInv, SessionStep, DiskStep(disk'), TriesStep
    PROVE  /\ codes.outstanding \subseteq disk'.code \cup disk'.toFetch
           /\ DOMAIN codes = {"queue", "closed", "outstanding"}
           /\ DOMAIN segments = {"queue", "closed"}
           /\ segments.queue \in Seq(Items')
           /\ inProgress \subseteq DOMAIN tries'
  <1>1. codes.outstanding \subseteq disk'.code \cup disk'.toFetch
        BY DEF SyncInv, CodesInv, DiskStep, Later
  <1>2. segments.queue \in Seq(Items')
    <2>1. segments.queue \in Seq(Items)
          BY DEF SyncInv, TriesInv, SessionStep
    <2> QED BY <2>1, ItemsGrow, SeqMono
  <1>3. inProgress \subseteq DOMAIN tries'
        BY DEF SyncInv, TriesInv, SessionStep, TriesStep
  <1> QED BY <1>1, <1>2, <1>3 DEF SyncInv, ShapesOK

\* The producer stands where it was.
LEMMA SameProducer ==
    ASSUME SyncInv, SessionStep, DiskStep(disk'), TriesStep, UNCHANGED producer,
           DOMAIN tries' = DOMAIN tries, done \subseteq done'
    PROVE  ProducerStepOK
  <1>1. root' = root /\ root # None
        BY DEF SessionStep
  <1>2. \A r : Below(r)' <=> Below(r)
        BY <1>1 DEF Below
  <1>3. ASSUME producer.send \in Seq(Items) PROVE producer.send \in Seq(Items')
        BY <1>3, ItemsGrow, SeqMono
  <1>4. ProducerInv'
        BY <1>1, <1>2, <1>3 DEF SyncInv, ProducerInv
  <1>5. ASSUME ~torn, producer.pc = "sem" PROVE Covers(disk', producer.root, producer.accounts)
    <2>1. producer.root \in StorageRoots /\ Covers(disk, producer.root, producer.accounts)
          BY <1>1, <1>5 DEF SyncInv, ProducerInv, ProgressInv
    <2> QED BY <2>1, <1>5, CoversLater
  <1> QED BY <1>4, <1>5 DEF ProducerStepOK, SyncInv, ShapesOK

\* One worker moves.
LEMMA OneWorker ==
    ASSUME SyncInv, NEW w \in Workers, NEW x, worker' = [worker EXCEPT ![w] = x],
           WorkerShape(x), TaskOK(Items', x), ~torn => WorkerProgress(disk', root, x)
    PROVE  WorkersStep
  <1>1. DOMAIN worker = Workers
        BY DEF SyncInv, ShapesOK
  <1>2. worker'[w] = x /\ \A v \in Workers \ {w} : worker'[v] = worker[v]
        BY <1>1
  <1> QED BY <1>1, <1>2 DEF WorkersStep

\* Workers that do nothing keep their part of the invariant.
LEMMA SameWorkers ==
    ASSUME SyncInv, UNCHANGED worker
    PROVE  WorkersStep
  BY DEF SyncInv, ShapesOK, WorkersStep

\* A worker gives up its task.
LEMMA GotoEnd ==
    ASSUME SyncInv, NEW w \in Workers, NEW pc \in {"idle", "done"}, Goto(w, pc)
    PROVE  WorkersStep
  <1> DEFINE x == [IdleWorker EXCEPT !.pc = pc]
  <1>1. worker' = [worker EXCEPT ![w] = x]
        BY DEF Goto
  <1>2. WorkerShape(x) /\ x.pc = pc
        BY DEF WorkerShape, IdleWorker
  <1> HIDE DEF x
  <1>3. TaskOK(Items', x) /\ WorkerProgress(disk', root, x)
        BY <1>2 DEF TaskOK, WorkerProgress
  <1> QED BY <1>1, <1>2, <1>3, OneWorker

\* A worker that has a task.
LEMMA WorkerFacts ==
    ASSUME SyncInv, root # None, NEW w \in Workers, worker[w].pc \notin {"idle", "done"}
    PROVE  /\ worker[w].root \in DOMAIN tries
           /\ worker[w].idx \in DOMAIN tries[worker[w].root].segs
           /\ WorkerShape(worker[w])
           /\ TrieShape(tries[worker[w].root])
           /\ worker[w].root = root \/
              (worker[w].root \in StorageRoots /\ worker[w].root \notin MainRoots)
  <1>1. <<worker[w].root, worker[w].idx>> \in Items /\ DOMAIN tries \subseteq {root} \cup StorageRoots
        BY DEF SyncInv, TriesInv
  <1>2. /\ worker[w].root \in DOMAIN tries
        /\ worker[w].idx \in DOMAIN tries[worker[w].root].segs
        BY <1>1 DEF Items
  <1>3. WorkerShape(worker[w]) /\ TrieShape(tries[worker[w].root])
        BY <1>2 DEF SyncInv, ShapesOK, WorkerShape
  <1> QED BY <1>1, <1>2, <1>3, RootsAssumption

\* A worker goes on with its task.
LEMMA GotoOn ==
    ASSUME SyncInv, SessionStep, TriesStep, NEW w \in Workers,
           worker[w].pc \notin {"idle", "done"}, NEW pc, pc \notin {"idle", "done", "send"},
           NEW x, worker' = [worker EXCEPT ![w] = x],
           WorkerShape(x), x.pc = pc, x.root = worker[w].root, x.idx = worker[w].idx,
           ~torn => /\ pc = "main" \/ (pc = "clear" /\ x.root = root) => disk'.accounts = Leafs[root]
                    /\ pc \in {"clear", "release"} /\ x.root # root => Stored(disk', x.root)
    PROVE  WorkersStep
  <1>1. <<x.root, x.idx>> \in Items
        BY DEF SyncInv, TriesInv, SessionStep
  <1>2. TaskOK(Items', x)
        BY <1>1, ItemsGrow DEF TaskOK
  <1>3. ~torn => WorkerProgress(disk', root, x)
        BY DEF WorkerProgress
  <1> QED BY <1>2, <1>3, OneWorker

\* A worker may move to a step that asks for no more than the disk has.
LEMMA GotoNext ==
    ASSUME SyncInv, SessionStep, TriesStep, NEW w \in Workers,
           worker[w].pc \notin {"idle", "done"}, NEW pc, pc \notin {"idle", "done", "send"},
           Goto(w, pc),
           ~torn => /\ pc = "main" \/ (pc = "clear" /\ worker[w].root = root) =>
                          disk'.accounts = Leafs[root]
                    /\ pc \in {"clear", "release"} /\ worker[w].root # root =>
                          Stored(disk', worker[w].root)
    PROVE  WorkersStep
  <1> DEFINE x == [worker[w] EXCEPT !.pc = pc]
  <1>1. worker' = [worker EXCEPT ![w] = x]
        BY DEF Goto
  <1>2. WorkerShape(worker[w])
        BY DEF SyncInv, ShapesOK, WorkerShape
  <1>3. WorkerShape(x) /\ x.pc = pc /\ x.root = worker[w].root /\ x.idx = worker[w].idx
        BY <1>2 DEF WorkerShape
  <1> HIDE DEF x
  <1> QED BY <1>1, <1>3, GotoOn

\* A step of a sync, with the producer left alone.
LEMMA StepInv ==
    ASSUME SyncInv, SessionStep, DiskStep(disk'), TriesStep, WorkersStep,
           UNCHANGED producer, DOMAIN tries' = DOMAIN tries, done \subseteq done',
           inProgress' \subseteq inProgress,
           codes' = codes \/ /\ DOMAIN codes' = {"queue", "closed", "outstanding"}
                             /\ codes'.outstanding \subseteq disk'.code \cup disk'.toFetch,
           segments' = segments \/ /\ DOMAIN segments' = {"queue", "closed"}
                                   /\ segments'.queue \in Seq(Items'),
           (~torn /\ "main" \in done') => "main" \in done \/ disk.accounts = Leafs[root]
    PROVE  SyncInv'
  <1>1. ProducerStepOK
        BY SameProducer
  <1>2. /\ codes.outstanding \subseteq disk'.code \cup disk'.toFetch
        /\ DOMAIN codes = {"queue", "closed", "outstanding"}
        /\ DOMAIN segments = {"queue", "closed"}
        /\ segments.queue \in Seq(Items')
        /\ inProgress \subseteq DOMAIN tries'
        BY RestLater
  <1>3. RestStep
        BY <1>2 DEF RestStep
  <1> QED BY <1>1, <1>3, SessionInv

\* A step that touches neither disk nor tries.
LEMMA LightStepInv ==
    ASSUME SyncInv, SessionStep, UNCHANGED <<disk, tries, producer>>, WorkersStep,
           done \subseteq done', inProgress' \subseteq inProgress,
           codes' = codes \/ /\ DOMAIN codes' = {"queue", "closed", "outstanding"}
                             /\ codes'.outstanding \subseteq codes.outstanding,
           segments' = segments \/ /\ DOMAIN segments' = {"queue", "closed"}
                                   /\ segments'.queue \in Seq(Items),
           (~torn /\ "main" \in done') => "main" \in done \/ disk.accounts = Leafs[root]
    PROVE  SyncInv'
  <1>1. DiskStep(disk')
        BY SameDisk DEF SessionStep
  <1>2. TriesStep /\ Items' = Items
        BY SameTries
  <1>3. codes.outstanding \subseteq disk'.code \cup disk'.toFetch
        BY <1>1, <1>2, RestLater
  <1>4. codes' = codes \/ /\ DOMAIN codes' = {"queue", "closed", "outstanding"}
                          /\ codes'.outstanding \subseteq disk'.code \cup disk'.toFetch
        BY <1>3
  <1>5. segments' = segments \/ /\ DOMAIN segments' = {"queue", "closed"}
                                /\ segments'.queue \in Seq(Items')
        BY <1>2
  <1> QED BY <1>1, <1>2, <1>4, <1>5, StepInv

\* The segments in the channel are segments of tries of this sync.
LEMMA SegmentsFacts ==
    ASSUME SyncInv, root # None
    PROVE  /\ DOMAIN segments = {"queue", "closed"}
           /\ segments.queue \in Seq(Items)
           /\ DOMAIN codes = {"queue", "closed", "outstanding"}
           /\ \A s \in Items : /\ s = <<s[1], s[2]>>
                               /\ s[1] \in DOMAIN tries /\ s[2] \in DOMAIN tries[s[1]].segs
  <1>1. \A s \in Items : /\ s = <<s[1], s[2]>>
                         /\ s[1] \in DOMAIN tries /\ s[2] \in DOMAIN tries[s[1]].segs
        BY DEF Items
  <1> QED BY <1>1 DEF SyncInv, ShapesOK, TriesInv

----------------------------------------------------------------------------
(* Batches, segments and hashes of a trie *)

\* A finished storage trie is copied to the snapshot of all its accounts.
LEMMA CopyStored ==
    ASSUME SyncInv, root # None, ~torn, NEW r \in DOMAIN tries, r \in StorageRoots,
           r \in disk.tries, NEW e, e = Flush(disk, r, tries[r], Leafs[r])
    PROVE  Stored(e, r)
  <1>1. /\ root \in MainRoots /\ disk.syncRoot = root /\ DiskShape(disk) /\ SnapshotOK(disk)
        /\ r \notin MainRoots
        BY SessionFacts, RootsAssumption DEF SyncInv, ShapesOK
  <1>2. /\ e.tries = disk.tries /\ e.syncRoot = root
        /\ \A a \in Key : e.slots[a] = IF a \in tries[r].accounts
                                       THEN Over(Leafs[r], disk.slots[a]) ELSE disk.slots[a]
        BY <1>1, FlushFields
  <1>3. Covers(disk, r, tries[r].accounts)
        BY <1>1 DEF SyncInv, ProgressInv
  <1>4. ASSUME NEW k \in Users(root, r) PROVE e.slots[k] = Leafs[r]
    <2>1. k \in Key /\ PartOf(disk.slots[k], Leafs[r])
          BY <1>1, UserFacts DEF SnapshotOK
    <2>2. PartOf(Leafs[r], Leafs[r])
          BY TrieFacts DEF Roots
    <2>3. /\ PartOf(Over(Leafs[r], disk.slots[k]), Leafs[r])
          /\ DOMAIN Over(Leafs[r], disk.slots[k]) = DOMAIN Leafs[r] \cup DOMAIN disk.slots[k]
          BY <2>1, <2>2, OverPart
    <2>4. DOMAIN Over(Leafs[r], disk.slots[k]) = DOMAIN Leafs[r]
          BY <2>1, <2>3 DEF PartOf
    <2>5. Over(Leafs[r], disk.slots[k]) = Leafs[r]
          BY <2>2, <2>3, <2>4, SamePart
    <2>6. k \in tries[r].accounts \/ disk.slots[k] = Leafs[r]
          BY <1>1, <1>3 DEF Covers
    <2> QED BY <2>1, <2>5, <2>6, <1>2
  <1> QED BY <1>2, <1>4 DEF Stored

\* What is written besides the snapshot.
LEMMA SameContent ==
    ASSUME SyncInv, root # None, NEW d, DiskStep(d), NEW e, DiskShape(e),
           e.summary = d.summary, e.syncRoot = d.syncRoot, e.accounts = d.accounts,
           e.slots = d.slots, e.queue = d.queue, d.tries \subseteq e.tries,
           d.code \cup d.toFetch \subseteq e.code \cup e.toFetch
    PROVE  DiskStep(e)
  <1>1. Later(disk, d)
        BY DEF DiskStep
  <1>2. Later(disk, e)
        BY <1>1 DEF Later
  <1>3. ~torn => Grown(disk, e)
        BY DEF DiskStep, Grown, SnapshotOK
  <1>4. \A k : Followed(d, k) => Followed(e, k)
        BY DEF Followed
  <1>5. \A c : CodeKnown(d, c) => CodeKnown(e, c)
        BY DEF CodeKnown
  <1>6. \A q \in e.queue : q \in disk.queue
           \/ (q \in StorageRoots \X Key /\ q[2] \in Users(root, q[1]))
        BY DEF DiskStep
  <1>7. ~torn => \A k \in DOMAIN e.accounts : k \in DOMAIN disk.accounts \/ Followed(e, k)
        BY <1>4 DEF DiskStep
  <1>8. \A k \in DOMAIN e.accounts : CodeKnown(e, e.accounts[k].code)
        BY <1>5 DEF DiskStep
  <1> QED BY <1>2, <1>3, <1>6, <1>7, <1>8 DEF DiskStep

\* Markers are written before the accounts they are for.
LEMMA RegisterStep ==
    ASSUME SyncInv, root # None, NEW leafs, PartOf(leafs, Leafs[root]), NEW selected,
           NEW e, e = Register(disk, leafs, selected)
    PROVE  /\ DiskStep(e)
           /\ e.code = disk.code /\ e.toFetch = disk.toFetch \cup selected
           /\ \A k \in DOMAIN leafs : Followed(e, k)
  <1> DEFINE new == {<<leafs[k].root, k>> : k \in {j \in DOMAIN leafs : leafs[j].root # None}}
  <1>1. /\ root \in MainRoots /\ disk.syncRoot = root /\ DiskShape(disk)
        /\ ~torn => SnapshotOK(disk)
        BY SessionFacts DEF SyncInv, ShapesOK
  <1>2. e = [disk EXCEPT !.queue = disk.queue \cup new, !.toFetch = disk.toFetch \cup selected]
        BY DEF Register
  <1>3. ASSUME NEW k \in DOMAIN leafs
        PROVE  /\ k \in DOMAIN Leafs[root] /\ leafs[k] = Leafs[root][k]
               /\ leafs[k].root # None => <<leafs[k].root, k>> \in new
        BY DEF PartOf
  <1>4. ASSUME NEW q \in new
        PROVE  q \in StorageRoots \X Key /\ q[2] \in Users(root, q[1])
    <2>1. PICK k \in DOMAIN leafs : leafs[k].root # None /\ q = <<leafs[k].root, k>>
          OBVIOUS
    <2>2. leafs[k].root \in StorageRoots /\ k \in Users(root, leafs[k].root) /\ k \in Key
          BY <1>1, <1>3, <2>1, UserFacts
    <2> QED BY <2>1, <2>2
  <1> HIDE DEF new
  <1>5. /\ DiskShape(e) /\ e.summary = disk.summary /\ e.syncRoot = disk.syncRoot
        /\ e.accounts = disk.accounts /\ e.slots = disk.slots /\ e.tries = disk.tries
        /\ e.code = disk.code /\ e.toFetch = disk.toFetch \cup selected
        /\ e.queue = disk.queue \cup new
        BY <1>1, <1>2 DEF DiskShape
  <1>6. Later(disk, e)
        BY <1>5 DEF Later
  <1>7. ASSUME ~torn PROVE Grown(disk, e)
    <2>1. SnapshotOK(e)
          BY <1>1, <1>5, <1>7 DEF SnapshotOK
    <2> QED BY <2>1, <1>1, <1>5, <1>7, SelfPart DEF Grown
  <1>8. \A k \in DOMAIN e.accounts : CodeKnown(e, e.accounts[k].code)
        BY <1>5 DEF SyncInv, CodesInv, CodeKnown
  <1>9. DiskStep(e)
        BY <1>4, <1>5, <1>6, <1>7, <1>8 DEF DiskStep
  <1>10. ASSUME NEW k \in DOMAIN leafs PROVE Followed(e, k)
        BY <1>1, <1>3, <1>5 DEF Followed
  <1> QED BY <1>5, <1>9, <1>10

\* A batch of a trie changes.
LEMMA BatchUpdate ==
    ASSUME NEW t, TrieShape(t), NEW i \in DOMAIN t.segs, NEW s,
           DOMAIN s = {"start", "end", "pos", "leafs", "batch"},
           NEW u, u = [t EXCEPT !.segs = [t.segs EXCEPT ![i] = s]]
    PROVE  /\ TrieShape(u) /\ DOMAIN u.segs = DOMAIN t.segs /\ Len(u.segs) = Len(t.segs)
           /\ u.segs[i] = s /\ \A j \in DOMAIN t.segs \ {i} : u.segs[j] = t.segs[j]
           /\ u.accounts = t.accounts /\ u.hashed = t.hashed /\ u.finished = t.finished
           /\ u.next = t.next
  <1> DEFINE q == [t.segs EXCEPT ![i] = s]
  <1>1. Sequence(t.segs)
        BY DEF TrieShape
  <1>2. /\ Sequence(q) /\ Len(q) = Len(t.segs) /\ DOMAIN q = DOMAIN t.segs
        /\ \A j \in DOMAIN t.segs : q[j] = IF j = i THEN s ELSE t.segs[j]
        BY <1>1, SequenceUpdate
  <1> HIDE DEF q
  <1>3. /\ u.segs = q /\ u.accounts = t.accounts /\ u.hashed = t.hashed
        /\ u.finished = t.finished /\ u.next = t.next /\ DOMAIN u = DOMAIN t
        BY DEF TrieShape, q
  <1>4. \A j \in DOMAIN q : DOMAIN q[j] = {"start", "end", "pos", "leafs", "batch"}
        BY <1>2 DEF TrieShape
  <1>5. TrieShape(u)
        BY <1>2, <1>3, <1>4 DEF TrieShape
  <1> QED BY <1>2, <1>3, <1>5

\* A trie with other positions, and batches that are written.
Alike(t, u) ==
    /\ TrieShape(u)
    /\ DOMAIN u.segs = DOMAIN t.segs
    /\ u.accounts = t.accounts
    /\ u.hashed = t.hashed
    /\ \A j \in DOMAIN t.segs : u.segs[j].batch \in {t.segs[j].batch, Empty}

\* Replacing a segment by one with the same batch or none keeps a trie alike.
LEMMA AlikeUpdate ==
    ASSUME NEW t, TrieShape(t), NEW i \in DOMAIN t.segs, NEW s,
           DOMAIN s = {"start", "end", "pos", "leafs", "batch"},
           s.batch \in {t.segs[i].batch, Empty},
           NEW u, u = [t EXCEPT !.segs = [t.segs EXCEPT ![i] = s]]
    PROVE  Alike(t, u)
  <1>1. /\ TrieShape(u) /\ DOMAIN u.segs = DOMAIN t.segs
        /\ u.segs[i] = s /\ \A j \in DOMAIN t.segs \ {i} : u.segs[j] = t.segs[j]
        /\ u.accounts = t.accounts /\ u.hashed = t.hashed
        BY BatchUpdate
  <1> QED BY <1>1 DEF Alike

\* Alike is transitive.
LEMMA AlikeTwice ==
    ASSUME NEW t, NEW u, NEW v, Alike(t, u), Alike(u, v)
    PROVE  Alike(t, v)
  BY DEF Alike

\* Replacing a trie by one that is alike is an allowed step of the tries.
LEMMA AlikeStep ==
    ASSUME SyncInv, SessionStep, DiskStep(disk'), NEW r \in DOMAIN tries, NEW u,
           Alike(tries[r], u), tries' = [tries EXCEPT ![r] = u]
    PROVE  TriesStep /\ DOMAIN tries' = DOMAIN tries
  <1>1. root # None /\ \A i \in DOMAIN tries[r].segs : PartOf(tries[r].segs[i].batch, Leafs[r])
        BY DEF SyncInv, TriesInv, SessionStep
  <1>2. \A i \in DOMAIN u.segs : PartOf(u.segs[i].batch, Leafs[r])
        BY <1>1, PartFacts DEF Alike
  <1>3. ~torn => PartOf(u.hashed, IterateLeafs(disk', r, u.accounts))
        BY <1>1, HashedLater DEF Alike
  <1>4. ASSUME r = root, NEW i \in DOMAIN u.segs, NEW k \in DOMAIN u.segs[i].batch
        PROVE  k \in BatchKeys
    <2>1. i \in DOMAIN tries[r].segs /\ k \in DOMAIN tries[r].segs[i].batch
          BY <1>4 DEF Alike, Empty
    <2> QED BY <2>1, <1>4 DEF BatchKeys
  <1>5. /\ TrieShape(u) /\ DOMAIN tries[r].segs \subseteq DOMAIN u.segs
        /\ u.accounts = tries[r].accounts
        BY DEF Alike
  <1>6. TriesStep
        BY <1>2, <1>3, <1>4, <1>5, OneTrie
  <1> QED BY <1>6

\* A worker continues its task behind the leafs of a response.
LEMMA ContinueStep ==
    ASSUME SyncInv, SessionStep, DiskStep(disk'), NEW w \in Workers,
           worker[w].pc \notin {"idle", "done"}, NEW t, Alike(tries[worker[w].root], t),
           Continue(w, t)
    PROVE  TriesStep /\ WorkersStep /\ DOMAIN tries' = DOMAIN tries
  <1> DEFINE r == worker[w].root
             i == worker[w].idx
             next == IncrOne(t.segs[i].pos)
  <1>1. /\ root # None /\ r \in DOMAIN tries /\ i \in DOMAIN tries[r].segs
        /\ WorkerShape(worker[w])
        BY WorkerFacts DEF SessionStep
  <1>2. CASE worker[w].last
    <2>1. Goto(w, "hash") /\ tries' = [tries EXCEPT ![r] = t]
          BY <1>2 DEF Continue
    <2>2. TriesStep /\ DOMAIN tries' = DOMAIN tries
          BY <2>1, <1>1, AlikeStep
    <2>3. WorkersStep
          BY <2>1, <2>2, GotoNext
    <2> QED BY <2>2, <2>3
  <1>3. CASE ~worker[w].last
    <2> DEFINE s == [t.segs[i] EXCEPT !.pos = next]
               u == [t EXCEPT !.segs = [t.segs EXCEPT ![i] = s]]
               x == [worker[w] EXCEPT !.pc = "fetch", !.start = next]
    <2>1. worker' = [worker EXCEPT ![w] = x] /\ tries' = [tries EXCEPT ![r] = u]
          BY <1>3 DEF Continue
    <2>2. WorkerShape(x) /\ x.pc = "fetch" /\ x.root = r /\ x.idx = i
          BY <1>1 DEF WorkerShape
    <2>3. TrieShape(t) /\ i \in DOMAIN t.segs
          BY <1>1 DEF Alike
    <2>4. DOMAIN s = {"start", "end", "pos", "leafs", "batch"} /\ s.batch = t.segs[i].batch
          BY <2>3 DEF TrieShape
    <2> HIDE DEF s, x
    <2>5. Alike(t, u)
          BY <2>3, <2>4, AlikeUpdate
    <2> HIDE DEF u
    <2>6. TriesStep /\ DOMAIN tries' = DOMAIN tries
          BY <2>1, <2>5, <1>1, AlikeTwice, AlikeStep
    <2>7. WorkersStep
          BY <2>1, <2>2, <2>6, GotoOn
    <2> QED BY <2>6, <2>7
  <1> QED BY <1>2, <1>3

\* One more segment of a trie, and its marker.
LEMMA AppendSegment ==
    ASSUME SyncInv, SessionStep, NEW r \in DOMAIN tries, NEW start, NEW end,
           tries' = [tries EXCEPT ![r].segs = Append(@, addSegment(start, end))],
           disk' = [disk EXCEPT !.segments = @ \cup {<<r, start>>}]
    PROVE  DiskStep(disk') /\ TriesStep /\ DOMAIN tries' = DOMAIN tries
  <1> DEFINE s == addSegment(start, end)
             q == Append(tries[r].segs, s)
             t == [tries[r] EXCEPT !.segs = q]
  <1>1. root # None /\ TrieShape(tries[r]) /\ Sequence(tries[r].segs) /\ DiskShape(disk)
        BY DEF SessionStep, SyncInv, ShapesOK, TrieShape
  <1>2. DiskStep(disk')
    <2>1. /\ DiskShape(disk') /\ disk'.summary = disk.summary /\ disk'.syncRoot = disk.syncRoot
          /\ disk'.accounts = disk.accounts /\ disk'.slots = disk.slots
          /\ disk'.queue = disk.queue /\ disk'.tries = disk.tries
          /\ disk'.code = disk.code /\ disk'.toFetch = disk.toFetch
          BY <1>1 DEF DiskShape
    <2>2. DiskStep(disk)
          BY <1>1, SameDisk
    <2> QED BY <2>1, <2>2, <1>1, SameContent
  <1>3. tries' = [tries EXCEPT ![r] = t]
        OBVIOUS
  <1>4. DOMAIN s = {"start", "end", "pos", "leafs", "batch"} /\ s.batch = Empty
        BY DEF addSegment
  <1> HIDE DEF s
  <1>5. /\ Sequence(q) /\ DOMAIN tries[r].segs \subseteq DOMAIN q
        /\ \A j \in DOMAIN q : q[j] = IF j \in DOMAIN tries[r].segs THEN tries[r].segs[j] ELSE s
    <2>0. q = Append(tries[r].segs, s)
          OBVIOUS
    <2> HIDE DEF q
    <2>a. Appended(q, tries[r].segs, s)
          BY <1>1, <2>0, SequenceAppend
    <2>1. /\ Sequence(q) /\ DOMAIN q = DOMAIN tries[r].segs \cup {Len(tries[r].segs) + 1}
          /\ \A j \in DOMAIN q : q[j] = IF j \in DOMAIN tries[r].segs THEN tries[r].segs[j] ELSE s
          BY <2>a DEF Appended
    <2> QED BY <2>1
  <1> HIDE DEF q
  <1>6. /\ t.segs = q /\ t.accounts = tries[r].accounts /\ t.hashed = tries[r].hashed
        /\ DOMAIN t = DOMAIN tries[r]
        BY <1>1 DEF TrieShape
  <1> HIDE DEF t
  <1>7. \A j \in DOMAIN q : DOMAIN q[j] = {"start", "end", "pos", "leafs", "batch"}
        BY <1>1, <1>4, <1>5 DEF TrieShape
  <1>8. TrieShape(t)
        BY <1>1, <1>5, <1>6, <1>7 DEF TrieShape
  <1>9. \A j \in DOMAIN tries[r].segs : PartOf(tries[r].segs[j].batch, Leafs[r])
        BY <1>1 DEF SyncInv, TriesInv
  <1>10. \A j \in DOMAIN t.segs : PartOf(t.segs[j].batch, Leafs[r])
        BY <1>4, <1>5, <1>6, <1>9, PartFacts
  <1>11. ~torn => PartOf(t.hashed, IterateLeafs(disk', r, t.accounts))
        BY <1>1, <1>2, <1>6, HashedLater
  <1>12. ASSUME r = root, NEW j \in DOMAIN t.segs, NEW k \in DOMAIN t.segs[j].batch
         PROVE  k \in BatchKeys
    <2>1. j \in DOMAIN tries[r].segs /\ k \in DOMAIN tries[r].segs[j].batch
          BY <1>4, <1>5, <1>6, <1>12 DEF Empty
    <2> QED BY <2>1, <1>12 DEF BatchKeys
  <1>13. TriesStep
        BY <1>2, <1>3, <1>5, <1>6, <1>8, <1>10, <1>11, <1>12, OneTrie
  <1> QED BY <1>2, <1>3, <1>13

\* What startSyncing sends are segments of the trie.
LEMMA SegmentsOfType ==
    ASSUME NEW r \in DOMAIN tries, TrieShape(tries[r])
    PROVE  SegmentsOf(r, tries[r]) \in Seq(Items)
  <1>1. Len(tries[r].segs) \in Nat /\ DOMAIN tries[r].segs = 1 .. Len(tries[r].segs)
        BY SeqFunction DEF TrieShape, Sequence
  <1>2. \A i \in 1 .. Len(tries[r].segs) : <<r, i>> \in Items
        BY <1>1 DEF Items
  <1> QED BY <1>1, <1>2 DEF SegmentsOf

\* A send into the channel of segments.
LEMMA SendStep ==
    ASSUME SyncInv, root # None, NEW todo \in Seq(Items), todo # <<>>, Send(Head(todo))
    PROVE  /\ segments' = segments \/ /\ DOMAIN segments' = {"queue", "closed"}
                                      /\ segments'.queue \in Seq(Items)
           /\ Tail(todo) \in Seq(Items)
  <1>1. Head(todo) \in Items /\ Tail(todo) \in Seq(Items)
        OBVIOUS
  <1>2. DOMAIN segments = {"queue", "closed"} /\ segments.queue \in Seq(Items)
        BY SegmentsFacts
  <1>3. ASSUME segments' = [segments EXCEPT !.queue = Append(segments.queue, Head(todo))]
        PROVE  DOMAIN segments' = {"queue", "closed"} /\ segments'.queue \in Seq(Items)
    <2>1. Append(segments.queue, Head(todo)) \in Seq(Items)
          BY <1>1, <1>2
    <2>2. /\ DOMAIN segments' = {"queue", "closed"}
          /\ segments'.queue = Append(segments.queue, Head(todo))
          BY <1>2, <1>3
    <2> QED BY <2>1, <2>2
  <1> QED BY <1>1, <1>3 DEF Send

\* Segments that are finished are written and hashed.
HashedOK(r, h) ==
    /\ DiskStep(h.disk)
    /\ TrieShape(h.trie) /\ DOMAIN h.trie.segs = DOMAIN tries[r].segs
    /\ h.trie.accounts = tries[r].accounts
    /\ \A i \in DOMAIN tries[r].segs :
          h.trie.segs[i].batch \in {tries[r].segs[i].batch, Empty}
    /\ ~torn => PartOf(h.trie.hashed, IterateLeafs(h.disk, r, tries[r].accounts))

\* What segmentFinished adds to the hash is in the snapshot it has written.
LEMMA HashedFacts ==
    ASSUME SyncInv, root # None, NEW r \in DOMAIN tries, NEW F,
           NEW t, t = [tries[r] EXCEPT !.finished = F], NEW h, h = Hashed(disk, r, t)
    PROVE  HashedOK(r, h)
  <1> DEFINE now == {n \in DOMAIN t.segs : n >= t.next /\ t.next .. n \subseteq t.finished}
             B == {t.segs[i].batch : i \in now}
             d2 == Flush(disk, r, t, Merge(B))
             stored == IterateLeafs(d2, r, t.accounts)
             Read(i) == InSegment(t.segs[i]) \cap DOMAIN stored
             new == Within(stored, UNION {Read(i) : i \in now})
             segs == [i \in 1 .. Len(t.segs) |->
                         IF i \in now THEN [t.segs[i] EXCEPT !.batch = Empty] ELSE t.segs[i]]
             next == t.next + Cardinality(now)
             u == [t EXCEPT !.next = next, !.segs = segs, !.hashed = Over(new, t.hashed)]
  <1>1. h.disk = d2 /\ h.trie = u
        BY DEF Hashed
  <1>2. PartOf(new, stored)
    <2> HIDE DEF stored
    <2>1. PartOf(Within(stored, UNION {Read(i) : i \in now}), stored)
          BY WithinPart
    <2> QED BY <2>1
  <1>3. now \subseteq DOMAIN t.segs
        OBVIOUS
  <1>4. \A i \in now : t.segs[i].batch \in B
        OBVIOUS
  <1>5. \A b \in B : \E i \in now : b = t.segs[i].batch
        OBVIOUS
  <1> HIDE DEF now, new, next
  <1>6. TrieShape(tries[r])
        BY DEF SyncInv, ShapesOK
  <1>7. /\ t.segs = tries[r].segs /\ t.accounts = tries[r].accounts
        /\ t.hashed = tries[r].hashed /\ DOMAIN t = DOMAIN tries[r]
        BY <1>6 DEF TrieShape
  <1>8. \A i \in DOMAIN tries[r].segs : PartOf(tries[r].segs[i].batch, Leafs[r])
        BY DEF SyncInv, TriesInv
  <1> HIDE DEF B
  <1>9. \A b \in B : PartOf(b, Leafs[r])
        BY <1>3, <1>5, <1>7, <1>8
  <1>10. PartOf(Merge(B), Leafs[r]) /\ DOMAIN Merge(B) = UNION {DOMAIN b : b \in B}
        BY <1>9, MergePart
  <1>11. ASSUME r = root PROVE DOMAIN Merge(B) \subseteq BatchKeys
    <2>1. \A b \in B : DOMAIN b \subseteq BatchKeys
          BY <1>3, <1>5, <1>7, <1>11 DEF BatchKeys
    <2> QED BY <2>1, <1>10
  <1>12. DiskStep(d2)
        BY <1>7, <1>10, <1>11, FlushStep
  <1> HIDE DEF d2
  <1>13. Sequence(tries[r].segs)
        BY <1>6 DEF TrieShape
  <1>14. Len(t.segs) \in Nat /\ DOMAIN t.segs = 1 .. Len(t.segs)
        BY <1>7, <1>13, SeqFunction DEF Sequence
  <1>15. /\ DOMAIN segs = 1 .. Len(t.segs) /\ segs = [i \in 1 .. Len(t.segs) |-> segs[i]]
         /\ \A i \in DOMAIN t.segs :
               segs[i] = IF i \in now THEN [t.segs[i] EXCEPT !.batch = Empty] ELSE t.segs[i]
        BY <1>14
  <1> HIDE DEF segs
  <1>16. Sequence(segs) /\ DOMAIN segs = DOMAIN t.segs
        BY <1>14, <1>15, SequenceDef
  <1>17. \A i \in DOMAIN t.segs :
            /\ DOMAIN segs[i] = {"start", "end", "pos", "leafs", "batch"}
            /\ segs[i].batch \in {t.segs[i].batch, Empty}
    <2>1. \A i \in DOMAIN t.segs : DOMAIN t.segs[i] = {"start", "end", "pos", "leafs", "batch"}
          BY <1>6, <1>7 DEF TrieShape
    <2> QED BY <2>1, <1>15
  <1>18. /\ u.segs = segs /\ u.accounts = t.accounts /\ u.hashed = Over(new, t.hashed)
         /\ DOMAIN u = DOMAIN t
        BY <1>6, <1>7 DEF TrieShape
  <1> HIDE DEF u
  <1>19. TrieShape(u)
        BY <1>6, <1>7, <1>16, <1>17, <1>18 DEF TrieShape
  <1>20. ASSUME ~torn PROVE PartOf(u.hashed, stored)
    <2>1. PartOf(t.hashed, stored)
          BY <1>7, <1>12, <1>20, HashedLater
    <2> HIDE DEF stored
    <2>2. PartOf(Over(new, t.hashed), stored)
          BY <2>1, <1>2, OverPart
    <2> QED BY <2>2, <1>18
  <1>21. stored = IterateLeafs(d2, r, tries[r].accounts)
        BY <1>7
  <1> HIDE DEF stored
  <1> QED BY <1>1, <1>7, <1>12, <1>16, <1>17, <1>18, <1>19, <1>20, <1>21 DEF HashedOK

\* A trie that hashed to its root is in the snapshot.
LEMMA MatchStored ==
    ASSUME SyncInv, root # None, ~torn, NEW r \in DOMAIN tries, NEW d, DiskStep(d),
           PartOf(Leafs[r], IterateLeafs(d, r, tries[r].accounts))
    PROVE  /\ r = root => d.accounts = Leafs[root]
           /\ r # root => \A k \in Users(root, r) : d.slots[k] = Leafs[r]
  <1>1. root \in MainRoots /\ disk.syncRoot = root
        BY SessionFacts
  <1>2. SnapshotOK(d) /\ d.syncRoot = root
        BY <1>1 DEF DiskStep, Grown, Later
  <1>3. ASSUME r = root PROVE d.accounts = Leafs[root]
    <2>1. PartOf(Leafs[root], d.accounts) /\ PartOf(d.accounts, Leafs[root])
          BY <1>1, <1>2, <1>3 DEF IterateLeafs, SnapshotOK
    <2> QED BY <2>1, PartFacts
  <1>4. ASSUME r # root, NEW k \in Users(root, r) PROVE d.slots[k] = Leafs[r]
    <2>1. /\ r \in StorageRoots /\ r \notin MainRoots
          /\ tries[r].accounts # {} /\ tries[r].accounts \subseteq Users(root, r)
          BY <1>4, RootsAssumption DEF SyncInv, TriesInv
    <2>2. tries[r].accounts \subseteq Nat
          BY <2>1, <1>1, UserFacts DEF Key
    <2>3. Min(tries[r].accounts) \in Users(root, r)
          BY <2>1, <2>2, LeastNat
    <2>4. d.slots[Min(tries[r].accounts)] = d.slots[k] /\ PartOf(d.slots[k], Leafs[r])
          BY <2>1, <2>3, <1>2, <1>4 DEF SnapshotOK
    <2>5. PartOf(Leafs[r], d.slots[k])
          BY <2>1, <2>4 DEF IterateLeafs
    <2> QED BY <2>4, <2>5, PartFacts
  <1> QED BY <1>3, <1>4
=============================================================================
