---- MODULE PathDB ----
(***************************************************************************)
(* The path-based trie database (triedb/pathdb): one disk layer with a     *)
(* buffer of unwritten nodes, a tree of diff layers above it, and the      *)
(* journal that carries them over a restart.                               *)
(*                                                                         *)
(* A root stands for its state: Nodes[r] is what a trie with root r holds  *)
(* at every path, Absent where it has no node, and the node at RootPath is the  *)
(* root's own.  A blob's hash is the blob.  Layers are objects: a holder   *)
(* may keep one that the tree has dropped, and the parent of a diff layer  *)
(* is an object, not a root.                                               *)
(***************************************************************************)
EXTENDS Integers, Sequences, FiniteSets, Functions, SequencesExt

CONSTANTS
    Roots,
    EmptyRoot,
    Nodes,          \* [Roots -> [Paths -> blobs]]
    Steps,          \* pairs <<parent root, root>> of state transitions
    RootPath,
    MaxDiffLayers,  \* maxDiffLayers
    SyncRoots,      \* roots state sync may end at
    BufferSizes,    \* limits of the node buffer, in nodes
    MaxLayers,      \* bound on layer objects
    MaxStarts       \* bound on starts

VARIABLES
    running,
    readOnly,
    waitSync,
    objs,       \* layer objects: [kind, root, id, parent, nodes, stale]
    tree,       \* layerTree.layers: [roots -> objects]
    buffer,     \* the node buffer of the live disk layer: [layers, nodes, limit]
    cleans,     \* the clean cache
    kv,         \* the key-value store: [nodes, id]
    journal,    \* the journal in it
    taken,      \* the layer a call of Journal looked up, 0 if there is none
    failed,     \* the last commit could not be flushed
    strayed,    \* a layer whose disk layer is stale was built on or committed
    starts

memVars == <<objs, tree, buffer, cleans>>
pathVars == <<running, readOnly, waitSync, memVars, kv, journal, taken, failed, strayed, starts>>

Paths == DOMAIN Nodes[EmptyRoot]
NoNodes == [p \in {} |-> ""]
Absent == "absent"
Unexpected == "unexpected node"
Stale == "stale"
NoJournal == [disk |-> "", root |-> "", id |-> 0, nodes |-> NoNodes, diffs |-> <<>>]

\* The nodes a transition hands over.
Dirty(from, to) == [p \in {q \in Paths : Nodes[from][q] # Nodes[to][q]} |-> Nodes[to][p]]

Overlay(f, g) == [p \in DOMAIN f \cup DOMAIN g |-> IF p \in DOMAIN g THEN g[p] ELSE f[p]]

DiskLayer(root, id) ==
    [kind |-> "disk", root |-> root, id |-> id, parent |-> 0, nodes |-> NoNodes, stale |-> FALSE]

\* newDiffLayer
DiffLayer(parent, root, id, nodes) ==
    [kind |-> "diff", root |-> root, id |-> id, parent |-> parent, nodes |-> nodes, stale |-> FALSE]

\* bottom: any layer leads to the disk layer below it.
RECURSIVE Below(_, _)
Below(os, o) == IF os[o].kind = "disk" THEN o ELSE Below(os, os[o].parent)

bottom == {Below(objs, o) : o \in Range(tree)}

-----------------------------------------------------------------------------
(* Reading *)

\* diskLayer.Node with the expected hash: buffer, clean cache, database.
DiskNode(o, p, hash) ==
    IF objs[o].stale THEN Stale
    ELSE IF p \in DOMAIN buffer.nodes
    THEN IF buffer.nodes[p] = hash THEN hash ELSE Unexpected
    ELSE IF p \in DOMAIN cleans /\ cleans[p] = hash THEN hash
    ELSE IF kv.nodes[p] = hash THEN hash ELSE Unexpected

\* diffLayer.node
RECURSIVE Node(_, _, _)
Node(o, p, hash) ==
    IF objs[o].kind = "disk" THEN DiskNode(o, p, hash)
    ELSE IF p \in DOMAIN objs[o].nodes
    THEN IF objs[o].nodes[p] = hash THEN hash ELSE Unexpected
    ELSE Node(objs[o].parent, p, hash)

\* A read that reaches the database leaves the node in the clean cache.
PathRead(r, p) ==
    LET d == Below(objs, tree[r])
    IN /\ running
       /\ Node(tree[r], p, Nodes[r][p]) = kv.nodes[p]
       /\ kv.nodes[p] # Absent
       /\ ~objs[d].stale
       /\ p \notin DOMAIN buffer.nodes
       /\ cleans' = Overlay(cleans, [q \in {p} |-> kv.nodes[p]])
       /\ UNCHANGED <<strayed, running, readOnly, waitSync, objs, tree, buffer, kv, journal, taken,
                      failed, starts>>

-----------------------------------------------------------------------------
(* Merging diff layers into the disk layer *)

\* A buffer that forgets to count from zero again.
MutFlush(st, id, force) ==
    IF Cardinality(DOMAIN st.buffer.nodes) <= st.buffer.limit /\ ~force THEN st
    ELSE IF st.kv.id + st.buffer.layers # id THEN [st EXCEPT !.failed = TRUE]
    ELSE [st EXCEPT !.kv = [nodes |-> Overlay(@.nodes, st.buffer.nodes), id |-> id],
                    !.buffer = [@ EXCEPT !.nodes = NoNodes]]

\* nodebuffer.flush: everything in one batch, if the persisted id and the layers
\* in the buffer lead to the wanted id.
Flush(st, id, force) ==
    IF Cardinality(DOMAIN st.buffer.nodes) <= st.buffer.limit /\ ~force THEN st
    ELSE IF st.kv.id + st.buffer.layers # id THEN [st EXCEPT !.failed = TRUE]
    ELSE LET written == st.buffer.nodes
             kept == {p \in DOMAIN st.cleans : p \notin DOMAIN written \/ written[p] # Absent}
             fresh == {p \in DOMAIN written : written[p] # Absent}
         IN [st EXCEPT
               !.kv = [nodes |-> Overlay(@.nodes, written), id |-> id],
               !.cleans = Overlay(Restrict(@, kept), Restrict(written, fresh)),
               !.buffer = [@ EXCEPT !.layers = 0, !.nodes = NoNodes]]

\* A buffer that keeps the node it has.
MutCommitLayer(st, o, force) ==
    LET bottomMost == st.objs[o]
    IN Flush([st EXCEPT
            !.objs = Append([@ EXCEPT ![bottomMost.parent].stale = TRUE],
                            DiskLayer(bottomMost.root, bottomMost.id)),
            !.buffer = [@ EXCEPT !.layers = @ + 1, !.nodes = Overlay(bottomMost.nodes, @)],
            !.base = Len(st.objs) + 1], bottomMost.id, force)

\* diskLayer.commit: the disk layer is stale from here on, also if the flush fails.
CommitLayer(st, o, force) ==
    LET bottomMost == st.objs[o]
        base == Len(st.objs) + 1
        merged == [st EXCEPT
            !.objs = Append([@ EXCEPT ![bottomMost.parent].stale = TRUE],
                            DiskLayer(bottomMost.root, bottomMost.id)),
            !.buffer = [@ EXCEPT !.layers = @ + 1, !.nodes = Overlay(@, bottomMost.nodes)],
            !.base = base]
    IN Flush(merged, bottomMost.id, force)

\* diffLayer.persist: the layers below first, every one linked to the new disk
\* layer before it is merged in turn.
RECURSIVE Persist(_, _, _)
Persist(st, o, force) ==
    LET parent == st.objs[o].parent
    IN IF st.objs[parent].kind = "disk" THEN CommitLayer(st, o, force)
       ELSE LET lower == Persist(st, parent, force)
            IN IF lower.failed THEN lower
               ELSE CommitLayer([lower EXCEPT !.objs[o].parent = lower.base], o, force)

Memory == [objs |-> objs, buffer |-> buffer, cleans |-> cleans, kv |-> kv,
           failed |-> FALSE, base |-> 0]

Assign(st) ==
    /\ objs' = st.objs /\ buffer' = st.buffer /\ cleans' = st.cleans
    /\ kv' = st.kv /\ failed' = st.failed

ParentRoot(os, o) == os[os[o].parent].root

\* The layers of the tree above root r, by the roots of their parents.
RECURSIVE Descendants(_, _, _)
Descendants(os, t, S) ==
    LET more == {r \in DOMAIN t : os[t[r]].kind = "diff" /\ ParentRoot(os, t[r]) \in S} \ S
    IN IF more = {} THEN S ELSE Descendants(os, t, S \cup more)

\* cap(root, 0): the children of the flattened layer are linked to the new disk
\* layer and kept with all that is above them.
CapAll(os, t, o) ==
    LET st == Persist([Memory EXCEPT !.objs = os], o, TRUE)
        root == os[o].root
        children == {c \in Range(t) : st.objs[c].kind = "diff" /\ ParentRoot(st.objs, c) = root}
        kept == Descendants(st.objs, t, {root}) \ {root}
    IN IF st.failed THEN Assign(st) /\ tree' = t
       ELSE /\ Assign([st EXCEPT !.objs =
                         [c \in DOMAIN @ |-> IF c \in children
                                             THEN [@[c] EXCEPT !.parent = st.base] ELSE @[c]]])
            /\ tree' = [r \in kept \cup {root} |-> IF r = root THEN st.base ELSE t[r]]

\* The layer n diff layers below o, 0 if the disk layer comes first.
RECURSIVE Dive(_, _, _)
Dive(os, o, n) ==
    IF n = 0 THEN o
    ELSE IF os[os[o].parent].kind = "disk" THEN 0 ELSE Dive(os, os[o].parent, n - 1)

\* cap(root, layers): what lies below the bottom-most permitted layer is merged;
\* that layer is linked to the new disk layer, and what hangs on the root of the
\* stale disk layer is removed.
Cap(os, t, o, layers) ==
    LET diff == Dive(os, o, layers - 1)
        parent == IF diff = 0 THEN 0 ELSE os[diff].parent
    IN IF diff = 0 \/ os[parent].kind = "disk"
       THEN Assign([Memory EXCEPT !.objs = os]) /\ tree' = t
       ELSE LET st == Persist([Memory EXCEPT !.objs = os], parent, FALSE)
                linked == [st.objs EXCEPT ![diff].parent = st.base]
                t2 == Overlay(t, [r \in {os[parent].root} |-> st.base])
                gone == {r \in DOMAIN t2 : linked[t2[r]].kind = "disk" /\ linked[t2[r]].stale}
            IN IF st.failed THEN Assign(st) /\ tree' = t
               ELSE /\ Assign([st EXCEPT !.objs = linked])
                    /\ tree' = Restrict(t2, DOMAIN t2 \ Descendants(linked, t2, gone))

modifyAllowed == running /\ ~readOnly /\ ~waitSync
Bounded == Len(objs') <= MaxLayers

\* Update: layerTree.add and cap.  A root that is there already gets a new layer.
Update(from, to) ==
    /\ modifyAllowed
    /\ <<from, to>> \in Steps
    /\ from \in DOMAIN tree
    /\ strayed' = objs[Below(objs, tree[from])].stale
    /\ LET o == Len(objs) + 1
       IN Cap(Append(objs, DiffLayer(tree[from], to, objs[tree[from]].id + 1, Dirty(from, to))),
              Overlay(tree, [r \in {to} |-> o]), o, MaxDiffLayers)
    /\ Bounded
    /\ UNCHANGED <<running, readOnly, waitSync, journal, taken, starts>>

\* Commit
CommitRoot(r) ==
    /\ modifyAllowed
    /\ r \in DOMAIN tree
    /\ objs[tree[r]].kind = "diff"
    /\ strayed' = objs[Below(objs, tree[r])].stale
    /\ CapAll(objs, tree, tree[r])
    /\ Bounded
    /\ UNCHANGED <<running, readOnly, waitSync, journal, taken, starts>>

\* SetBufferSize flushes when the new limit is exceeded; a stale layer refuses.
SetBufferSize(n) ==
    /\ running
    /\ \E d \in bottom :
         IF objs[d].stale THEN UNCHANGED <<memVars, kv, failed>>
         ELSE /\ Assign(Flush([Memory EXCEPT !.buffer.limit = n], objs[d].id, FALSE))
              /\ UNCHANGED tree
    /\ UNCHANGED <<strayed, running, readOnly, waitSync, journal, taken, starts>>

\* Disable.  Where bottom leads to a layer that is stale already, markStale panics
\* instead and the process stops.
Disable ==
    /\ running /\ ~readOnly /\ ~waitSync
    /\ waitSync' = TRUE
    /\ \E d \in bottom : ~objs[d].stale /\ objs' = [objs EXCEPT ![d].stale = TRUE]
    /\ UNCHANGED <<strayed, running, readOnly, tree, buffer, cleans, kv, journal, taken, failed, starts>>

\* State sync, outside this package, replaces the persistent state; Enable then
\* starts from it with id 0 and leaves the journal where it is.
Enable(r) ==
    /\ running /\ ~readOnly /\ waitSync
    /\ kv' = [nodes |-> Nodes[r], id |-> 0]
    /\ objs' = Append(objs, DiskLayer(r, 0))
    /\ Bounded
    /\ tree' = [x \in {r} |-> Len(objs) + 1]
    /\ buffer' = [buffer EXCEPT !.layers = 0, !.nodes = NoNodes]
    /\ cleans' = NoNodes
    /\ waitSync' = FALSE
    /\ UNCHANGED <<strayed, running, readOnly, journal, taken, failed, starts>>

-----------------------------------------------------------------------------
(* The journal *)

\* The root of what is on disk, as a start and as Journal compute it.  Without a
\* root node Journal hashes the empty string, which no root equals.
DiskRoot == IF kv.nodes[RootPath] = Absent THEN EmptyRoot
            ELSE CHOOSE r \in Roots : Nodes[r][RootPath] = kv.nodes[RootPath]
HashOfDisk == IF kv.nodes[RootPath] = Absent THEN "hash of nothing" ELSE DiskRoot

\* The diff layers below o, bottom-most first.
RECURSIVE DiffsBelow(_)
DiffsBelow(o) == IF objs[o].kind = "disk" THEN <<>> ELSE Append(DiffsBelow(objs[o].parent), o)

\* Journal looks its layer up before it takes the lock.  A journal no start would
\* read is not followed.
JournalTake(r) ==
    /\ running /\ taken = 0 /\ starts < MaxStarts
    /\ r \in DOMAIN tree
    /\ taken' = tree[r]
    /\ UNCHANGED <<strayed, running, readOnly, waitSync, memVars, kv, journal, failed, starts>>

JournalWrite ==
    LET base == Below(objs, taken)
    IN /\ running /\ taken # 0
       /\ taken' = 0
       /\ IF readOnly \/ objs[base].stale THEN UNCHANGED <<readOnly, journal>>
          ELSE /\ readOnly' = TRUE
               /\ journal' = [disk |-> HashOfDisk, root |-> objs[base].root, id |-> objs[base].id,
                              nodes |-> buffer.nodes,
                              diffs |-> [n \in DOMAIN DiffsBelow(taken) |->
                                           [root |-> objs[DiffsBelow(taken)[n]].root,
                                            nodes |-> objs[DiffsBelow(taken)[n]].nodes]]]
       /\ UNCHANGED <<strayed, running, waitSync, memVars, kv, failed, starts>>

\* Close
Close ==
    /\ running /\ ~readOnly
    /\ readOnly' = TRUE
    /\ cleans' = IF \E d \in bottom : ~objs[d].stale THEN NoNodes ELSE cleans
    /\ UNCHANGED <<strayed, running, waitSync, objs, tree, buffer, kv, journal, taken, failed, starts>>

\* A shutdown or a crash.  That state sync was under way is written nowhere.
Halt ==
    /\ running /\ ~waitSync
    /\ running' = FALSE
    /\ readOnly' = FALSE
    /\ objs' = <<>> /\ tree' = NoNodes
    /\ buffer' = [layers |-> 0, nodes |-> NoNodes, limit |-> 0] /\ cleans' = NoNodes
    /\ taken' = 0 /\ failed' = FALSE
    /\ UNCHANGED <<strayed, waitSync, kv, journal, starts>>

\* loadJournal: the journal must be about the root on disk and not be behind its id.
JournalFits == journal # NoJournal /\ journal.disk = DiskRoot /\ kv.id <= journal.id

\* New: loadLayers
Start(limit) ==
    /\ ~running
    /\ starts < MaxStarts
    /\ starts' = starts + 1
    /\ running' = TRUE
    /\ IF JournalFits
       THEN /\ objs' = <<DiskLayer(journal.root, journal.id)>> \o
                       [n \in DOMAIN journal.diffs |->
                          DiffLayer(n, journal.diffs[n].root, journal.id + n, journal.diffs[n].nodes)]
            /\ tree' = [r \in {objs'[n].root : n \in DOMAIN objs'} |->
                          CHOOSE n \in DOMAIN objs' : objs'[n].root = r]
            /\ buffer' = [layers |-> journal.id - kv.id, nodes |-> journal.nodes, limit |-> limit]
       ELSE /\ objs' = <<DiskLayer(DiskRoot, kv.id)>>
            /\ tree' = [r \in {DiskRoot} |-> 1]
            /\ buffer' = [layers |-> 0, nodes |-> NoNodes, limit |-> limit]
    /\ UNCHANGED <<strayed, readOnly, waitSync, cleans, kv, journal, taken, failed>>

-----------------------------------------------------------------------------
pathInit ==
    /\ running = FALSE /\ readOnly = FALSE /\ waitSync = FALSE
    /\ objs = <<>> /\ tree = NoNodes
    /\ buffer = [layers |-> 0, nodes |-> NoNodes, limit |-> 0]
    /\ cleans = NoNodes
    /\ kv = [nodes |-> Nodes[EmptyRoot], id |-> 0]
    /\ journal = NoJournal
    /\ taken = 0 /\ failed = FALSE /\ strayed = FALSE /\ starts = 0

\* A tree that is corrupted by a stray commit is not followed any further.
pathNext ==
    /\ ~strayed
    /\ \/ \E from, to \in Roots : Update(from, to)
       \/ \E r \in Roots : CommitRoot(r) \/ JournalTake(r)
       \/ \E r \in SyncRoots : Enable(r)
       \/ \E r \in DOMAIN tree, p \in Paths : PathRead(r, p)
       \/ \E n \in BufferSizes : SetBufferSize(n) \/ Start(n)
       \/ Disable \/ JournalWrite \/ Close \/ Halt

-----------------------------------------------------------------------------
(* Properties *)

\* Every layer of the tree that rests on a live disk layer resolves every node of
\* its state, through buffers that were flushed and caches that outlive the layer
\* they were filled through; and no holder of a layer the tree has dropped is
\* given another state's node: it gets its own or an error (diskLayer.Node,
\* diffLayer.node, cap).
LayersResolve ==
    running /\ ~strayed =>
        \A o \in DOMAIN objs, p \in Paths :
            LET got == Node(o, p, Nodes[objs[o].root][p])
            IN /\ got # Unexpected
               /\ ~objs[Below(objs, o)].stale => got = Nodes[objs[o].root][p]

\* Whenever the process stops, what it finds at the next start fits together: the
\* persistent nodes are one whole state, the buffered layers lead from the
\* persisted id to the disk layer's id so that no commit fails, and a journal the
\* start would load describes every state it lists (flush, loadJournal, Enable).
RestartIsSound ==
    /\ failed => strayed
    /\ ~waitSync => kv.nodes = Nodes[DiskRoot]
    /\ running /\ ~waitSync /\ ~strayed => \A d \in bottom : objs[d].stale \/ kv.id + buffer.layers = objs[d].id
    /\ ~waitSync /\ JournalFits =>
         LET states == [n \in 0..Len(journal.diffs) |->
                          FoldLeft(LAMBDA f, d : Overlay(f, d.nodes), Overlay(kv.nodes, journal.nodes),
                                   SubSeq(journal.diffs, 1, n))]
         IN /\ states[0] = Nodes[journal.root]
            /\ \A n \in DOMAIN journal.diffs : states[n] = Nodes[journal.diffs[n].root]

\* The database resolves every state it offers, now and after a restart.
PathStateIsSound == LayersResolve /\ RestartIsSound

\* cap promises to "remove any layer that is stale or links into a stale layer".
LinksAreLive == running /\ ~waitSync => \A r \in DOMAIN tree : ~objs[Below(objs, tree[r])].stale

\* Journal is "meant to be used during shutdown to persist the layer": what it
\* wrote is loaded at the next start.
JournalComesBack == ~running /\ journal # NoJournal => journal.disk = DiskRoot
====
