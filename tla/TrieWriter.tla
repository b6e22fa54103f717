----------------------------- MODULE TrieWriter -----------------------------
(***************************************************************************)
(* State tries at the granularity of state roots: the reference-counting   *)
(* trie database (triedb/hashdb) and the two TrieWriters of                *)
(* core/state_manager.go that decide when a root is dropped or written.    *)
(*                                                                         *)
(* A trie database is a record                                             *)
(*     dirty  the roots cached in memory,                                  *)
(*     refs   the number of references to a cached root from the meta-root,*)
(*     disk   the roots whose whole trie is on disk.                       *)
(* The operators are functions from a database to a database (or to the    *)
(* set of databases the operation may produce); the processes that call    *)
(* them are in BlockChain.                                                 *)
(***************************************************************************)
EXTENDS BlockTree, Sequences

CONSTANTS
    Pruning,                \* CacheConfig.Pruning
    CommitInterval,         \* CacheConfig.CommitInterval
    StateHistory,           \* CacheConfig.StateHistory: the size of the tip buffer
    RootReferencedOnUpdate  \* does triedb.Update reference the new root?

ASSUME TrieWriterAssumption ==
    /\ Pruning \in BOOLEAN
    /\ RootReferencedOnUpdate \in BOOLEAN
    /\ CommitInterval \in Nat \ {0}    \* config.go: Pruning requires both
    /\ StateHistory \in Nat \ {0}

EmptyTrieDB(onDisk) ==
    [dirty |-> {}, refs |-> [r \in Roots |-> 0], disk |-> onDisk]

HasState(t, r) == r \in t.dirty \cup t.disk

Update(t, r) ==
    LET count == IF RootReferencedOnUpdate THEN t.refs[r] + 1 ELSE t.refs[r] IN
    [dirty |-> t.dirty \cup {r},
     refs  |-> [t.refs EXCEPT ![r] = count],
     disk  |-> t.disk]

\* A cached root whose count reaches zero is dropped from memory.
MutDereference(t, r) == [t EXCEPT !.refs[r] = 0, !.dirty = @ \ {r}]
Dereference(t, r) ==
    LET left == IF t.refs[r] > 0 THEN t.refs[r] - 1 ELSE 0 IN
    IF r \notin t.dirty
    THEN t
    ELSE [t EXCEPT !.refs[r] = left,
                   !.dirty = IF left = 0 THEN @ \ {r} ELSE @]

\* Writing cached roots to disk uncaches them, whatever their count.
Flush(t, S) ==
    LET written == S \cap t.dirty IN
    [dirty |-> t.dirty \ written,
     refs  |-> [r \in Roots |-> IF r \in written THEN 0 ELSE t.refs[r]],
     disk  |-> t.disk \cup written]

\* Commit of a root that is not cached is a no-op: it was committed before.
Commit(t, r) == Flush(t, {r})

\* Cap writes the oldest nodes until the cache is small enough; which roots
\* that covers depends on sizes, so any set of cached roots may go.
Cap(t) == {Flush(t, S) : S \in SUBSET t.dirty}

(***************************************************************************)
(* BoundedBuffer, by its contents: the last StateHistory roots accepted,   *)
(* oldest first.                                                           *)
(***************************************************************************)
TipInsert(tips, r) ==
    Append(IF Len(tips) = StateHistory THEN Tail(tips) ELSE tips, r)

TipEvict(t, tips) ==
    IF Len(tips) = StateHistory THEN Dereference(t, Head(tips)) ELSE t

----------------------------------------------------------------------------
(* TrieWriter *)

\* InsertTrie caps the cache when it exceeds its memory limit.
InsertTrie(t) == IF Pruning THEN Cap(t) ELSE {t}

\* The root leaves the tip buffer StateHistory blocks later; every
\* CommitInterval blocks it is written to disk, otherwise the cache may be
\* capped on the way to the next commit.
AcceptTrie(t, tips, b) ==
    IF ~Pruning THEN {Commit(t, Root[b])}
    ELSE IF Height[b] % CommitInterval = 0
         THEN {Commit(TipEvict(t, tips), Root[b])}
         ELSE Cap(TipEvict(t, tips))

AcceptTips(tips, b) == IF Pruning THEN TipInsert(tips, Root[b]) ELSE tips

RejectTrie(t, b) == Dereference(t, Root[b])

MutShutdown(t, tips) == t
Shutdown(t, tips) ==
    IF Pruning /\ tips # <<>> THEN Commit(t, tips[Len(tips)]) ELSE t
=============================================================================
