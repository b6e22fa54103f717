-------------------------- MODULE BlockChainProofs --------------------------
(***************************************************************************)
(* For every block tree and every configuration: the canonical chain never *)
(* orphans an accepted block, and the acceptor's backlog is the path from  *)
(* the acceptor tip to the last accepted block; and BlockChain implements  *)
(* FinalityLog.                                                            *)
(*                                                                         *)
(* Without equivocation, and when the trie database references a root that *)
(* it updates, what the consensus engine may call next succeeds.  The      *)
(* state of every processing block, of the head and of the last accepted   *)
(* block is there, and a verified child of the last accepted block can be  *)
(* accepted.  Also: a clean stop leaves the last accepted state on disk,   *)
(* and every staged request reaches shared memory exactly once.            *)
(***************************************************************************)
EXTENDS BlockChainProps, TLAPS

\* A leaf that names no prover is tried with each of these.
USE ZenonT(3), SMTT(20), ZenonT(20), Z3T(20)

----------------------------------------------------------------------------
(* Paths *)

\* Heights are naturals and every height at most that of a block is a row.
LEMMA HeightNat ==
    ASSUME NEW b \in Block
    PROVE  Height[b] \in Nat /\ 0..Height[b] \subseteq Heights
  <1>1. Height[b] \in Nat BY GenesisAssumption
  <1>2. ASSUME NEW h \in 0..Height[b] PROVE h \in Heights
    <2>1. Path[b][h] \in Block /\ Height[Path[b][h]] = h
          BY <1>1, PathAssumption
    <2> QED BY <2>1 DEF Heights
  <1> QED BY <1>1, <1>2

\* A block on the path of b is a block of its height, with a prefix of the path.
LEMMA PathPrefix ==
    ASSUME NEW b \in Block, NEW h \in 0..Height[b]
    PROVE  /\ Path[b][h] \in Block
           /\ Height[Path[b][h]] = h
           /\ \A k \in 0..h : Path[Path[b][h]][k] = Path[b][k]
           /\ OnPath(Path[b][h], b)
  BY PathAssumption, HeightNat DEF OnPath

\* The path of a child is its parent's path and the child.
LEMMA ChildPath ==
    ASSUME NEW b \in Block, Parent(b) \in Block
    PROVE  /\ Height[b] = Height[Parent(b)] + 1
           /\ \A h \in 0..Height[Parent(b)] : Path[b][h] = Path[Parent(b)][h]
           /\ Path[b][Height[b]] = b
  <1>1. b # Genesis /\ Parent(b) = Path[b][Height[b] - 1]
        BY NoBlockAssumption DEF Parent
  <1>2. Height[b] \in Nat /\ Height[b] # 0
        BY <1>1, HeightNat, GenesisAssumption
  <1>3. Height[b] - 1 \in 0..Height[b]
        BY <1>2
  <1>4. Height[Parent(b)] = Height[b] - 1
        BY <1>1, <1>3, PathPrefix
  <1>5. \A h \in 0..(Height[b] - 1) : Path[Parent(b)][h] = Path[b][h]
        BY <1>1, <1>3, PathPrefix
  <1> QED BY <1>2, <1>4, <1>5, PathAssumption

\* OnPath is a partial order, and paths to comparable blocks agree.
LEMMA OnPathFacts ==
    ASSUME NEW a \in Block, NEW b \in Block, NEW c \in Block
    PROVE  /\ OnPath(a, a)
           /\ OnPath(a, b) /\ OnPath(b, c) => OnPath(a, c)
           /\ OnPath(a, b) => \A h \in 0..Height[a] : Path[b][h] = Path[a][h]
           /\ OnPath(a, b) /\ Height[a] = Height[b] => a = b
           /\ Parent(b) = a => OnPath(a, b)
  <1>1. OnPath(a, a)
        BY PathAssumption, HeightNat DEF OnPath
  <1>2. ASSUME OnPath(a, b) PROVE \A h \in 0..Height[a] : Path[b][h] = Path[a][h]
    <2>1. Height[a] \in 0..Height[b] /\ Path[b][Height[a]] = a
          BY <1>2, HeightNat DEF OnPath
    <2> QED BY <2>1, PathPrefix
  <1>3. ASSUME OnPath(a, b), OnPath(b, c) PROVE OnPath(a, c)
    <2>1. Height[b] \in 0..Height[c] /\ Path[c][Height[b]] = b
          BY <1>3, HeightNat DEF OnPath
    <2>2. Height[a] \in 0..Height[b] /\ Path[b][Height[a]] = a
          BY <1>3, HeightNat DEF OnPath
    <2>3. Path[b][Height[a]] = Path[c][Height[a]]
          BY <2>1, <2>2, PathPrefix
    <2> QED BY <2>1, <2>2, <2>3, HeightNat, SMTT(30) DEF OnPath
  <1>4. ASSUME OnPath(a, b), Height[a] = Height[b] PROVE a = b
        BY <1>4, PathAssumption DEF OnPath
  <1>5. ASSUME Parent(b) = a PROVE OnPath(a, b)
    <2>1. Height[b] = Height[a] + 1 /\ Path[b][Height[a]] = Path[a][Height[a]]
          BY <1>5, ChildPath, HeightNat
    <2> QED BY <2>1, HeightNat, PathAssumption DEF OnPath
  <1> QED BY <1>1, <1>2, <1>3, <1>4, <1>5

----------------------------------------------------------------------------
(* Finality, of the log that BlockChain implements *)

accepted == IF Running THEN lastAccepted ELSE BootBlock
processed == IF status = "up" THEN acceptorTip ELSE BootBlock

\* The log's steps keep finality, whatever the concrete step.
LEMMA LogOneChain ==
    ASSUME accepted \in Block, processed \in Block, BootBlock \in Block,
           finalized \subseteq Block, FinalChain, [Log!Next]_(Log!vars)
    PROVE  FinalChain'
  <1>1. /\ accepted \in Block /\ processed \in Block /\ BootBlock \in Block
        /\ finalized \subseteq Block
        OBVIOUS
  <1>3. /\ \A c \in finalized : Height[c] <= Height[accepted] => OnPath(c, accepted)
        /\ OnPath(BootBlock, accepted) /\ OnPath(processed, accepted)
        BY DEF FinalChain, Log!OneChain, Log!OnPath, OnPath, accepted, processed
  <1> DEFINE Goal ==
          /\ \A c \in finalized' : Height[c] <= Height[accepted'] => OnPath(c, accepted')
          /\ OnPath(BootBlock', accepted') /\ OnPath(processed', accepted')
  <1>4. SUFFICES Goal
        BY DEF FinalChain, Log!OneChain, Log!OnPath, OnPath, accepted, processed
  <1>5. ASSUME NEW b \in Block, Log!Finalize(b) PROVE Goal
    <2>1. /\ Parent(b) = accepted /\ accepted' = b /\ finalized' = finalized \cup {b}
          /\ processed' = processed /\ BootBlock' = BootBlock
          /\ \A c \in finalized : Height[c] = Height[b] => c = b
          BY <1>5 DEF Log!Finalize, Log!Parent, Parent, accepted, processed
    <2>2. OnPath(accepted, b) /\ Height[b] = Height[accepted] + 1
          BY <2>1, <1>1, OnPathFacts, ChildPath
    <2>3. ASSUME NEW c \in finalized, Height[c] <= Height[b] PROVE OnPath(c, b)
      <3>1. Height[c] <= Height[accepted] \/ c = b
            BY <2>1, <2>2, <2>3, <1>1, HeightNat
      <3>2. OnPath(b, b) /\ c \in Block
            BY <1>1, OnPathFacts
      <3>3. CASE Height[c] <= Height[accepted]
        <4>1. OnPath(c, accepted)
              BY <3>3, <1>3
        <4> QED BY <4>1, <3>2, <2>2, <1>1, OnPathFacts
      <3>4. CASE c = b
            BY <3>4, <3>2
      <3> QED BY <3>1, <3>3, <3>4
    <2>4. OnPath(b, b)
          BY OnPathFacts
    <2>5. OnPath(BootBlock, b) /\ OnPath(processed, b)
          BY <2>2, <1>1, <1>3, OnPathFacts
    <2>6. ASSUME NEW c \in finalized', Height[c] <= Height[accepted']
          PROVE  OnPath(c, accepted')
      <3>1. c \in finalized \/ c = b
            BY <2>1, <2>6
      <3>2. Height[c] <= Height[b]
            BY <2>1, <2>6
      <3> QED BY <3>1, <3>2, <2>1, <2>3, <2>4
    <2> QED BY <2>1, <2>5, <2>6
  <1>6. CASE Log!Persist
    <2>1. BootBlock' = accepted /\ UNCHANGED <<accepted, processed, finalized>>
          BY <1>6 DEF Log!Persist, accepted, processed
    <2> QED BY <2>1, <1>1, <1>3, OnPathFacts
  <1>7. CASE Log!Process
    <2>1. /\ Height[processed] < Height[accepted]
          /\ processed' = Path[accepted][Height[processed] + 1]
          /\ UNCHANGED <<accepted, BootBlock, finalized>>
          BY <1>7 DEF Log!Process, accepted, processed
    <2>2. Height[processed] + 1 \in 0..Height[accepted]
          BY <2>1, <1>1, HeightNat
    <2>3. OnPath(processed', accepted)
          BY <2>1, <2>2, <1>1, PathPrefix
    <2> QED BY <2>1, <2>3, <1>3
  <1>8. CASE Log!Restart
    <2>1. accepted' = BootBlock /\ processed' = BootBlock
          /\ UNCHANGED <<BootBlock, finalized>>
          BY <1>8 DEF Log!Restart, accepted, processed
    <2>2. ASSUME NEW c \in finalized, Height[c] <= Height[BootBlock]
          PROVE  OnPath(c, BootBlock)
      <3>1. /\ Height[c] \in Nat /\ Height[BootBlock] \in Nat /\ Height[accepted] \in Nat
            /\ Height[BootBlock] <= Height[accepted]
            BY <1>1, <1>3, HeightNat DEF OnPath
      <3>2. OnPath(c, accepted)
            BY <3>1, <2>2, <1>3
      <3>3. Path[accepted][Height[c]] = Path[BootBlock][Height[c]]
            BY <3>1, <2>2, <1>1, <1>3, OnPathFacts
      <3> QED BY <3>2, <3>3, <2>2 DEF OnPath
    <2> QED BY <2>1, <2>2, <1>1, OnPathFacts
  <1>9. CASE UNCHANGED Log!vars
    <2>1. UNCHANGED <<accepted, processed, BootBlock, finalized>>
          BY <1>9 DEF Log!vars, accepted, processed
    <2> QED BY <2>1, <1>3
  <1> QED BY <1>5, <1>6, <1>7, <1>8, <1>9 DEF Log!Next

\* So does the start of the chain.
LEMMA LogOneChainInit == Init => FinalChain
  <1> SUFFICES ASSUME Init PROVE FinalChain
      OBVIOUS
  <1>1. OnPath(Genesis, Genesis)
        BY GenesisAssumption, OnPathFacts
  <1> QED BY <1>1
          DEF Init, FinalChain, Log!OneChain, Log!OnPath, OnPath, Running, BootBlock

----------------------------------------------------------------------------
(* Canonical rows *)

NoHole(rows) ==
    \A h, k \in Heights : k <= h /\ rows[h] # NoBlock => rows[k] # NoBlock

\* Rows are naturals.
LEMMA HeightsNat == Heights \subseteq Nat
  BY HeightNat DEF Heights

\* The rows of a path have no hole and are rows.
LEMMA PathRowsFacts ==
    ASSUME NEW b \in Block
    PROVE  PathRows(b) \in Rows /\ NoHole(PathRows(b))
  <1>1. \A h \in Heights : h <= Height[b] => h \in 0..Height[b]
        BY HeightsNat, HeightNat
  <1>2. \A h \in Heights : h <= Height[b] => Path[b][h] \in Block
        BY <1>1, PathPrefix
  <1>3. PathRows(b) \in Rows
        BY <1>2 DEF PathRows, Rows, BlockOrNone
  <1>4. ASSUME NEW h \in Heights, NEW k \in Heights, k <= h,
               PathRows(b)[h] # NoBlock
        PROVE  PathRows(b)[k] # NoBlock
    <2>1. h <= Height[b]
          BY <1>4 DEF PathRows
    <2>2. k <= Height[b]
          BY <2>1, <1>4, HeightsNat, HeightNat
    <2> QED BY <2>2, <1>2, NoBlockAssumption DEF PathRows
  <1> QED BY <1>3, <1>4 DEF NoHole

\* setPreference(new) turns rows without a hole that agree with new's path
\* wherever reorg does not write into the rows of new's path.
LEMMA PreferenceRows ==
    ASSUME NEW old \in Block, NEW new \in Block, NEW rows \in Rows,
           NoHole(rows),
           \A h \in Heights : h <= Height[new] /\ h \notin AddedRows(old, new)
                              => rows[h] = Path[new][h],
           old = new \/ Parent(new) = old =>
              \A h \in Heights : h > Height[old] => rows[h] = NoBlock
    PROVE  SetPreferenceRows(rows, old, new) = PathRows(new)
  <1> DEFINE out == SetPreferenceRows(rows, old, new)
  <1>h. Height[old] \in Nat /\ Height[new] \in Nat /\ Height[new] \in Heights
        BY HeightNat
  <1>n. Path[new][Height[new]] = new
        BY PathAssumption
  <1>1. CASE old = new
    <2>1. AddedRows(old, new) = {}
          BY <1>1, <1>h DEF AddedRows
    <2>2. \A h \in Heights : rows[h] = PathRows(new)[h]
          BY <1>1, <2>1, <1>h, HeightsNat DEF PathRows
    <2> QED BY <1>1, <2>2 DEF SetPreferenceRows, Rows, PathRows
  <1>2. CASE old # new /\ Parent(new) = old
    <2>1. /\ Height[new] = Height[old] + 1
          /\ \A h \in 0..Height[old] : Path[new][h] = Path[old][h]
          BY <1>2, ChildPath
    <2>2. out = WriteHead(rows, new)
          BY <1>2 DEF SetPreferenceRows
    <2>3. ASSUME NEW h \in Heights PROVE out[h] = PathRows(new)[h]
      <3>1. h \in Nat BY HeightsNat
      <3>2. CASE h = Height[new]
            BY <3>2, <2>2, <1>h, <1>n DEF WriteHead, Rows, PathRows
      <3>3. CASE h < Height[new]
        <4>1. h \notin AddedRows(old, new)
              BY <3>1, <3>3, <2>1, <1>h DEF AddedRows
        <4> QED BY <4>1, <3>1, <3>3, <2>2, <1>h DEF WriteHead, Rows, PathRows
      <3>4. CASE h > Height[new]
            BY <3>4, <3>1, <2>1, <2>2, <1>2, <1>h DEF WriteHead, Rows, PathRows
      <3> QED BY <3>1, <3>2, <3>3, <3>4, <1>h
    <2> QED BY <2>2, <2>3 DEF WriteHead, Rows, PathRows
  <1>3. CASE old # new /\ Parent(new) # old
    <2>1. out = WriteHead(Reorg(rows, old, new), new)
          BY <1>3 DEF SetPreferenceRows
    <2>2. ASSUME NEW h \in Heights PROVE out[h] = PathRows(new)[h]
      <3>1. h \in Nat BY HeightsNat
      <3>2. CASE h = Height[new]
            BY <3>2, <2>1, <1>h, <1>n DEF WriteHead, Reorg, PathRows
      <3>3. CASE h < Height[new]
        <4>1. out[h] = Reorg(rows, old, new)[h]
              BY <2>1, <3>1, <3>3, <1>h DEF WriteHead, Reorg
        <4>2. h \notin RowsAbove(rows, new)
              BY <3>1, <3>3, <1>h DEF RowsAbove
        <4>3. Reorg(rows, old, new)[h] = Path[new][h]
              BY <4>2, <3>1, <3>3, <1>h DEF Reorg
        <4> QED BY <4>1, <4>3, <3>1, <3>3, <1>h DEF PathRows
      <3>4. CASE h > Height[new]
        <4>1. out[h] = Reorg(rows, old, new)[h]
              BY <2>1, <3>1, <3>4, <1>h DEF WriteHead, Reorg
        <4>2. h \notin AddedRows(old, new)
              BY <3>1, <3>4, <1>h DEF AddedRows
        <4>3. rows[h] # NoBlock => h \in RowsAbove(rows, new)
          <5> SUFFICES ASSUME rows[h] # NoBlock PROVE h \in RowsAbove(rows, new)
              OBVIOUS
          <5>1. \A k \in Heights : k <= h => rows[k] # NoBlock
                BY DEF NoHole
          <5> QED BY <5>1, <3>4 DEF RowsAbove
        <4>4. Reorg(rows, old, new)[h] = NoBlock
              BY <4>2, <4>3 DEF Reorg
        <4> QED BY <4>1, <4>4, <3>1, <3>4, <1>h DEF PathRows
      <3> QED BY <3>1, <3>2, <3>3, <3>4, <1>h
    <2> QED BY <2>1, <2>2 DEF WriteHead, Reorg, PathRows
  <1> QED BY <1>1, <1>2, <1>3

\* Blocks on both paths are below every row that reorg writes.
LEMMA AddedAbove ==
    ASSUME NEW a \in Block, NEW old \in Block, NEW new \in Block,
           OnPath(a, old), OnPath(a, new),
           NEW h \in AddedRows(old, new)
    PROVE  h \in 0..Height[new] /\ h > Height[a]
  <1>1. /\ \A k \in 0..Height[a] : Path[old][k] = Path[a][k]
        /\ \A k \in 0..Height[a] : Path[new][k] = Path[a][k]
        BY OnPathFacts
  <1>2. h \in 0..Height[new] /\ (h > Height[old] \/ Path[old][h] # Path[new][h])
        BY DEF AddedRows
  <1>3. Height[a] <= Height[old]
        BY DEF OnPath
  <1> QED BY <1>1, <1>2, <1>3, HeightNat

\* The finality guard of reorg: a preference that is allowed keeps the accepted
\* block on the path to the head.
LEMMA PreferenceKeepsAccepted ==
    ASSUME NEW a \in Block, NEW old \in Block, NEW new \in Block,
           OnPath(a, old), PreferenceAllowed(a, old, new)
    PROVE  OnPath(a, new)
  <1>1. CASE old = new
        BY <1>1
  <1>2. CASE Parent(new) = old
    <2>1. OnPath(old, new)
          BY <1>2, OnPathFacts
    <2> QED BY <2>1, OnPathFacts
  <1>3. CASE ReorgAllowed(a, old, new)
    <2>1. PICK h \in 0..Height[new] : /\ Height[a] <= h /\ h <= Height[old]
                                      /\ Path[old][h] = Path[new][h]
          BY <1>3 DEF ReorgAllowed
    <2>2. h \in 0..Height[old] /\ Height[a] \in 0..h
          BY <2>1, HeightNat
    <2>3. Path[old][Height[a]] = Path[new][Height[a]]
          BY <2>1, <2>2, PathPrefix
    <2> QED BY <2>1, <2>2, <2>3, HeightNat, SMTT(30) DEF OnPath
  <1> QED BY <1>1, <1>2, <1>3 DEF PreferenceAllowed

\* A preference change from rows that are the old head's path.
LEMMA PreferenceFromPath ==
    ASSUME NEW old \in Block, NEW new \in Block
    PROVE  SetPreferenceRows(PathRows(old), old, new) = PathRows(new)
  <1>1. PathRows(old) \in Rows /\ NoHole(PathRows(old))
        BY PathRowsFacts
  <1>2. ASSUME NEW h \in Heights, h <= Height[new], h \notin AddedRows(old, new)
        PROVE  PathRows(old)[h] = Path[new][h]
        BY <1>2, HeightsNat, HeightNat DEF AddedRows, PathRows
  <1>3. \A h \in Heights : h > Height[old] => PathRows(old)[h] = NoBlock
        BY HeightsNat, HeightNat DEF PathRows
  <1> QED BY <1>1, <1>2, <1>3, PreferenceRows

\* The rows of DiskInv, for the durable block b.
DiskRows(rows, head, b) ==
    /\ OnPath(b, head)
    /\ \A h \in Heights : h <= Height[b] => rows[h] = Path[b][h]
    /\ NoHole(rows)
    /\ head = b => \A h \in Heights : h > Height[b] => rows[h] = NoBlock

\* The rows of a path are good rows for every block on it.
LEMMA PathRowsAreDiskRows ==
    ASSUME NEW b \in Block, NEW head \in Block, OnPath(b, head)
    PROVE  DiskRows(PathRows(head), head, b)
  <1>1. \A h \in Heights : h <= Height[b] => h \in 0..Height[b] /\ h <= Height[head]
        BY HeightsNat, HeightNat DEF OnPath
  <1>2. \A h \in Heights : h <= Height[b] => PathRows(head)[h] = Path[b][h]
        BY <1>1, OnPathFacts DEF PathRows
  <1>3. \A h \in Heights : h > Height[head] => PathRows(head)[h] = NoBlock
        BY HeightsNat, HeightNat DEF PathRows
  <1> QED BY <1>2, <1>3, PathRowsFacts DEF DiskRows

\* A whole number of batches above a height is none, or at least one batch.
LEMMA WholeBatches ==
    ASSUME NEW k \in Nat, NEW n \in Nat, (k - n) % IndexBatchSize = 0
    PROVE  k <= n \/ k >= n + IndexBatchSize
  <1>1. IndexBatchSize \in Nat /\ IndexBatchSize > 0
        BY ChainAssumption
  <1>2. \A x, m \in Nat : 0 < x /\ x < m => x % m = x
        OBVIOUS
  <1>3. ASSUME ~(k <= n), ~(k >= n + IndexBatchSize) PROVE FALSE
    <2>1. k - n \in Nat /\ 0 < k - n /\ k - n < IndexBatchSize
          BY <1>1, <1>3
    <2> QED BY <2>1, <1>1, <1>2
  <1> QED BY <1>3

\* The writes of a reorg that a crash cuts short, as rows and head.
Cut(rows, old, new, h, k) ==
    LET added == AddedRows(old, new) \ {Height[new]}
        above == RowsAbove(rows, new)
        written == {r \in added : r <= h}
        deleted == {r \in above : r <= k}
    IN  /\ written # {} => h \in added
        /\ deleted # {} => written = added
        /\ deleted = above \/ deleted = {}

CutRows(rows, old, new, h, k) ==
    LET written == {r \in AddedRows(old, new) \ {Height[new]} : r <= h}
        deleted == {r \in RowsAbove(rows, new) : r <= k}
    IN  [r \in Heights |-> IF r \in written THEN Path[new][r]
                           ELSE IF r \in deleted THEN NoBlock ELSE rows[r]]

\* A reorg of the running chain leaves good rows wherever it is cut.
LEMMA CutKeepsDiskRows ==
    ASSUME NEW b \in Block, NEW old \in Block, NEW new \in Block,
           NEW rows \in Rows, NEW h \in Heights, NEW k \in Heights, NEW head,
           DiskRows(rows, old, b), OnPath(b, new),
           \A r \in Heights : r <= Height[old] /\ AddedRows(old, new) # {}
                              => rows[r] # NoBlock,
           Cut(rows, old, new, h, k),
           head = IF {r \in AddedRows(old, new) \ {Height[new]} : r <= h} = {}
                  THEN old ELSE Path[new][h]
    PROVE  /\ CutRows(rows, old, new, h, k) \in Rows
           /\ head \in Block
           /\ DiskRows(CutRows(rows, old, new, h, k), head, b)
  <1> DEFINE added == AddedRows(old, new) \ {Height[new]}
             above == RowsAbove(rows, new)
             written == {r \in added : r <= h}
             deleted == {r \in above : r <= k}
             out == CutRows(rows, old, new, h, k)
  <1>d. /\ written # {} => h \in added
        /\ deleted # {} => written = added
        /\ deleted = above \/ deleted = {}
        BY DEF Cut
  <1>o. out = [r \in Heights |-> IF r \in written THEN Path[new][r]
                                 ELSE IF r \in deleted THEN NoBlock ELSE rows[r]]
        BY DEF CutRows
  <1>p. head = IF written = {} THEN old ELSE Path[new][h]
        OBVIOUS
  <1>1. Height[b] \in Nat /\ Height[old] \in Nat /\ Height[new] \in Nat
        /\ Height[b] <= Height[new]
        BY HeightNat DEF OnPath
  <1>2. \A r \in added : r \in 0..Height[new] /\ r > Height[b] /\ r < Height[new]
        BY AddedAbove, <1>1 DEF DiskRows
  <1>3. \A r \in added : /\ Path[new][r] \in Block /\ Height[Path[new][r]] = r
                         /\ Path[new][r] # NoBlock
        BY <1>2, PathPrefix, NoBlockAssumption
  <1>4. \A r \in above : r > Height[new] /\ r \in Heights
        BY DEF RowsAbove
  <1> HIDE DEF added, above, written, deleted, out
  <1>5. \A r \in written : r \in added /\ r <= h
        BY DEF written
  <1>6. \A r \in deleted : r \in above
        BY DEF deleted
  <1>7. out \in Rows
        BY <1>o, <1>3, <1>5 DEF Rows, BlockOrNone
  <1>8. head \in Block /\ (head = b => written = {} /\ old = b)
    <2>1. CASE written = {}
          BY <2>1, <1>p
    <2>2. CASE written # {}
          BY <2>2, <1>p, <1>d, <1>2, <1>3, <1>1
    <2> QED BY <2>1, <2>2
  <1>9. OnPath(b, head)
    <2>1. CASE written = {}
          BY <2>1, <1>p DEF DiskRows
    <2>2. CASE written # {}
      <3>1. h \in 0..Height[new] /\ Height[b] <= h /\ head = Path[new][h]
            BY <2>2, <1>p, <1>d, <1>2, <1>1
      <3>2. Path[head][Height[b]] = Path[new][Height[b]] /\ Height[head] = h
            BY <3>1, <1>1, PathPrefix
      <3> QED BY <3>1, <3>2 DEF OnPath
    <2> QED BY <2>1, <2>2
  <1>10. ASSUME NEW r \in Heights, r <= Height[b] PROVE out[r] = Path[b][r]
    <2>1. r \notin written /\ r \notin deleted
          BY <1>10, <1>5, <1>6, <1>2, <1>4, <1>1, HeightsNat
    <2> QED BY <2>1, <1>10, <1>o DEF DiskRows
  <1>11. ASSUME head = b, NEW r \in Heights, r > Height[b] PROVE out[r] = NoBlock
        BY <1>11, <1>8, <1>o DEF DiskRows
  <1>12. ASSUME NEW r \in Heights, NEW q \in Heights, q <= r, out[r] # NoBlock
         PROVE  out[q] # NoBlock
    <2>0. r \in Nat /\ q \in Nat
          BY HeightsNat
    <2>1. CASE q \in written
          BY <2>1, <1>o, <1>3, <1>5
    <2>2. CASE q \notin written /\ q \in deleted
      <3>1. q > Height[new] /\ r > Height[new] /\ r \notin written
            BY <2>2, <2>0, <1>12, <1>4, <1>6, <1>2, <1>5, <1>1
      <3>2. rows[r] # NoBlock /\ r \notin deleted
            BY <3>1, <1>12, <1>o
      <3>3. r \in above
        <4>1. \A s \in Heights : s <= r => rows[s] # NoBlock
              BY <3>2 DEF DiskRows, NoHole
        <4> QED BY <4>1, <3>1 DEF above, RowsAbove
      <3> QED BY <3>2, <3>3, <2>2, <1>d
    <2>3. CASE q \notin written /\ q \notin deleted
      <3>1. SUFFICES rows[q] # NoBlock
            BY <2>3, <1>o
      <3>2. CASE rows[r] # NoBlock
            BY <3>2, <1>12 DEF DiskRows, NoHole
      <3>3. CASE rows[r] = NoBlock
        <4>1. r \in written
              BY <3>3, <1>12, <1>o
        <4>2. r \in AddedRows(old, new) /\ r <= h /\ r < Height[new]
              BY <4>1, <1>5, <1>2 DEF added
        <4>3. q <= Height[old]
          <5> SUFFICES ASSUME q > Height[old] PROVE FALSE
              BY <2>0, <1>1
          <5>1. q \in AddedRows(old, new) /\ q # Height[new]
                BY <2>0, <1>12, <4>2, <1>1 DEF AddedRows
          <5>2. q <= h
                BY <4>2, <1>12, <2>0, HeightsNat
          <5> QED BY <5>1, <5>2, <2>3 DEF written, added
        <4> QED BY <4>2, <4>3
      <3> QED BY <3>2, <3>3
    <2> QED BY <2>1, <2>2, <2>3
  <1> QED BY <1>7, <1>8, <1>9, <1>10, <1>11, <1>12 DEF DiskRows, NoHole, out

\* PartialReorg leaves good rows on disk for every durable block that both the
\* old and the new head descend from.
LEMMA PartialReorgKeepsDisk ==
    ASSUME NEW b \in Block, NEW old \in Block, NEW new \in Block,
           \A h \in Heights : canonical[h] # NoBlock => h < Height[b] + IndexBatchSize,
           canonical \in Rows, headKey = old,
           DiskRows(canonical, old, b), OnPath(b, new),
           \A r \in Heights : r <= Height[old] /\ AddedRows(old, new) # {}
                              => canonical[r] # NoBlock,
           PartialReorg(old, new)
    PROVE  canonical' \in Rows /\ headKey' \in Block /\ DiskRows(canonical', headKey', b)
  <1> DEFINE added == AddedRows(old, new) \ {Height[new]}
             above == RowsAbove(canonical, new)
             written(h) == {r \in added : r <= h}
             deleted(k) == {r \in above : r <= k}
  <1>1. PICK h \in Heights, k \in Heights :
          /\ written(h) # {} => h \in added
          /\ deleted(k) # {} => written(h) = added
          /\ deleted(k) = above \/ (k - Height[new]) % IndexBatchSize = 0
          /\ canonical' = CutRows(canonical, old, new, h, k)
          /\ headKey' = IF written(h) = {} THEN old ELSE Path[new][h]
        BY DEF PartialReorg, CutRows
  <1>2. deleted(k) = above \/ deleted(k) = {}
    <2>1. CASE (k - Height[new]) % IndexBatchSize = 0
      <3>1. /\ k \in Nat /\ Height[new] \in Nat /\ Height[b] \in Nat
            /\ Height[b] <= Height[new] /\ IndexBatchSize \in Nat
            BY HeightsNat, HeightNat, ChainAssumption DEF OnPath
      <3>2. k <= Height[new] \/ k >= Height[new] + IndexBatchSize
            BY <2>1, <3>1, WholeBatches
      <3>3. \A r \in above : /\ r \in Nat /\ r > Height[new]
                             /\ r < Height[b] + IndexBatchSize
            BY HeightsNat DEF RowsAbove
      <3> HIDE DEF above
      <3>4. \A r \in above : r < Height[new] + IndexBatchSize
            BY <3>1, <3>3
      <3>5. k <= Height[new] => deleted(k) = {}
            BY <3>1, <3>3
      <3>6. k >= Height[new] + IndexBatchSize => deleted(k) = above
            BY <3>1, <3>3, <3>4
      <3> QED BY <3>2, <3>5, <3>6
    <2> QED BY <2>1, <1>1
  <1>3. Cut(canonical, old, new, h, k)
        BY <1>1, <1>2 DEF Cut
  <1> QED BY <1>1, <1>3, CutKeepsDiskRows

----------------------------------------------------------------------------
(* Types of the trie database *)

\* Roots of blocks, and the operations on a trie database.
LEMMA TrieTypes ==
    ASSUME NEW t \in TrieDBs, NEW r \in Roots, NEW S, NEW b \in Block, NEW ts \in Seq(Roots)
    PROVE  /\ Root[b] \in Roots
           /\ EmptyTrieDB(t.disk) \in TrieDBs
           /\ Update(t, r) \in TrieDBs
           /\ Dereference(t, r) \in TrieDBs
           /\ Flush(t, S) \in TrieDBs
           /\ Commit(t, r) \in TrieDBs
           /\ Cap(t) \subseteq TrieDBs
           /\ InsertTrie(t) \subseteq TrieDBs
  <1>1. Root[b] \in Roots
        BY DEF Roots
  <1>2. EmptyTrieDB(t.disk) \in TrieDBs
        BY DEF EmptyTrieDB, TrieDBs
  <1>t. t.refs \in [Roots -> Nat] /\ t.dirty \subseteq Roots /\ t.disk \subseteq Roots
        BY DEF TrieDBs
  <1>3. Update(t, r) \in TrieDBs
    <2> DEFINE n == IF RootReferencedOnUpdate THEN t.refs[r] + 1 ELSE t.refs[r]
    <2>1. n \in Nat
          BY <1>t
    <2>2. [t.refs EXCEPT ![r] = n] \in [Roots -> Nat]
          BY <2>1, <1>t
    <2>3. Update(t, r) = [dirty |-> t.dirty \cup {r}, refs |-> [t.refs EXCEPT ![r] = n],
                          disk |-> t.disk]
          BY DEF Update, TrieDBs
    <2> HIDE DEF n
    <2> QED BY <2>2, <2>3, <1>t DEF TrieDBs
  <1>4. Dereference(t, r) \in TrieDBs
    <2> DEFINE n == IF t.refs[r] > 0 THEN t.refs[r] - 1 ELSE 0
               kept == IF n = 0 THEN t.dirty \ {r} ELSE t.dirty
    <2>1. n \in Nat
          BY <1>t
    <2>2. [t.refs EXCEPT ![r] = n] \in [Roots -> Nat] /\ kept \subseteq Roots
          BY <2>1, <1>t
    <2>3. r \in t.dirty => Dereference(t, r) =
            [dirty |-> kept, refs |-> [t.refs EXCEPT ![r] = n], disk |-> t.disk]
          BY DEF Dereference, TrieDBs
    <2>4. r \notin t.dirty => Dereference(t, r) = t
          BY DEF Dereference
    <2> HIDE DEF n, kept
    <2>5. [dirty |-> kept, refs |-> [t.refs EXCEPT ![r] = n], disk |-> t.disk] \in TrieDBs
          BY <2>2, <1>t DEF TrieDBs
    <2> QED BY <2>3, <2>4, <2>5
  <1>5. \A X : Flush(t, X) \in TrieDBs
        BY DEF Flush, TrieDBs
  <1>6. Cap(t) \subseteq TrieDBs
        BY <1>5 DEF Cap
  <1> QED BY <1>1, <1>2, <1>3, <1>4, <1>5, <1>6 DEF Commit, InsertTrie

\* Accepting a block keeps the types of the trie database and the tip buffer.
LEMMA AcceptTypes ==
    ASSUME NEW t \in TrieDBs, NEW b \in Block, NEW ts \in Seq(Roots)
    PROVE  /\ AcceptTrie(t, ts, b) \subseteq TrieDBs
           /\ AcceptTips(ts, b) \in Seq(Roots)
           /\ Shutdown(t, ts) \in TrieDBs
  <1>1. Root[b] \in Roots
        BY DEF Roots
  <1>2. Len(ts) \in Nat /\ (ts # <<>> => Len(ts) > 0)
        OBVIOUS
  <1>3. ts # <<>> => Head(ts) \in Roots /\ Tail(ts) \in Seq(Roots) /\ ts[Len(ts)] \in Roots
        BY <1>2
  <1>4. Len(ts) = StateHistory => ts # <<>>
        BY TrieWriterAssumption
  <1>5. TipEvict(t, ts) \in TrieDBs
        BY <1>3, <1>4, TrieTypes DEF TipEvict
  <1>6. AcceptTrie(t, ts, b) \subseteq TrieDBs
        BY <1>1, <1>5, TrieTypes DEF AcceptTrie
  <1>7. AcceptTips(ts, b) \in Seq(Roots)
        BY <1>1, <1>3, <1>4 DEF AcceptTips, TipInsert
  <1>8. Shutdown(t, ts) \in TrieDBs
        BY <1>3, TrieTypes DEF Shutdown
  <1> QED BY <1>6, <1>7, <1>8

\* The idle values have their types.
LEMMA IdleTypes ==
    /\ Idle \in AcceptorStates /\ Idle \in AcceptingStates /\ NoRecovery \in RecoveryStates
    /\ Idle.step = "idle"
  BY DEF Idle, NoRecovery, AcceptorStates, AcceptingStates, RecoveryStates, BlockOrNone

----------------------------------------------------------------------------
(* The invariant: processes that end *)

\* The durable block is a block, and DiskInv is DiskRows for it.
LEMMA DiskInvRows ==
    ASSUME TypeOK
    PROVE  BootBlock \in Block /\ (DiskInv <=> DiskRows(canonical, headKey, BootBlock))
  BY GenesisAssumption DEF TypeOK, BootBlock, BlockOrNone, DiskInv, DiskRows, NoHole

\* The chain starts in the invariant.
LEMMA InitInv == Init => Inv
  <1> SUFFICES ASSUME Init PROVE Inv
      OBVIOUS
  <1>1. Genesis \in Block /\ Height[Genesis] = 0 /\ Root[Genesis] \in Roots
        BY GenesisAssumption DEF Roots
  <1>2. TypeOK
    <2>1. trie \in TrieDBs
          BY <1>1 DEF Init, EmptyTrieDB, TrieDBs
    <2>2. applied \in [UNION {1..StagedSeq[b] : b \in Block} -> Nat]
          BY DEF Init
    <2>3. canonical \in Rows
          BY <1>1 DEF Init, Rows, BlockOrNone
    <2> QED BY <1>1, <2>1, <2>2, <2>3, IdleTypes DEF Init, TypeOK, BlockOrNone, AppliedCounts
  <1>3. DiskInv
    <2>1. OnPath(Genesis, Genesis) /\ Path[Genesis][0] = Genesis
          BY <1>1, OnPathFacts DEF OnPath
    <2>2. BootBlock = Genesis /\ headKey = Genesis
          BY DEF Init, BootBlock
    <2>3. \A h \in Heights : /\ h \in Nat
                             /\ canonical[h] = IF h = 0 THEN Genesis ELSE NoBlock
          BY HeightsNat DEF Init
    <2>4. Genesis # NoBlock
          BY <1>1, NoBlockAssumption
    <2>5. OnPath(BootBlock, headKey) /\ Height[BootBlock] = 0 /\ Path[BootBlock][0] = Genesis
          BY <1>1, <2>1, <2>2
    <2>6. \A h \in Heights : h <= Height[BootBlock] => canonical[h] = Path[BootBlock][h]
      <3>1. \A h \in Heights : h <= Height[BootBlock] => h = 0
            BY <2>3, <2>5
      <3> QED BY <3>1, <2>3, <2>5
    <2>7. \A h, k \in Heights : k <= h /\ canonical[h] # NoBlock => canonical[k] # NoBlock
      <3>1. \A h \in Heights : canonical[h] # NoBlock <=> h = 0
            BY <2>3, <2>4
      <3>2. \A h, k \in Heights : k <= h /\ h = 0 => k = 0
            BY <2>3
      <3> QED BY <3>1, <3>2
    <2>8. \A h \in Heights : h > Height[BootBlock] => canonical[h] = NoBlock
      <3>1. \A h \in Heights : h > Height[BootBlock] => h # 0
            BY <2>3, <2>5
      <3> QED BY <3>1, <2>3
    <2> QED BY <2>5, <2>6, <2>7, <2>8 DEF DiskInv
  <1>4. MemoryInv
        BY DEF Init, MemoryInv, Running, Idle
  <1>5. CanonicalMatchesHead /\ BacklogIsPath
        BY DEF Init, CanonicalMatchesHead, BacklogIsPath, Running
  <1> QED BY <1>2, <1>3, <1>4, <1>5 DEF Inv

\* A process that ends leaves the invariant if what it wrote is good on disk.
LEMMA ExitInv ==
    ASSUME TypeOK, NEW s \in {"down", "failed"}, NEW t \in TrieDBs,
           Exit(s, t), UNCHANGED <<tipKey, indexed, versiondb>>,
           blocks' \subseteq Block, canonical' \in Rows, headKey' \in Block,
           DiskRows(canonical', headKey', BootBlock)
    PROVE  Inv'
  <1>1. TypeOK'
    <2>1. trie' \in TrieDBs
          BY DEF Exit, EmptyTrieDB, TrieDBs
    <2>2. UNCHANGED <<tipKey, indexed, lastAcceptedKey, marker, applied>>
          BY DEF versiondb
    <2>3. /\ status' \in {"down", "failed"} /\ currentBlock' = NoBlock /\ lastAccepted' = NoBlock
          /\ acceptorTip' = NoBlock /\ acceptorQueue' = <<>> /\ acceptor' = Idle
          /\ accepting' = Idle /\ tips' = <<>> /\ recovery' = NoRecovery
          /\ verified' = {} /\ rejected' = {} /\ finalized' = finalized
          BY DEF Exit
    <2>4. acceptorQueue' \in Seq(Block) /\ tips' \in Seq(Roots)
          BY <2>3
    <2> QED BY <2>1, <2>2, <2>3, <2>4, IdleTypes DEF TypeOK, BlockOrNone
  <1>2. BootBlock' = BootBlock
        BY DEF versiondb, BootBlock
  <1>3. DiskInv'
        BY <1>2 DEF DiskInv, DiskRows, NoHole
  <1>4. MemoryInv'
        BY DEF Exit, MemoryInv, Running, Idle
  <1>5. CanonicalMatchesHead' /\ BacklogIsPath'
        BY DEF Exit, CanonicalMatchesHead, BacklogIsPath, Running
  <1> QED BY <1>1, <1>3, <1>4, <1>5 DEF Inv

\* A crash, a clean stop or a failed boot that does not touch the chain rows.
LEMMA StopsInv ==
    ASSUME Inv, Stop \/ Crash \/ FailBoot \/ \E b \in Block : CrashInInsert(b)
    PROVE  Inv'
  <1>1. /\ TypeOK /\ canonical \in Rows /\ headKey \in Block /\ blocks \subseteq Block
        /\ DiskRows(canonical, headKey, BootBlock) /\ trie \in TrieDBs
        BY DiskInvRows DEF Inv, TypeOK
  <1>2. Shutdown(trie, tips) \in TrieDBs
        BY <1>1, AcceptTypes, GenesisAssumption DEF TypeOK
  <1>3. CASE Stop
        BY <1>1, <1>2, <1>3, ExitInv DEF Stop, chaindb
  <1>4. CASE Crash
        BY <1>1, <1>4, ExitInv DEF Crash, chaindb
  <1>5. CASE FailBoot
        BY <1>1, <1>5, ExitInv DEF FailBoot, chaindb
  <1>6. ASSUME NEW b \in Block, CrashInInsert(b) PROVE Inv'
        BY <1>1, <1>6, ExitInv DEF CrashInInsert
  <1> QED BY <1>3, <1>4, <1>5, <1>6

\* What holds between two calls of the engine.
LEMMA ServingFacts ==
    ASSUME Inv, Serving
    PROVE  /\ lastAccepted \in Block /\ currentBlock \in Block
           /\ BootBlock = lastAccepted /\ headKey = currentBlock
           /\ OnPath(lastAccepted, currentBlock)
           /\ canonical = PathRows(currentBlock) /\ canonical \in Rows
           /\ DiskRows(canonical, headKey, BootBlock)
  BY DiskInvRows DEF Inv, TypeOK, MemoryInv, CanonicalMatchesHead, Serving, Running

\* A crash in the middle of a reorg.
LEMMA CrashInReorgInv ==
    ASSUME OneIndexBatch, Inv, NEW b \in Block, CrashInReorg(b)
    PROVE  Inv'
  <1>1. Serving /\ ReorgAllowed(lastAccepted, currentBlock, b) /\ PartialReorg(currentBlock, b)
        BY DEF CrashInReorg
  <1>2. /\ lastAccepted \in Block /\ currentBlock \in Block
        /\ BootBlock = lastAccepted /\ headKey = currentBlock
        /\ OnPath(lastAccepted, currentBlock)
        /\ canonical = PathRows(currentBlock) /\ canonical \in Rows
        /\ DiskRows(canonical, headKey, BootBlock)
        BY <1>1, ServingFacts
  <1>3. OnPath(BootBlock, b)
        BY <1>1, <1>2, PreferenceKeepsAccepted DEF PreferenceAllowed
  <1>4. ASSUME NEW r \in Heights, r <= Height[currentBlock] PROVE canonical[r] # NoBlock
    <2>1. r \in 0..Height[currentBlock]
          BY <1>4, <1>2, HeightsNat, HeightNat
    <2>2. Path[currentBlock][r] \in Block
          BY <2>1, <1>2, PathPrefix
    <2> QED BY <2>2, <1>2, <1>4, NoBlockAssumption DEF PathRows
  <1>5. canonical' \in Rows /\ headKey' \in Block /\ DiskRows(canonical', headKey', BootBlock)
        BY <1>1, <1>2, <1>3, <1>4, PartialReorgKeepsDisk DEF OneIndexBatch
  <1>6. TypeOK /\ trie \in TrieDBs /\ blocks' \subseteq Block
        BY DEF Inv, TypeOK, CrashInReorg
  <1> QED BY <1>5, <1>6, ExitInv DEF CrashInReorg

\* Nothing is added when the head moves down to a block on its path.
LEMMA NothingAdded ==
    ASSUME NEW old \in Block, NEW new \in Block, OnPath(new, old)
    PROVE  AddedRows(old, new) = {}
  <1>1. Height[new] \in Nat /\ Height[old] \in Nat /\ Height[new] <= Height[old]
        BY HeightNat DEF OnPath
  <1>2. \A h \in 0..Height[new] : Path[old][h] = Path[new][h]
        BY OnPathFacts
  <1> QED BY <1>1, <1>2 DEF AddedRows

\* A crash while loadLastState moves the head down to the last accepted block.
LEMMA CrashInBootInv ==
    ASSUME OneIndexBatch, Inv, CrashInBoot
    PROVE  Inv'
  <1>1. /\ TypeOK /\ canonical \in Rows /\ headKey \in Block /\ BootBlock \in Block
        /\ DiskRows(canonical, headKey, BootBlock) /\ trie \in TrieDBs /\ blocks' \subseteq Block
        BY DiskInvRows DEF Inv, TypeOK, CrashInBoot
  <1>2. OnPath(BootBlock, headKey) /\ OnPath(BootBlock, BootBlock)
        BY <1>1, OnPathFacts DEF DiskRows
  <1>3. AddedRows(headKey, BootBlock) = {}
        BY <1>1, <1>2, NothingAdded
  <1>4. PartialReorg(headKey, BootBlock)
        BY DEF CrashInBoot
  <1>5. canonical' \in Rows /\ headKey' \in Block /\ DiskRows(canonical', headKey', BootBlock)
        BY <1>1, <1>2, <1>3, <1>4, PartialReorgKeepsDisk DEF OneIndexBatch
  <1> QED BY <1>1, <1>5, ExitInv DEF CrashInBoot

----------------------------------------------------------------------------
(* The invariant: start-up *)

\* loadLastState makes the canonical rows the path of the last accepted block.
LEMMA BootRows ==
    ASSUME Inv
    PROVE  SetPreferenceRows(canonical, headKey, BootBlock) = PathRows(BootBlock)
  <1>1. /\ canonical \in Rows /\ headKey \in Block /\ BootBlock \in Block
        /\ DiskRows(canonical, headKey, BootBlock)
        BY DiskInvRows DEF Inv, TypeOK
  <1>2. Parent(BootBlock) # headKey
    <2>1. Parent(BootBlock) = headKey => Height[BootBlock] = Height[headKey] + 1
          BY <1>1, ChildPath
    <2>2. Height[BootBlock] <= Height[headKey]
          BY <1>1 DEF DiskRows, OnPath
    <2> QED BY <2>1, <2>2, <1>1, HeightNat
  <1> QED BY <1>1, <1>2, PreferenceRows DEF DiskRows

\* Starting the acceptor with an empty queue.
LEMMA StartBacklog ==
    ASSUME lastAccepted \in Block, acceptorQueue = <<>>, acceptor = Idle, accepting = Idle,
           Start, UNCHANGED <<lastAccepted, acceptorQueue, acceptor, accepting>>
    PROVE  BacklogIsPath' /\ acceptorTip' \in Block
  <1>1. acceptorTip' = lastAccepted /\ lastAccepted' = lastAccepted /\ acceptorQueue' = <<>>
        BY DEF Start
  <1>2. Backlog' = <<>>
        BY DEF Backlog, Idle
  <1>3. OnPath(lastAccepted, lastAccepted) /\ Height[lastAccepted] \in Nat
        BY OnPathFacts, HeightNat
  <1> QED BY <1>1, <1>2, <1>3, ChainAssumption DEF BacklogIsPath

\* loadLastState.
LEMMA BootInv ==
    ASSUME Inv, Boot
    PROVE  Inv'
  <1>1. BootBlock \in Block /\ TypeOK
        BY DiskInvRows DEF Inv
  <1>2. BootBlock' = BootBlock
        BY DEF Boot, BootBlock, versiondb
  <1>3. canonical' = PathRows(BootBlock)
        BY BootRows DEF Boot
  <1>4. TypeOK'
    <2>1. canonical' \in Rows
          BY <1>1, <1>3, PathRowsFacts
    <2>2. /\ headKey' = BootBlock /\ currentBlock' = BootBlock /\ lastAccepted' = BootBlock
          /\ status' = "loading"
          /\ UNCHANGED <<blocks, tipKey, indexed, trie, lastAcceptedKey, marker, applied,
                         acceptorTip, acceptorQueue, acceptor, accepting, tips, recovery,
                         verified, rejected, finalized>>
          BY DEF Boot, versiondb, engine
    <2> QED BY <1>1, <2>1, <2>2 DEF TypeOK, BlockOrNone
  <1>5. headKey' = BootBlock /\ currentBlock' = BootBlock /\ lastAccepted' = BootBlock
        /\ status' = "loading"
        BY DEF Boot
  <1>6. OnPath(BootBlock, BootBlock)
        BY <1>1, OnPathFacts
  <1>7. DiskInv'
        BY <1>1, <1>2, <1>3, <1>4, <1>5, <1>6, PathRowsAreDiskRows
        DEF DiskInv, DiskRows, NoHole
  <1>8. MemoryInv'
    <2>1. UNCHANGED <<acceptorQueue, acceptor, accepting>> /\ status # "up"
          BY DEF Boot, NotRunning
    <2>2. accepting = Idle /\ acceptorQueue = <<>> /\ acceptor = Idle
          BY <2>1 DEF Inv, MemoryInv
    <2> QED BY <2>1, <2>2, <1>1, <1>2, <1>5 DEF MemoryInv, Running
  <1>9. CanonicalMatchesHead' /\ BacklogIsPath'
        BY <1>3, <1>5, <1>6 DEF CanonicalMatchesHead, BacklogIsPath, PathRows
  <1> QED BY <1>4, <1>7, <1>8, <1>9 DEF Inv

\* A step that leaves the canonical chain, the last accepted block and the
\* durable one alone keeps what is said of them.
LEMMA ChainUnchanged ==
    ASSUME Inv, Running,
           UNCHANGED <<canonical, headKey, lastAcceptedKey, currentBlock, lastAccepted>>
    PROVE  DiskInv' /\ CanonicalMatchesHead' /\ BootBlock' = BootBlock
  <1>1. BootBlock' = BootBlock
        BY DEF BootBlock
  <1> QED BY <1>1 DEF Inv, DiskInv, CanonicalMatchesHead, PathRows

\* The three steps of reprocessState.
LEMMA RecoveryInv ==
    ASSUME Inv, BeginRecovery \/ Reexecute \/ FinishRecovery
    PROVE  Inv'
  <1>1. TypeOK /\ BootBlock \in Block
        BY DiskInvRows DEF Inv
  <1>2. /\ status \in {"loading", "recovering"} /\ Running
        /\ UNCHANGED <<canonical, headKey, lastAcceptedKey, marker, applied, blocks,
                       currentBlock, lastAccepted, acceptorQueue, acceptor, accepting,
                       tips, verified, rejected, finalized>>
        BY DEF BeginRecovery, Reexecute, FinishRecovery, InLoop, LoopDone, Running,
               chaindb, versiondb, engine
  <1>3. /\ lastAccepted \in Block /\ currentBlock \in Block /\ headKey = currentBlock
        /\ accepting = Idle /\ lastAccepted = BootBlock
        /\ acceptorQueue = <<>> /\ acceptor = Idle
        /\ status = "recovering" => recovery.cursor \in Block
        BY <1>2 DEF Inv, MemoryInv
  <1>4. DiskInv' /\ CanonicalMatchesHead' /\ BootBlock' = BootBlock
        BY <1>2, ChainUnchanged
  <1>5. \A b \in Block : Root[b] \in Roots
        BY DEF Roots
  <1>6. CASE BeginRecovery
    <2>1. UNCHANGED <<tipKey, indexed, trie>>
          BY <1>6 DEF BeginRecovery, chaindb
    <2>2. CASE UpToDate
      <3>1. Start
            BY <1>6, <2>2 DEF BeginRecovery
      <3>2. BacklogIsPath' /\ acceptorTip' \in Block
            BY <3>1, <1>2, <1>3, StartBacklog
      <3>3. TypeOK'
            BY <1>1, <1>2, <2>1, <3>1, <3>2, IdleTypes DEF TypeOK, Start, BlockOrNone
      <3>4. MemoryInv'
            BY <3>1, <3>2, <1>2, <1>3, <1>4 DEF MemoryInv, Running, Start
      <3> QED BY <3>2, <3>3, <3>4, <1>4 DEF Inv
    <2>3. CASE ~UpToDate
      <3>1. PICK h \in StateHeights :
              /\ status' = "recovering"
              /\ recovery' = [cursor |-> Path[SearchFrom][h], tip |-> tipKey,
                              writeIndices |-> FALSE, reexecuted |-> FALSE]
              /\ acceptorTip' = acceptorTip
            BY <1>6, <2>3 DEF BeginRecovery
      <3>2. SearchFrom \in Block
            BY <1>1 DEF SearchFrom, TypeOK, BlockOrNone
      <3>3. h \in 0..Height[SearchFrom]
            BY DEF StateHeights
      <3>4. Path[SearchFrom][h] \in Block
            BY <3>2, <3>3, PathPrefix
      <3>r. recovery' \in RecoveryStates /\ recovery'.cursor \in Block
            BY <1>1, <3>1, <3>4 DEF RecoveryStates, TypeOK, BlockOrNone
      <3>5. TypeOK'
            BY <1>1, <1>2, <2>1, <3>1, <3>r DEF TypeOK
      <3>6. MemoryInv'
            BY <3>1, <3>r, <1>2, <1>3, <1>4 DEF MemoryInv, Running
      <3>7. BacklogIsPath'
            BY <3>1 DEF BacklogIsPath
      <3> QED BY <3>5, <3>6, <3>7, <1>4 DEF Inv
    <2> QED BY <2>2, <2>3
  <1>7. CASE Reexecute
    <2>1. NextCanonical \in Block /\ recovery.cursor \in Block
          BY <1>7, <1>1, <1>3 DEF Reexecute, ReexecutePossible, InLoop, TypeOK
    <2>2. trie' \in TrieDBs
      <3>1. Update(trie, Root[NextCanonical]) \in TrieDBs
            BY <2>1, <1>1, <1>5, TrieTypes DEF TypeOK
      <3>2. Dereference(Update(trie, Root[NextCanonical]), Root[recovery.cursor]) \in TrieDBs
            BY <3>1, <2>1, <1>1, <1>5, TrieTypes DEF TypeOK
      <3> QED BY <3>1, <3>2, <1>7 DEF Reexecute
    <2>3. indexed' \subseteq Block /\ tipKey' \in BlockOrNone
          BY <1>7, <1>1, <2>1 DEF Reexecute, WritesIndices, TypeOK, BlockOrNone
    <2>4. recovery' \in RecoveryStates /\ recovery'.cursor \in Block
      <3>1. recovery \in RecoveryStates
            BY <1>1 DEF TypeOK
      <3>2. WritesIndices \in BOOLEAN
            BY <3>1 DEF WritesIndices, RecoveryStates
      <3>3. recovery' = [recovery EXCEPT !.cursor = NextCanonical, !.writeIndices = WritesIndices,
                                         !.reexecuted = TRUE]
            BY <1>7 DEF Reexecute
      <3> QED BY <2>1, <3>1, <3>2, <3>3 DEF RecoveryStates, BlockOrNone
    <2>5. status' = status /\ acceptorTip' = acceptorTip /\ status = "recovering"
          BY <1>7 DEF Reexecute, InLoop
    <2>6. TypeOK'
          BY <1>1, <1>2, <2>2, <2>3, <2>4, <2>5 DEF TypeOK
    <2>7. MemoryInv'
          BY <2>4, <2>5, <1>2, <1>3, <1>4 DEF MemoryInv, Running
    <2>8. BacklogIsPath'
          BY <2>5 DEF BacklogIsPath
    <2> QED BY <2>6, <2>7, <2>8, <1>4 DEF Inv
  <1>8. CASE FinishRecovery
    <2>1. Start /\ trie' = Recovered /\ UNCHANGED <<tipKey, indexed>>
          BY <1>8 DEF FinishRecovery, chaindb
    <2>2. BacklogIsPath' /\ acceptorTip' \in Block
          BY <2>1, <1>2, <1>3, StartBacklog
    <2>3. trie' \in TrieDBs
      <3>1. recovery.cursor \in Block
            BY <1>8, <1>3 DEF FinishRecovery, LoopDone
      <3>2. Commit(trie, Root[recovery.cursor]) \in TrieDBs
            BY <3>1, <1>1, <1>5, TrieTypes DEF TypeOK
      <3> QED BY <3>2, <2>1, <1>1 DEF Recovered, TypeOK
    <2>4. TypeOK'
          BY <1>1, <1>2, <2>1, <2>2, <2>3, IdleTypes DEF TypeOK, Start, BlockOrNone
    <2>5. MemoryInv'
          BY <2>1, <2>2, <1>2, <1>3, <1>4 DEF MemoryInv, Running, Start
    <2> QED BY <2>2, <2>4, <2>5, <1>4 DEF Inv
  <1> QED BY <1>6, <1>7, <1>8

----------------------------------------------------------------------------
(* The invariant: the engine's calls *)

\* The head of a serving chain moves to a descendant of the last accepted block.
LEMMA MoveHead ==
    ASSUME Inv, Serving, NEW b \in Block, OnPath(lastAccepted, b),
           canonical' = PathRows(b), headKey' = b, currentBlock' = b,
           UNCHANGED lastAcceptedKey
    PROVE  /\ canonical' \in Rows
           /\ DiskInv' /\ BootBlock' = BootBlock
  <1>1. BootBlock = lastAccepted /\ lastAccepted \in Block
        BY ServingFacts
  <1>2. BootBlock' = BootBlock
        BY DEF BootBlock
  <1>3. DiskRows(PathRows(b), b, BootBlock)
        BY <1>1, PathRowsAreDiskRows
  <1> QED BY <1>2, <1>3, PathRowsFacts DEF DiskInv, DiskRows, NoHole, Rows

\* What setPreference writes when the chain is serving.
LEMMA PreferenceMoves ==
    ASSUME Inv, Serving, NEW b \in Block, PreferenceAllowed(lastAccepted, currentBlock, b)
    PROVE  /\ SetPreferenceRows(canonical, currentBlock, b) = PathRows(b)
           /\ OnPath(lastAccepted, b)
  BY ServingFacts, PreferenceFromPath, PreferenceKeepsAccepted

\* The backlog does not change when its parts do not.
LEMMA SameBacklog ==
    ASSUME Inv, status = "up",
           UNCHANGED <<status, acceptorTip, lastAccepted, acceptorQueue, acceptor, accepting>>
    PROVE  BacklogIsPath'
  BY DEF Inv, BacklogIsPath, Backlog

\* insertBlock.
LEMMA VerifyInv ==
    ASSUME Inv, NEW b \in Block, Verify(b)
    PROVE  Inv'
  <1>1. TypeOK /\ Serving /\ status = "up" /\ trie \in TrieDBs /\ tips \in Seq(Roots)
        BY DEF Inv, TypeOK, Verify, Serving
  <1>2. /\ lastAccepted \in Block /\ currentBlock \in Block
        /\ BootBlock = lastAccepted /\ headKey = currentBlock
        /\ OnPath(lastAccepted, currentBlock)
        /\ canonical = PathRows(currentBlock) /\ canonical \in Rows
        BY <1>1, ServingFacts
  <1>3. UNCHANGED <<tipKey, indexed, lastAcceptedKey, marker, applied, status, lastAccepted,
                    acceptorTip, acceptorQueue, acceptor, accepting, tips, recovery,
                    rejected, finalized>>
        BY DEF Verify, versiondb
  <1>4. trie' \in TrieDBs
    <2>1. Root[b] \in Roots
          BY DEF Roots
    <2>2. Update(trie, Root[b]) \in TrieDBs
          BY <2>1, <1>1, TrieTypes
    <2> QED BY <2>1, <2>2, <1>1, TrieTypes DEF Verify
  <1>5. /\ canonical' \in Rows /\ headKey' \in Block
        /\ currentBlock' \in Block /\ headKey' = currentBlock'
        /\ DiskInv' /\ BootBlock' = BootBlock /\ CanonicalMatchesHead'
    <2>1. CASE Parent(b) = currentBlock
      <3>1. canonical' = WriteHead(canonical, b) /\ headKey' = b /\ currentBlock' = b
            BY <2>1 DEF Verify
      <3>2. PreferenceAllowed(lastAccepted, currentBlock, b) /\ currentBlock # b
        <4>1. Height[b] = Height[currentBlock] + 1
              BY <2>1, <1>2, ChildPath
        <4> QED BY <2>1, <1>2, <4>1, HeightNat DEF PreferenceAllowed
      <3>3. canonical' = PathRows(b) /\ OnPath(lastAccepted, b)
            BY <3>1, <3>2, <2>1, <1>1, PreferenceMoves DEF SetPreferenceRows
      <3>4. /\ canonical' \in Rows
            /\ DiskInv' /\ BootBlock' = BootBlock
            BY <3>1, <3>3, <1>1, <1>3, MoveHead
      <3>5. CanonicalMatchesHead'
            BY <3>1, <3>3, <1>3 DEF CanonicalMatchesHead, PathRows
      <3> QED BY <3>1, <3>4, <3>5
    <2>2. CASE Parent(b) # currentBlock
      <3>1. UNCHANGED <<canonical, headKey, currentBlock>>
            BY <2>2 DEF Verify
      <3>2. DiskInv' /\ CanonicalMatchesHead' /\ BootBlock' = BootBlock
            BY <3>1, <1>1, <1>3, ChainUnchanged DEF Running
      <3> QED BY <3>1, <3>2, <1>1, <1>2 DEF TypeOK
    <2> QED BY <2>1, <2>2
  <1>b. blocks' = blocks \cup {b} /\ verified' = verified \cup {b}
        BY DEF Verify
  <1>6. TypeOK'
        BY <1>1, <1>3, <1>4, <1>5, <1>b DEF TypeOK, BlockOrNone
  <1>7. MemoryInv'
        BY <1>1, <1>2, <1>3, <1>5 DEF Inv, MemoryInv, Running, Serving
  <1>8. BacklogIsPath'
        BY <1>1, <1>3, SameBacklog
  <1> QED BY <1>5, <1>6, <1>7, <1>8 DEF Inv

\* setPreference.
LEMMA SetPreferenceInv ==
    ASSUME Inv, NEW b \in Block, SetPreference(b)
    PROVE  Inv'
  <1>1. TypeOK /\ Serving /\ status = "up"
        BY DEF Inv, SetPreference, Serving
  <1>2. lastAccepted \in Block /\ BootBlock = lastAccepted
        BY <1>1, ServingFacts
  <1>3. UNCHANGED <<blocks, tipKey, indexed, trie, lastAcceptedKey, marker, applied, status,
                    lastAccepted, acceptorTip, acceptorQueue, acceptor, accepting, tips,
                    recovery, verified, rejected, finalized>>
        BY DEF SetPreference, versiondb, engine
  <1>4. /\ canonical' = PathRows(b) /\ headKey' = b /\ currentBlock' = b
        /\ OnPath(lastAccepted, b)
        BY <1>1, PreferenceMoves DEF SetPreference
  <1>5. canonical' \in Rows /\ DiskInv' /\ BootBlock' = BootBlock
        BY <1>1, <1>3, <1>4, MoveHead
  <1>6. CanonicalMatchesHead'
        BY <1>3, <1>4 DEF CanonicalMatchesHead, PathRows
  <1>7. TypeOK'
        BY <1>1, <1>3, <1>4, <1>5 DEF TypeOK, BlockOrNone
  <1>8. MemoryInv'
        BY <1>1, <1>2, <1>3, <1>4, <1>5 DEF Inv, MemoryInv, Running, Serving
  <1>9. BacklogIsPath'
        BY <1>1, <1>3, SameBacklog
  <1> QED BY <1>5, <1>6, <1>7, <1>8, <1>9 DEF Inv

\* BlockChain.Reject.
LEMMA RejectInv ==
    ASSUME Inv, NEW b \in Block, Reject(b)
    PROVE  Inv'
  <1>1. TypeOK /\ Serving /\ status = "up" /\ trie \in TrieDBs /\ tips \in Seq(Roots)
        BY DEF Inv, TypeOK, Reject, Serving
  <1>2. UNCHANGED <<canonical, headKey, tipKey, indexed, lastAcceptedKey, marker, applied,
                    status, currentBlock, lastAccepted, acceptorTip, acceptorQueue, acceptor,
                    accepting, tips, recovery, finalized>>
        BY DEF Reject, versiondb, memory
  <1>3. trie' \in TrieDBs
    <2>1. Root[b] \in Roots
          BY DEF Roots
    <2> QED BY <2>1, <1>1, TrieTypes DEF Reject, RejectTrie
  <1>4. DiskInv' /\ CanonicalMatchesHead' /\ BootBlock' = BootBlock
        BY <1>1, <1>2, ChainUnchanged DEF Running
  <1>b. /\ blocks' = blocks \ {b} /\ verified' = verified \ {b}
        /\ rejected' = rejected \cup {b}
        BY DEF Reject
  <1>5. TypeOK'
        BY <1>1, <1>2, <1>3, <1>b DEF TypeOK
  <1>6. MemoryInv'
        BY <1>1, <1>2, <1>4 DEF Inv, MemoryInv, Running
  <1>7. BacklogIsPath'
        BY <1>1, <1>2, SameBacklog
  <1> QED BY <1>4, <1>5, <1>6, <1>7 DEF Inv

\* The parts of the backlog are sequences of blocks, and so is the backlog.
LEMMA BacklogSeq ==
    ASSUME Inv, status = "up"
    PROVE  /\ acceptorQueue \in Seq(Block)
           /\ (IF acceptor.step = "idle" THEN <<>> ELSE <<acceptor.block>>) \in Seq(Block)
           /\ (IF accepting.step = "enqueue" THEN <<accepting.block>> ELSE <<>>) \in Seq(Block)
           /\ Backlog \in Seq(Block)
  <1>1. acceptorQueue \in Seq(Block)
        BY DEF Inv, TypeOK
  <1>2. acceptor.step # "idle" => acceptor.block \in Block
        BY IdleTypes DEF Inv, MemoryInv
  <1>3. accepting.step = "enqueue" => accepting.block \in Block
        BY IdleTypes DEF Inv, MemoryInv, Running
  <1>4. (IF acceptor.step = "idle" THEN <<>> ELSE <<acceptor.block>>) \in Seq(Block)
        BY <1>2
  <1>5. (IF accepting.step = "enqueue" THEN <<accepting.block>> ELSE <<>>) \in Seq(Block)
        BY <1>3
  <1> QED BY <1>1, <1>4, <1>5 DEF Backlog

\* A backlog grows by the child of the last accepted block.
LEMMA BacklogGrows ==
    ASSUME Inv, status = "up", NEW b \in Block, Parent(b) = lastAccepted,
           status' = "up", lastAccepted' = b, Backlog' = Append(Backlog, b),
           UNCHANGED <<acceptorTip, acceptorQueue>>
    PROVE  BacklogIsPath'
  <1>1. lastAccepted \in Block /\ acceptorTip \in Block
        BY DEF Inv, MemoryInv, Running
  <1>2. /\ Height[b] = Height[lastAccepted] + 1
        /\ OnPath(lastAccepted, b)
        /\ \A h \in 0..Height[lastAccepted] : Path[b][h] = Path[lastAccepted][h]
        /\ Path[b][Height[b]] = b
        BY <1>1, ChildPath, OnPathFacts
  <1>3. Height[lastAccepted] \in Nat /\ Height[acceptorTip] \in Nat
        BY <1>1, HeightNat
  <1> DEFINE n == Len(Backlog)
  <1>4. /\ Len(acceptorQueue) <= AcceptorQueueLimit
        /\ Height[acceptorTip] + n = Height[lastAccepted]
        /\ OnPath(acceptorTip, lastAccepted)
        /\ \A i \in 1..n : Backlog[i] = Path[lastAccepted][Height[acceptorTip] + i]
        BY DEF Inv, BacklogIsPath
  <1>5. Backlog \in Seq(Block)
        BY BacklogSeq
  <1>6. /\ n \in Nat /\ Len(Backlog') = n + 1 /\ Backlog'[n + 1] = b
        /\ \A i \in 1..n : Backlog'[i] = Backlog[i]
        BY <1>5
  <1>7. OnPath(acceptorTip, b)
        BY <1>1, <1>2, <1>4, OnPathFacts
  <1>n. n \in Nat /\ Len(Backlog') = n + 1
        BY <1>6
  <1>a. Height[acceptorTip] + n + 1 = Height[b]
        BY <1>2, <1>4
  <1> HIDE DEF n
  <1>8. ASSUME NEW i \in 1..(n + 1) PROVE Backlog'[i] = Path[b][Height[acceptorTip] + i]
    <2>1. CASE i = n + 1
      <3>1. Height[acceptorTip] + i = Height[b]
            BY <2>1, <1>a, <1>n, <1>3, SMTT(30)
      <3> QED BY <3>1, <2>1, <1>6, <1>2
    <2>2. CASE i # n + 1
      <3>n. i \in 1..n
            BY <2>2, <1>n
      <3>s. Height[acceptorTip] + n = Height[lastAccepted]
            BY <1>4
      <3>1. i \in 1..n /\ Height[acceptorTip] + i \in 0..Height[lastAccepted]
            BY <3>n, <3>s, <1>n, <1>3
      <3> QED BY <3>1, <1>2, <1>4, <1>6
    <2> QED BY <2>1, <2>2
  <1>9. Height[acceptorTip] + Len(Backlog') = Height[b]
    <2>1. Len(Backlog') = n + 1
          BY <1>n
    <2>2. Height[acceptorTip] + (n + 1) = Height[b]
          BY <1>a, <1>n, <1>3, SMTT(30)
    <2> QED BY <2>1, <2>2
  <1> QED BY <1>4, <1>6, <1>7, <1>8, <1>9 DEF BacklogIsPath

\* BlockChain.Accept up to the send.
LEMMA AcceptInv ==
    ASSUME Inv, NEW b \in Block, Accept(b)
    PROVE  Inv'
  <1>1. TypeOK /\ Serving /\ status = "up" /\ accepting = Idle
        /\ trie \in TrieDBs /\ tips \in Seq(Roots)
        BY DEF Inv, TypeOK, Accept, Serving
  <1>2. /\ lastAccepted \in Block /\ currentBlock \in Block
        /\ BootBlock = lastAccepted /\ headKey = currentBlock
        /\ canonical = PathRows(currentBlock)
        BY <1>1, ServingFacts
  <1>3. UNCHANGED <<blocks, tipKey, indexed, lastAcceptedKey, marker, applied, status,
                    acceptorTip, acceptorQueue, acceptor, tips, recovery>>
        BY DEF Accept, versiondb
  <1>4. /\ Parent(b) = lastAccepted /\ lastAccepted' = b
        /\ accepting' = [step |-> "enqueue", block |-> b]
        BY DEF Accept, Acceptable
  <1>5. trie' \in TrieDBs
    <2>1. Root[b] \in Roots
          BY DEF Roots
    <2> QED BY <2>1, <1>1, TrieTypes DEF Accept, EnsureState
  <1>6. /\ canonical' \in Rows /\ headKey' \in Block
        /\ currentBlock' \in Block /\ headKey' = currentBlock'
        /\ DiskInv' /\ BootBlock' = BootBlock /\ CanonicalMatchesHead'
    <2>1. CASE canonical[Height[b]] = b
      <3>1. UNCHANGED <<canonical, headKey, currentBlock>>
            BY <2>1 DEF Accept
      <3>2. DiskInv' /\ BootBlock' = BootBlock
            BY <3>1, <1>3 DEF Inv, DiskInv, BootBlock
      <3>3. OnPath(b, currentBlock)
        <4>1. Height[b] \in Heights /\ b # NoBlock
              BY NoBlockAssumption DEF Heights
        <4> QED BY <4>1, <2>1, <1>2 DEF PathRows, OnPath
      <3>4. CanonicalMatchesHead'
            BY <3>1, <3>3, <1>2, <1>4 DEF CanonicalMatchesHead, PathRows
      <3> QED BY <3>1, <3>2, <3>4, <1>1, <1>2 DEF TypeOK
    <2>2. CASE canonical[Height[b]] # b
      <3>1. /\ canonical' = PathRows(b) /\ headKey' = b /\ currentBlock' = b
            /\ OnPath(lastAccepted, b)
            BY <2>2, <1>1, PreferenceMoves DEF Accept
      <3>2. canonical' \in Rows /\ DiskInv' /\ BootBlock' = BootBlock
            BY <3>1, <1>1, <1>3, MoveHead
      <3>3. OnPath(b, b)
            BY OnPathFacts
      <3>4. CanonicalMatchesHead'
            BY <3>1, <3>3, <1>4 DEF CanonicalMatchesHead, PathRows
      <3> QED BY <3>1, <3>2, <3>4
    <2> QED BY <2>1, <2>2
  <1>a. accepting' \in AcceptingStates
        BY <1>4 DEF AcceptingStates, BlockOrNone
  <1>b. /\ verified' = verified \ {b} /\ rejected' = rejected \ {b}
        /\ finalized' = finalized \cup {b}
        BY DEF Accept
  <1>7. TypeOK'
        BY <1>1, <1>3, <1>4, <1>5, <1>6, <1>a, <1>b DEF TypeOK, BlockOrNone
  <1>8. MemoryInv'
        BY <1>1, <1>2, <1>3, <1>4, <1>6 DEF Inv, MemoryInv, Running, Idle
  <1>9. BacklogIsPath'
    <2>1. Backlog' = Append(Backlog, b)
      <3> DEFINE p == (IF acceptor.step = "idle" THEN <<>> ELSE <<acceptor.block>>)
                      \o acceptorQueue
      <3>1. p \in Seq(Block)
        <4>1. /\ acceptorQueue \in Seq(Block)
              /\ (IF acceptor.step = "idle" THEN <<>> ELSE <<acceptor.block>>) \in Seq(Block)
              BY <1>1, BacklogSeq
        <4> QED BY <4>1
      <3>2. Backlog = p \o <<>> /\ Backlog' = p \o <<b>>
            BY <1>1, <1>3, <1>4 DEF Backlog, Idle
      <3> HIDE DEF p
      <3> QED BY <3>1, <3>2
    <2> QED BY <2>1, <1>1, <1>3, <1>4, BacklogGrows
  <1> QED BY <1>6, <1>7, <1>8, <1>9 DEF Inv

----------------------------------------------------------------------------
(* The invariant: the rest of Block.Accept, and the acceptor *)

\* A step that changes neither the tip, the last accepted block nor the backlog.
LEMMA EqualBacklog ==
    ASSUME Inv, status = "up", Backlog' = Backlog,
           Len(acceptorQueue') <= AcceptorQueueLimit,
           UNCHANGED <<status, acceptorTip, lastAccepted>>
    PROVE  BacklogIsPath'
  BY DEF Inv, BacklogIsPath

\* The send on acceptorQueue.
LEMMA EnqueueInv ==
    ASSUME Inv, Enqueue
    PROVE  Inv'
  <1>1. /\ TypeOK /\ status = "up" /\ accepting.step = "enqueue"
        /\ acceptorQueue \in Seq(Block) /\ Len(acceptorQueue) < AcceptorQueueLimit
        /\ acceptorQueue' = Append(acceptorQueue, accepting.block)
        /\ accepting' = [accepting EXCEPT !.step = "commit"]
        BY DEF Inv, TypeOK, Enqueue, QueueHasRoom
  <1>2. UNCHANGED <<canonical, headKey, tipKey, indexed, blocks, trie, lastAcceptedKey, marker,
                    applied, status, currentBlock, lastAccepted, acceptorTip, acceptor, tips,
                    recovery, verified, rejected, finalized>>
        BY DEF Enqueue, chaindb, versiondb, engine
  <1>3. accepting.block = lastAccepted /\ lastAccepted \in Block
        BY <1>1 DEF Inv, MemoryInv, Running, Idle
  <1>4. /\ accepting'.step = "commit" /\ accepting'.block = accepting.block
        /\ accepting' \in AcceptingStates
        BY <1>1 DEF TypeOK, AcceptingStates
  <1>5. DiskInv' /\ CanonicalMatchesHead' /\ BootBlock' = BootBlock
        BY <1>1, <1>2, ChainUnchanged DEF Running
  <1>q. acceptorQueue' \in Seq(Block)
        BY <1>1, <1>3
  <1>6. TypeOK'
        BY <1>1, <1>2, <1>q, <1>4 DEF TypeOK
  <1>7. MemoryInv'
        BY <1>1, <1>2, <1>3, <1>4, <1>5 DEF Inv, MemoryInv, Running, Idle
  <1>8. BacklogIsPath'
    <2> DEFINE a == IF acceptor.step = "idle" THEN <<>> ELSE <<acceptor.block>>
    <2>1. a \in Seq(Block)
          BY <1>1, BacklogSeq
    <2>2. Backlog = a \o acceptorQueue \o <<accepting.block>>
          BY <1>1 DEF Backlog
    <2>3. Backlog' = a \o Append(acceptorQueue, accepting.block) \o <<>>
          BY <1>1, <1>2, <1>4 DEF Backlog
    <2> HIDE DEF a
    <2>4. Backlog' = Backlog
          BY <2>1, <2>2, <2>3, <1>1, <1>3
    <2>5. Len(acceptorQueue') <= AcceptorQueueLimit
          BY <1>1, <1>3, ChainAssumption
    <2> QED BY <2>4, <2>5, <1>1, <1>2, EqualBacklog
  <1> QED BY <1>5, <1>6, <1>7, <1>8 DEF Inv

\* The durable block follows the last accepted one.
LEMMA CommitAcceptedInv ==
    ASSUME Inv, CommitAccepted
    PROVE  Inv'
  <1>0. /\ status = "up" /\ accepting.step = "commit"
        /\ lastAcceptedKey' = accepting.block /\ accepting' = Idle
        BY DEF CommitAccepted
  <1>1. /\ TypeOK /\ status = "up" /\ accepting.step = "commit" /\ accepting # Idle
        /\ lastAcceptedKey' = accepting.block /\ accepting' = Idle
        BY <1>0, IdleTypes DEF Inv
  <1>2. UNCHANGED <<canonical, headKey, tipKey, indexed, blocks, trie, status, currentBlock,
                    lastAccepted, acceptorTip, acceptorQueue, acceptor, tips, recovery,
                    verified, rejected, finalized>>
        BY DEF CommitAccepted, chaindb, engine
  <1>3. /\ accepting.block = lastAccepted /\ lastAccepted \in Block /\ currentBlock \in Block
        /\ headKey = currentBlock /\ acceptorTip \in Block
        BY <1>1 DEF Inv, MemoryInv, Running
  <1>4. BootBlock' = lastAccepted
        BY <1>1, <1>3, NoBlockAssumption DEF BootBlock
  <1>5. OnPath(lastAccepted, currentBlock) /\ canonical = PathRows(currentBlock)
        BY <1>1 DEF Inv, CanonicalMatchesHead, Running
  <1>6. DiskInv'
    <2>1. DiskRows(canonical, headKey, lastAccepted)
          BY <1>3, <1>5, PathRowsAreDiskRows
    <2> QED BY <2>1, <1>2, <1>4 DEF DiskInv, DiskRows, NoHole
  <1>7. CanonicalMatchesHead'
        BY <1>2, <1>5 DEF CanonicalMatchesHead, PathRows
  <1>8. TypeOK'
    <2>1. marker' \in Nat
          BY <1>1, <1>3, ChainAssumption DEF TypeOK, CommitAccepted, NextMarker
    <2>2. applied' \in AppliedCounts
      <3> DEFINE due(s) == FlushFrom(accepting.block) < s /\ s <= StagedSeq[accepting.block]
      <3>1. applied \in AppliedCounts
            BY <1>1 DEF TypeOK
      <3>2. applied' = [s \in DOMAIN applied |-> IF due(s) THEN applied[s] + 1 ELSE applied[s]]
            BY DEF CommitAccepted
      <3> HIDE DEF due
      <3> QED BY <3>1, <3>2 DEF AppliedCounts
    <2> QED BY <1>1, <1>2, <1>3, <2>1, <2>2, IdleTypes DEF TypeOK, BlockOrNone
  <1>9. MemoryInv'
        BY <1>1, <1>2, <1>3, <1>4 DEF Inv, MemoryInv, Running
  <1>10. BacklogIsPath'
    <2>1. Backlog' = Backlog
          BY <1>1, <1>2 DEF Backlog, Idle
    <2> QED BY <2>1, <1>1, <1>2, EqualBacklog DEF Inv, BacklogIsPath
  <1> QED BY <1>6, <1>7, <1>8, <1>9, <1>10 DEF Inv

\* What the acceptor's steps have in common.
LEMMA AcceptorFrame ==
    ASSUME Inv, AcceptorNext
    PROVE  /\ TypeOK /\ status = "up"
           /\ UNCHANGED <<canonical, headKey, blocks, lastAcceptedKey, marker, applied, status,
                          currentBlock, lastAccepted, accepting, recovery,
                          verified, rejected, finalized>>
           /\ DiskInv' /\ CanonicalMatchesHead' /\ BootBlock' = BootBlock
  <1>1. TypeOK /\ status = "up" /\ Running
        BY DEF Inv, AcceptorNext, Dequeue, WriteIndices, ProcessTrie, PublishTip, Running
  <1>2. UNCHANGED <<canonical, headKey, blocks, lastAcceptedKey, marker, applied, status,
                    currentBlock, lastAccepted, accepting, recovery,
                    verified, rejected, finalized>>
        BY DEF AcceptorNext, Dequeue, WriteIndices, ProcessTrie, PublishTip,
               chaindb, versiondb, engine
  <1> QED BY <1>1, <1>2, ChainUnchanged

\* A step of the acceptor that keeps the memory it does not own.
LEMMA AcceptorMemory ==
    ASSUME Inv, AcceptorNext, acceptorTip' \in Block,
           acceptor' = Idle \/ (acceptor'.step # "idle" /\ acceptor'.block \in Block)
    PROVE  MemoryInv'
  <1>1. /\ status = "up" /\ BootBlock' = BootBlock
        /\ UNCHANGED <<headKey, status, currentBlock, lastAccepted, accepting, recovery>>
        BY AcceptorFrame
  <1> QED BY <1>1 DEF Inv, MemoryInv, Running

\* The receive from acceptorQueue.
LEMMA DequeueInv ==
    ASSUME Inv, Dequeue
    PROVE  Inv'
  <1>1. AcceptorNext
        BY DEF AcceptorNext
  <1>2. /\ TypeOK /\ status = "up"
        /\ UNCHANGED <<canonical, headKey, blocks, lastAcceptedKey, marker, applied, status,
                       currentBlock, lastAccepted, accepting, recovery,
                       verified, rejected, finalized>>
        /\ DiskInv' /\ CanonicalMatchesHead' /\ BootBlock' = BootBlock
        BY <1>1, AcceptorFrame
  <1>3. /\ UNCHANGED <<tipKey, indexed, trie, acceptorTip, tips>>
        /\ acceptor = Idle /\ acceptorQueue # <<>> /\ acceptorQueue' = Tail(acceptorQueue)
        /\ acceptor' = [step |-> "indices", block |-> Head(acceptorQueue)]
        BY DEF Dequeue, CanReceive, chaindb
  <1>4. /\ acceptorQueue \in Seq(Block) /\ Head(acceptorQueue) \in Block
        /\ Tail(acceptorQueue) \in Seq(Block)
    <2>1. acceptorQueue \in Seq(Block)
          BY <1>2 DEF TypeOK
    <2> QED BY <2>1, <1>3
  <1>a. acceptor' \in AcceptorStates
        BY <1>3, <1>4 DEF AcceptorStates, BlockOrNone
  <1>5. TypeOK'
        BY <1>2, <1>3, <1>4, <1>a DEF TypeOK
  <1>6. MemoryInv'
        BY <1>1, <1>2, <1>3, <1>4, AcceptorMemory DEF Inv, MemoryInv
  <1>7. BacklogIsPath'
    <2> DEFINE e == IF accepting.step = "enqueue" THEN <<accepting.block>> ELSE <<>>
    <2>1. e \in Seq(Block)
          BY <1>2, BacklogSeq
    <2>2. Backlog = <<>> \o acceptorQueue \o e
          BY <1>3 DEF Backlog, Idle
    <2>3. Backlog' = <<Head(acceptorQueue)>> \o Tail(acceptorQueue) \o e
          BY <1>2, <1>3 DEF Backlog
    <2> HIDE DEF e
    <2>4. <<Head(acceptorQueue)>> \o Tail(acceptorQueue) = acceptorQueue
          BY <1>3, <1>4
    <2>5. Backlog' = Backlog
          BY <2>1, <2>2, <2>3, <2>4, <1>4
    <2>6. Len(acceptorQueue') <= AcceptorQueueLimit
      <3>1. Len(acceptorQueue) <= AcceptorQueueLimit
            BY <1>2 DEF Inv, BacklogIsPath
      <3>2. Len(Tail(acceptorQueue)) = Len(acceptorQueue) - 1 /\ Len(acceptorQueue) \in Nat
            BY <1>3, <1>4
      <3>3. Len(acceptorQueue') = Len(acceptorQueue) - 1
            BY <3>2, <1>3
      <3>4. AcceptorQueueLimit \in Nat
            BY ChainAssumption
      <3> QED BY <3>1, <3>2, <3>3, <3>4
    <2> QED BY <2>5, <2>6, <1>2, <1>3, EqualBacklog
  <1> QED BY <1>2, <1>5, <1>6, <1>7 DEF Inv

\* The batch of indices and acceptor tip, and the trie writer's Accept.
LEMMA ProcessInv ==
    ASSUME Inv, WriteIndices \/ ProcessTrie
    PROVE  Inv'
  <1>1. AcceptorNext
        BY DEF AcceptorNext
  <1>2. /\ TypeOK /\ status = "up"
        /\ UNCHANGED <<canonical, headKey, blocks, lastAcceptedKey, marker, applied, status,
                       currentBlock, lastAccepted, accepting, recovery,
                       verified, rejected, finalized>>
        /\ DiskInv' /\ CanonicalMatchesHead' /\ BootBlock' = BootBlock
        BY <1>1, AcceptorFrame
  <1>3. UNCHANGED <<acceptorTip, acceptorQueue>>
        BY DEF WriteIndices, ProcessTrie
  <1>4. acceptor.step # "idle" /\ acceptor.block \in Block /\ acceptorTip \in Block
        BY <1>2 DEF Inv, MemoryInv, Idle, WriteIndices, ProcessTrie
  <1>5. /\ acceptor'.step # "idle" /\ acceptor'.block = acceptor.block
        /\ acceptor' \in AcceptorStates
        BY <1>2 DEF TypeOK, WriteIndices, ProcessTrie, AcceptorStates
  <1>6. trie' \in TrieDBs /\ tips' \in Seq(Roots) /\ tipKey' \in BlockOrNone
        /\ indexed' \subseteq Block
    <2>1. CASE WriteIndices
          BY <2>1, <1>2, <1>4 DEF WriteIndices, TypeOK, BlockOrNone
    <2>2. CASE ProcessTrie
      <3>1. trie \in TrieDBs /\ tips \in Seq(Roots) /\ UNCHANGED <<tipKey, indexed>>
            BY <2>2, <1>2 DEF TypeOK, ProcessTrie, chaindb
      <3>2. AcceptTrie(trie, tips, acceptor.block) \subseteq TrieDBs
            /\ AcceptTips(tips, acceptor.block) \in Seq(Roots)
            BY <3>1, <1>4, AcceptTypes
      <3> QED BY <2>2, <3>1, <3>2, <1>2 DEF ProcessTrie, TypeOK
    <2> QED BY <2>1, <2>2
  <1>7. TypeOK'
        BY <1>2, <1>3, <1>5, <1>6 DEF TypeOK
  <1>8. MemoryInv'
        BY <1>1, <1>3, <1>4, <1>5, AcceptorMemory
  <1>9. BacklogIsPath'
    <2>1. Backlog' = Backlog
          BY <1>2, <1>3, <1>4, <1>5 DEF Backlog
    <2> QED BY <2>1, <1>2, <1>3, EqualBacklog DEF Inv, BacklogIsPath
  <1> QED BY <1>2, <1>7, <1>8, <1>9 DEF Inv

\* The acceptor tip moves to the head of the backlog.
LEMMA TipIsNext ==
    ASSUME Inv, PublishTip
    PROVE  /\ acceptorTip \in Block /\ lastAccepted \in Block
           /\ Height[acceptorTip] < Height[lastAccepted]
           /\ acceptor.block = Path[lastAccepted][Height[acceptorTip] + 1]
           /\ Len(Backlog) >= 1
           /\ \E rest \in Seq(Block) : Backlog = <<acceptor.block>> \o rest /\ Backlog' = rest
  <1>1. status = "up" /\ acceptor.step = "tip" /\ acceptor' = Idle
        /\ UNCHANGED <<acceptorQueue, accepting>>
        BY DEF PublishTip
  <1>2. /\ acceptorTip \in Block /\ lastAccepted \in Block /\ acceptor.block \in Block
        /\ acceptorQueue \in Seq(Block)
    <2>1. acceptorTip \in Block /\ lastAccepted \in Block
          BY <1>1 DEF Inv, MemoryInv, Running
    <2>2. acceptor.block \in Block
          BY <1>1, IdleTypes DEF Inv, MemoryInv
    <2> QED BY <2>1, <2>2, <1>1, BacklogSeq
  <1> DEFINE e == IF accepting.step = "enqueue" THEN <<accepting.block>> ELSE <<>>
             rest == acceptorQueue \o e
  <1>3. e \in Seq(Block)
        BY <1>1, BacklogSeq
  <1>4. Backlog = <<acceptor.block>> \o acceptorQueue \o e /\ Backlog' = <<>> \o acceptorQueue \o e
        BY <1>1 DEF Backlog, Idle
  <1> HIDE DEF e
  <1>5. rest \in Seq(Block) /\ Backlog = <<acceptor.block>> \o rest /\ Backlog' = rest
        BY <1>2, <1>3, <1>4
  <1> HIDE DEF rest
  <1>6. Len(Backlog) = 1 + Len(rest) /\ Len(rest) \in Nat /\ Backlog[1] = acceptor.block
        BY <1>5, <1>2
  <1>7. /\ Height[acceptorTip] + Len(Backlog) = Height[lastAccepted]
        /\ \A i \in 1..Len(Backlog) : Backlog[i] = Path[lastAccepted][Height[acceptorTip] + i]
        BY <1>1 DEF Inv, BacklogIsPath
  <1>8. Height[acceptorTip] \in Nat
        BY <1>2, HeightNat
  <1>9. Height[acceptorTip] < Height[lastAccepted]
    <2>1. Height[acceptorTip] + 1 + Len(rest) = Height[lastAccepted]
          BY <1>6, <1>7, <1>8
    <2> QED BY <2>1, <1>6, <1>8
  <1>10. acceptor.block = Path[lastAccepted][Height[acceptorTip] + 1]
        BY <1>6, <1>7
  <1> QED BY <1>2, <1>5, <1>6, <1>9, <1>10, SMTT(30)

\* The acceptor tip is published.
LEMMA PublishTipInv ==
    ASSUME Inv, PublishTip
    PROVE  Inv'
  <1>1. AcceptorNext
        BY DEF AcceptorNext
  <1>2. /\ TypeOK /\ status = "up"
        /\ UNCHANGED <<canonical, headKey, blocks, lastAcceptedKey, marker, applied, status,
                       currentBlock, lastAccepted, accepting, recovery,
                       verified, rejected, finalized>>
        /\ DiskInv' /\ CanonicalMatchesHead' /\ BootBlock' = BootBlock
        BY <1>1, AcceptorFrame
  <1>3. /\ UNCHANGED <<tipKey, indexed, trie, acceptorQueue, tips>>
        /\ acceptorTip' = acceptor.block /\ acceptor' = Idle
        BY DEF PublishTip, chaindb
  <1>4. /\ acceptorTip \in Block /\ lastAccepted \in Block
        /\ Height[acceptorTip] < Height[lastAccepted]
        /\ acceptor.block = Path[lastAccepted][Height[acceptorTip] + 1]
        BY TipIsNext
  <1>5. PICK rest \in Seq(Block) : Backlog = <<acceptor.block>> \o rest /\ Backlog' = rest
        BY TipIsNext
  <1>6. Height[acceptorTip] \in Nat /\ Height[lastAccepted] \in Nat
        /\ Height[acceptorTip] + 1 \in 0..Height[lastAccepted]
        BY <1>4, HeightNat
  <1>7. /\ acceptor.block \in Block /\ Height[acceptor.block] = Height[acceptorTip] + 1
        /\ OnPath(acceptor.block, lastAccepted)
    <2> DEFINE h == Height[acceptorTip] + 1
    <2>1. h \in 0..Height[lastAccepted] /\ acceptor.block = Path[lastAccepted][h]
          BY <1>4, <1>6
    <2> HIDE DEF h
    <2>2. /\ Path[lastAccepted][h] \in Block /\ Height[Path[lastAccepted][h]] = h
          /\ OnPath(Path[lastAccepted][h], lastAccepted)
          BY <2>1, <1>4, PathPrefix, Zenon
    <2> QED BY <2>1, <2>2, Zenon DEF h
  <1>8. TypeOK'
        BY <1>2, <1>3, <1>7, IdleTypes DEF TypeOK, BlockOrNone
  <1>9. MemoryInv'
        BY <1>1, <1>3, <1>7, AcceptorMemory
  <1>10. BacklogIsPath'
    <2>1. /\ Len(Backlog) = 1 + Len(rest) /\ Len(rest) \in Nat
          /\ \A i \in 1..Len(rest) : i + 1 \in 1..Len(Backlog) /\ rest[i] = Backlog[i + 1]
          BY <1>5, <1>7
    <2>2. /\ Len(acceptorQueue) <= AcceptorQueueLimit
          /\ Height[acceptorTip] + Len(Backlog) = Height[lastAccepted]
          /\ \A i \in 1..Len(Backlog) : Backlog[i] = Path[lastAccepted][Height[acceptorTip] + i]
          BY <1>2 DEF Inv, BacklogIsPath
    <2>3. Height[acceptor.block] + Len(rest) = Height[lastAccepted]
      <3>1. Height[acceptorTip] + (1 + Len(rest)) = Height[lastAccepted]
            BY <2>1, <2>2
      <3>2. Height[acceptor.block] = Height[acceptorTip] + 1
            BY <1>7
      <3>n. Len(rest) \in Nat /\ Height[acceptorTip] \in Nat
            BY <2>1, <1>6
      <3>3. (Height[acceptorTip] + 1) + Len(rest) = Height[acceptorTip] + (1 + Len(rest))
            BY <3>n
      <3> QED BY <3>1, <3>2, <3>3, Zenon
    <2>4. ASSUME NEW i \in 1..Len(rest)
          PROVE  rest[i] = Path[lastAccepted][Height[acceptor.block] + i]
      <3>1. rest[i] = Path[lastAccepted][Height[acceptorTip] + (i + 1)]
            BY <2>1, <2>2
      <3>i. i \in Nat
            BY <2>1
      <3>2. Height[acceptorTip] + (i + 1) = Height[acceptor.block] + i
            BY <3>i, <1>6, <1>7, SMTT(30)
      <3> QED BY <3>1, <3>2
    <2> QED BY <2>2, <2>3, <2>4, <1>2, <1>3, <1>5, <1>7 DEF BacklogIsPath
  <1> QED BY <1>2, <1>8, <1>9, <1>10 DEF Inv

----------------------------------------------------------------------------
(* The theorems *)

\* Every step keeps the invariant: one case per action of Next.
LEMMA NextInv ==
    ASSUME OneIndexBatch, Inv, [Next]_vars
    PROVE  Inv'
  <1>1. ASSUME NEW b \in Block, Verify(b) PROVE Inv'
        BY <1>1, VerifyInv
  <1>2. ASSUME NEW b \in Block, SetPreference(b) PROVE Inv'
        BY <1>2, SetPreferenceInv
  <1>3. ASSUME NEW b \in Block, Accept(b) PROVE Inv'
        BY <1>3, AcceptInv
  <1>4. ASSUME NEW b \in Block, Reject(b) PROVE Inv'
        BY <1>4, RejectInv
  <1>5. CASE Enqueue
        BY <1>5, EnqueueInv
  <1>6. CASE CommitAccepted
        BY <1>6, CommitAcceptedInv
  <1>7. CASE Dequeue
        BY <1>7, DequeueInv
  <1>8. CASE WriteIndices \/ ProcessTrie
        BY <1>8, ProcessInv
  <1>9. CASE PublishTip
        BY <1>9, PublishTipInv
  <1>10. CASE Boot
        BY <1>10, BootInv
  <1>11. CASE BeginRecovery \/ Reexecute \/ FinishRecovery
        BY <1>11, RecoveryInv
  <1>12. CASE Stop \/ Crash \/ FailBoot \/ \E b \in Block : CrashInInsert(b)
        BY <1>12, StopsInv
  <1>13. CASE CrashInBoot
        BY <1>13, CrashInBootInv
  <1>14. ASSUME NEW b \in Block, CrashInReorg(b) PROVE Inv'
        BY <1>14, CrashInReorgInv
  <1>15. CASE UNCHANGED vars
    <2> USE <1>15 DEF vars, chaindb, versiondb, memory, engine
    <2>1. TypeOK'
          BY DEF Inv, TypeOK
    <2>2. DiskInv'
          BY DEF Inv, DiskInv, BootBlock
    <2>3. MemoryInv'
          BY DEF Inv, MemoryInv, Running, BootBlock
    <2>4. CanonicalMatchesHead'
          BY DEF Inv, CanonicalMatchesHead, Running, PathRows
    <2>5. BacklogIsPath'
          BY DEF Inv, BacklogIsPath, Backlog
    <2> QED BY <2>1, <2>2, <2>3, <2>4, <2>5 DEF Inv
  <1> QED BY <1>1, <1>2, <1>3, <1>4, <1>5, <1>6, <1>7, <1>8, <1>9, <1>10, <1>11, <1>12,
             <1>13, <1>14, <1>15
          DEF Next, EngineNext, AcceptNext, AcceptorNext, BootNext, CrashNext

\* The invariant holds in every state of every behaviour, for every block tree,
\* configuration and engine (equivocating or not), as long as the rows that a
\* reorg deletes fit in one batch.
THEOREM InvariantHolds == Spec /\ []OneIndexBatch => []Inv
  <1>1. Init => Inv
        BY InitInv
  <1>2. OneIndexBatch /\ Inv /\ [Next]_vars => Inv'
        BY NextInv
  <1> QED BY <1>1, <1>2, PTL DEF Spec

\* Type correctness.
THEOREM TypeCorrect == Spec /\ []OneIndexBatch => []TypeOK
  <1>1. Inv => TypeOK
        BY DEF Inv
  <1> QED BY <1>1, InvariantHolds, PTL

\* A loaded chain's canonical rows are the path to its head, which descends from
\* the last accepted block, after any history of reorgs and crashes.
THEOREM CanonicalChain == Spec /\ []OneIndexBatch => []CanonicalMatchesHead
  <1>1. Inv => CanonicalMatchesHead
        BY DEF Inv
  <1> QED BY <1>1, InvariantHolds, PTL

\* The acceptor's backlog is the path from its tip to the last accepted block.
THEOREM AcceptorBacklog == Spec /\ []OneIndexBatch => []BacklogIsPath
  <1>1. Inv => BacklogIsPath
        BY DEF Inv
  <1> QED BY <1>1, InvariantHolds, PTL

----------------------------------------------------------------------------
(* What the acceptor has processed, and what only Block.Accept writes *)

\* Nothing but the end of Block.Accept writes to the versiondb.
LEMMA VersionFrame ==
    ASSUME [Next]_vars, ~CommitAccepted
    PROVE  UNCHANGED versiondb
  BY Zenon
     DEF Next, EngineNext, AcceptNext, AcceptorNext, BootNext, CrashNext, vars,
         Verify, SetPreference, Accept, Reject, Enqueue, Dequeue, WriteIndices, ProcessTrie,
         PublishTip, Boot, BeginRecovery, Reexecute, FinishRecovery, FailBoot, Stop, Crash,
         CrashInBoot, CrashInReorg, CrashInInsert

\* The acceptor works on the block after its tip.
LEMMA AcceptorBlock ==
    ASSUME Inv, status = "up", acceptor.step # "idle"
    PROVE  /\ Height[acceptorTip] < Height[lastAccepted]
           /\ acceptor.block = Path[lastAccepted][Height[acceptorTip] + 1]
  <1> DEFINE e == IF accepting.step = "enqueue" THEN <<accepting.block>> ELSE <<>>
             rest == acceptorQueue \o e
  <1>1. acceptorTip \in Block /\ acceptor.block \in Block
        BY IdleTypes DEF Inv, MemoryInv
  <1>2. acceptorQueue \in Seq(Block) /\ e \in Seq(Block)
        BY BacklogSeq
  <1>3. Backlog = <<acceptor.block>> \o acceptorQueue \o e
        BY DEF Backlog
  <1> HIDE DEF e
  <1>4. rest \in Seq(Block) /\ Backlog = <<acceptor.block>> \o rest
        BY <1>1, <1>2, <1>3
  <1> HIDE DEF rest
  <1>5. Len(Backlog) = 1 + Len(rest) /\ Len(rest) \in Nat /\ Backlog[1] = acceptor.block
        BY <1>1, <1>4
  <1>6. /\ Height[acceptorTip] + Len(Backlog) = Height[lastAccepted]
        /\ \A i \in 1..Len(Backlog) : Backlog[i] = Path[lastAccepted][Height[acceptorTip] + i]
        BY DEF Inv, BacklogIsPath
  <1>7. Height[acceptorTip] \in Nat
        BY <1>1, HeightNat
  <1>8. Height[acceptorTip] < Height[lastAccepted]
        BY <1>5, <1>6, <1>7
  <1>9. 1 \in 1..Len(Backlog)
        BY <1>5
  <1>10. acceptor.block = Path[lastAccepted][Height[acceptorTip] + 1]
        BY <1>5, <1>6, <1>9
  <1> QED BY <1>8, <1>10

\* What was processed is accepted.
LEMMA ProcessedRange ==
    ASSUME Inv, status = "up"
    PROVE  /\ lastAccepted \in Block /\ Height[lastAccepted] \in Nat
           /\ acceptorTip \in Block /\ Height[acceptorTip] \in Nat
           /\ ProcessedHeight \in Nat /\ ProcessedHeight <= Height[lastAccepted]
           /\ tips \in Seq(Roots) /\ Len(tips) \in Nat
           /\ trie \in TrieDBs /\ verified \subseteq Block
  <1>1. /\ lastAccepted \in Block /\ acceptorTip \in Block /\ tips \in Seq(Roots)
        /\ trie \in TrieDBs /\ verified \subseteq Block
        BY DEF Inv, MemoryInv, TypeOK, Running
  <1>2. Height[lastAccepted] \in Nat /\ Height[acceptorTip] \in Nat
        BY <1>1, HeightNat
  <1>3. Height[acceptorTip] <= Height[lastAccepted]
        BY DEF Inv, BacklogIsPath, OnPath
  <1>4. ProcessedHeight \in Nat /\ ProcessedHeight <= Height[lastAccepted]
    <2>1. CASE acceptor.step = "tip"
      <3>1. Height[acceptorTip] < Height[lastAccepted]
            BY <2>1, AcceptorBlock
      <3> QED BY <3>1, <2>1, <1>2 DEF ProcessedHeight
    <2>2. CASE acceptor.step # "tip"
          BY <2>2, <1>2, <1>3 DEF ProcessedHeight
    <2> QED BY <2>1, <2>2
  <1>5. Len(tips) \in Nat
        BY <1>1
  <1> QED BY <1>1, <1>2, <1>4, <1>5

\* The last block given to AcceptTrie moves one up.
LEMMA ProcessedMoves ==
    ASSUME Inv, status = "up", ProcessTrie
    PROVE  /\ ProcessedHeight' = ProcessedHeight + 1
           /\ ProcessedHeight + 1 <= Height[lastAccepted]
           /\ acceptor.block = Path[lastAccepted][ProcessedHeight + 1]
           /\ acceptor.block \in Block
  <1>1. /\ acceptor.step = "trie" /\ acceptor' = [acceptor EXCEPT !.step = "tip"]
        /\ acceptorTip' = acceptorTip
        BY DEF ProcessTrie
  <1>2. acceptor'.step = "tip"
        BY <1>1 DEF Inv, TypeOK, AcceptorStates
  <1>3. /\ Height[acceptorTip] \in Nat /\ Height[lastAccepted] \in Nat
        /\ Height[acceptorTip] < Height[lastAccepted]
        /\ acceptor.block = Path[lastAccepted][Height[acceptorTip] + 1]
        BY <1>1, ProcessedRange, AcceptorBlock
  <1>4. ProcessedHeight = Height[acceptorTip] /\ ProcessedHeight' = Height[acceptorTip] + 1
        BY <1>1, <1>2, <1>3 DEF ProcessedHeight
  <1>5. acceptor.block \in Block
        BY <1>1, IdleTypes DEF Inv, MemoryInv
  <1> QED BY <1>3, <1>4, <1>5

----------------------------------------------------------------------------
(* BlockChain implements FinalityLog *)

\* Init maps to the initial state of the log.
LEMMA LogInit == Init => Log!Init
  BY DEF Init, Log!Init, Running, BootBlock

\* A step that keeps the four abstract variables is a stutter of the log.
LEMMA LogStutter ==
    ASSUME UNCHANGED <<accepted, processed, BootBlock, finalized>>
    PROVE  UNCHANGED Log!vars
  BY DEF Log!vars, accepted, processed

\* Accepting a block finalizes it.
LEMMA LogAccept ==
    ASSUME Inv, NEW b \in Block, Accept(b)
    PROVE  Log!Finalize(b)
  <1>1. Serving /\ status = "up" /\ UNCHANGED <<status, acceptorTip, lastAcceptedKey>>
        BY DEF Accept, Serving, versiondb
  <1>2. BootBlock = lastAccepted /\ BootBlock' = BootBlock
        BY <1>1, ServingFacts DEF BootBlock
  <1>3. /\ Parent(b) = lastAccepted /\ lastAccepted' = b /\ finalized' = finalized \cup {b}
        /\ \A c \in finalized : Height[c] = Height[b] => c = b
        BY DEF Accept, Acceptable
  <1> QED BY <1>1, <1>2, <1>3 DEF Log!Finalize, Log!Parent, Parent, Running

\* Committing the last accepted block makes it durable.
LEMMA LogCommit ==
    ASSUME Inv, CommitAccepted
    PROVE  Log!Persist
  <1>1. /\ status = "up" /\ accepting.step = "commit" /\ lastAcceptedKey' = accepting.block
        /\ UNCHANGED <<status, acceptorTip, lastAccepted, finalized>>
        BY DEF CommitAccepted, engine
  <1>2. accepting.block = lastAccepted /\ lastAccepted \in Block
        BY <1>1 DEF Inv, MemoryInv, Running, Idle
  <1>3. BootBlock' = lastAccepted
        BY <1>1, <1>2, NoBlockAssumption DEF BootBlock
  <1> QED BY <1>1, <1>3 DEF Log!Persist, Running

\* Publishing the acceptor tip processes the next accepted block.
LEMMA LogPublish ==
    ASSUME Inv, PublishTip
    PROVE  Log!Process
  <1>1. /\ status = "up" /\ acceptorTip' = acceptor.block
        /\ UNCHANGED <<status, lastAccepted, lastAcceptedKey, finalized>>
        BY DEF PublishTip, versiondb, engine
  <1>2. /\ Height[acceptorTip] < Height[lastAccepted]
        /\ acceptor.block = Path[lastAccepted][Height[acceptorTip] + 1]
        BY TipIsNext
  <1>3. BootBlock' = BootBlock
        BY <1>1 DEF BootBlock
  <1> QED BY <1>1, <1>2, <1>3 DEF Log!Process, Running

\* A process that ends falls back to the durable block.
LEMMA LogRestart ==
    ASSUME NEW s \in {"down", "failed"}, NEW t, Exit(s, t), UNCHANGED versiondb
    PROVE  Log!Restart
  BY DEF Exit, versiondb, Log!Restart, Running, BootBlock

\* Start-up does not change what is accepted, processed or durable.
LEMMA LogBoot ==
    ASSUME Inv, Boot \/ BeginRecovery \/ Reexecute \/ FinishRecovery
    PROVE  UNCHANGED <<accepted, processed, BootBlock, finalized>>
  <1>1. BootBlock' = BootBlock /\ finalized' = finalized
        BY DEF Boot, BeginRecovery, Reexecute, FinishRecovery, versiondb, engine, BootBlock
  <1>2. CASE Boot
        BY <1>1, <1>2 DEF Boot, NotRunning, accepted, processed, Running
  <1>3. CASE BeginRecovery \/ Reexecute \/ FinishRecovery
    <2>1. status \in {"loading", "recovering"} /\ lastAccepted' = lastAccepted
          BY <1>3 DEF BeginRecovery, Reexecute, FinishRecovery, InLoop, LoopDone
    <2>2. lastAccepted = BootBlock
          BY <2>1 DEF Inv, MemoryInv, Running
    <2>3. \/ status' = "recovering"
          \/ status' = "up" /\ acceptorTip' = lastAccepted
          BY <1>3, <2>1 DEF BeginRecovery, Reexecute, FinishRecovery, Start, InLoop
    <2> QED BY <1>1, <2>1, <2>2, <2>3 DEF accepted, processed, Running
  <1> QED BY <1>2, <1>3

\* The engine's other calls and the acceptor's other steps are stutters.
LEMMA LogQuiet ==
    ASSUME \/ \E b \in Block : Verify(b) \/ SetPreference(b) \/ Reject(b)
           \/ Enqueue \/ Dequeue \/ WriteIndices \/ ProcessTrie
    PROVE  UNCHANGED <<accepted, processed, BootBlock, finalized>>
  <1>1. UNCHANGED <<status, lastAccepted, acceptorTip, lastAcceptedKey, finalized>>
        BY DEF Verify, SetPreference, Reject, Enqueue, Dequeue, WriteIndices, ProcessTrie,
               versiondb, memory, engine
  <1> QED BY <1>1 DEF accepted, processed, Running, BootBlock

\* Every step of the chain is a step of the log or a stutter.
LEMMA LogNext ==
    ASSUME Inv, [Next]_vars
    PROVE  [Log!Next]_(Log!vars)
  <1>1. ASSUME NEW b \in Block, Accept(b) PROVE Log!Next
        BY <1>1, LogAccept DEF Log!Next
  <1>2. CASE CommitAccepted
        BY <1>2, LogCommit DEF Log!Next
  <1>3. CASE PublishTip
        BY <1>3, LogPublish DEF Log!Next
  <1>4. CASE Stop \/ FailBoot \/ CrashNext
        BY <1>4, LogRestart
        DEF Stop, FailBoot, CrashNext, Crash, CrashInBoot, CrashInReorg, CrashInInsert, Log!Next
  <1>5. CASE Boot \/ BeginRecovery \/ Reexecute \/ FinishRecovery
        BY <1>5, LogBoot, LogStutter
  <1>6. CASE \/ \E b \in Block : Verify(b) \/ SetPreference(b) \/ Reject(b)
             \/ Enqueue \/ Dequeue \/ WriteIndices \/ ProcessTrie
        BY <1>6, LogQuiet, LogStutter
  <1>7. CASE UNCHANGED vars
    <2>1. UNCHANGED <<status, lastAccepted, acceptorTip, lastAcceptedKey, finalized>>
          BY <1>7 DEF vars, versiondb, memory, engine
    <2>2. UNCHANGED <<accepted, processed, BootBlock, finalized>>
          BY <2>1 DEF accepted, processed, Running, BootBlock
    <2> QED BY <2>2, LogStutter
  <1> QED BY <1>1, <1>2, <1>3, <1>4, <1>5, <1>6, <1>7
          DEF Next, EngineNext, AcceptNext, AcceptorNext, BootNext

\* The chain implements the finality log: whatever is verified, preferred,
\* rejected, queued, flushed or lost in a crash, blocks are accepted one child at
\* a time, processed in order without a gap, and a restart resumes from the last
\* block Block.Accept committed.
THEOREM Refinement == Spec /\ []OneIndexBatch => ImplementsFinalityLog
  <1>1. Init => Log!Init
        BY LogInit
  <1>2. Inv /\ [Next]_vars => [Log!Next]_(Log!vars)
        BY LogNext
  <1> QED BY <1>1, <1>2, InvariantHolds, PTL DEF Spec, ImplementsFinalityLog, Log!Spec

----------------------------------------------------------------------------
(* Finality *)

\* The abstract variables hold blocks.
LEMMA LogTypes ==
    ASSUME Inv
    PROVE  accepted \in Block /\ processed \in Block /\ BootBlock \in Block
           /\ finalized \subseteq Block
  BY DiskInvRows DEF Inv, TypeOK, MemoryInv, Running, accepted, processed

\* The accepted chain never forks, whatever crashes do to it.
THEOREM Finality == Spec /\ []OneIndexBatch => []FinalChain
  <1>1. Init => FinalChain
        BY LogOneChainInit
  <1>2. Inv /\ FinalChain /\ [Next]_vars => FinalChain'
    <2>1. ASSUME Inv, FinalChain, [Next]_vars PROVE FinalChain'
      <3>1. [Log!Next]_(Log!vars)
            BY <2>1, LogNext
      <3>2. /\ accepted \in Block /\ processed \in Block /\ BootBlock \in Block
            /\ finalized \subseteq Block
            BY <2>1, LogTypes
      <3> QED BY <3>1, <3>2, <2>1, LogOneChain
    <2> QED BY <2>1
  <1> QED BY <1>1, <1>2, InvariantHolds, PTL DEF Spec

----------------------------------------------------------------------------
(* Staged requests *)

\* The marker is the number of requests staged up to the durable block.
MarkerInv == marker = StagedSeq[BootBlock] /\ StagedAppliedOnce

\* A block stages at least what its parent did.
LEMMA StagedGrows ==
    ASSUME NEW b \in Block, Parent(b) \in Block
    PROVE  /\ StagedSeq[b] \in Nat /\ StagedSeq[Parent(b)] \in Nat
           /\ StagedSeq[Parent(b)] <= StagedSeq[b]
  <1>1. Parent(b) = Path[b][Height[b] - 1] /\ Height[b] = Height[Parent(b)] + 1
        BY ChildPath, NoBlockAssumption DEF Parent
  <1>2. Height[b] - 1 \in 0..Height[b]
        BY <1>1, HeightNat
  <1> QED BY <1>1, <1>2, ChainAssumption, Zenon

\* The end of Block.Accept applies the requests the block staged, and only those.
LEMMA CommitMarker ==
    ASSUME Inv, MarkerInv, CommitAccepted
    PROVE  MarkerInv'
  <1> DEFINE b == accepting.block
  <1>1. /\ accepting.step = "commit" /\ lastAcceptedKey' = b /\ marker' = NextMarker(b)
        /\ applied' = [s \in DOMAIN applied |->
                          IF FlushFrom(b) < s /\ s <= StagedSeq[b]
                          THEN applied[s] + 1 ELSE applied[s]]
        BY DEF CommitAccepted
  <1>2. b \in Block /\ Parent(b) = BootBlock /\ BootBlock \in Block
    <2>1. accepting # Idle
          BY <1>1 DEF Idle
    <2>2. status = "up" /\ b = lastAccepted /\ Parent(lastAccepted) = BootBlock
          BY <2>1 DEF Inv, MemoryInv
    <2>3. lastAccepted \in Block
          BY <2>2 DEF Inv, MemoryInv, Running
    <2> QED BY <2>2, <2>3, DiskInvRows DEF Inv
  <1>3. BootBlock' = b
        BY <1>1, <1>2, NoBlockAssumption DEF BootBlock
  <1>4. /\ StagedSeq[b] \in Nat /\ StagedSeq[BootBlock] \in Nat
        /\ StagedSeq[BootBlock] <= StagedSeq[b] /\ marker = StagedSeq[BootBlock]
        BY <1>2, StagedGrows DEF MarkerInv
  <1>5. FlushFrom(b) = marker
        BY <1>2, <1>4 DEF FlushFrom, Max2
  <1>6. marker' = StagedSeq[b]
        BY <1>1, <1>4, <1>5 DEF NextMarker
  <1>7. ASSUME NEW s \in DOMAIN applied
        PROVE  applied'[s] = IF s <= StagedSeq[b] THEN 1 ELSE 0
    <2>1. s \in Nat
      <3>1. s \in UNION {1..StagedSeq[c] : c \in Block}
            BY <1>7 DEF Inv, TypeOK, AppliedCounts
      <3> QED BY <3>1, ChainAssumption
    <2>2. applied[s] = IF s <= StagedSeq[BootBlock] THEN 1 ELSE 0
          BY DEF MarkerInv, StagedAppliedOnce
    <2>3. applied'[s] = IF StagedSeq[BootBlock] < s /\ s <= StagedSeq[b]
                        THEN applied[s] + 1 ELSE applied[s]
          BY <1>1, <1>4, <1>5
    <2> QED BY <2>1, <2>2, <2>3, <1>4
  <1>8. DOMAIN applied' = DOMAIN applied
        BY <1>1
  <1> QED BY <1>3, <1>6, <1>7, <1>8 DEF MarkerInv, StagedAppliedOnce

\* Every request an accepted block staged reaches shared memory exactly once,
\* together with lastAcceptedKey, wherever the process crashes (stageDexAtomic).
THEOREM StagedOnce == Spec /\ []OneIndexBatch => []StagedAppliedOnce
  <1>1. Init => MarkerInv
    <2> SUFFICES ASSUME Init PROVE MarkerInv
        OBVIOUS
    <2>1. BootBlock = Genesis /\ marker = 0 /\ StagedSeq[Genesis] = 0
          BY ChainAssumption DEF Init, BootBlock
    <2>2. applied = [s \in UNION {1..StagedSeq[b] : b \in Block} |-> 0]
          BY DEF Init
    <2>3. \A s \in DOMAIN applied : s \in Nat /\ s >= 1 /\ applied[s] = 0
          BY <2>2, ChainAssumption
    <2> QED BY <2>1, <2>3 DEF MarkerInv, StagedAppliedOnce
  <1>2. Inv /\ MarkerInv /\ [Next]_vars => MarkerInv'
    <2> SUFFICES ASSUME Inv, MarkerInv, [Next]_vars PROVE MarkerInv'
        OBVIOUS
    <2>1. CASE CommitAccepted
          BY <2>1, CommitMarker
    <2>2. CASE ~CommitAccepted
      <3>1. UNCHANGED <<lastAcceptedKey, marker, applied>>
            BY <2>2, VersionFrame DEF versiondb
      <3> QED BY <3>1 DEF MarkerInv, StagedAppliedOnce, BootBlock
    <2> QED BY <2>1, <2>2
  <1>3. MarkerInv => StagedAppliedOnce
        BY DEF MarkerInv
  <1> QED BY <1>1, <1>2, <1>3, InvariantHolds, PTL DEF Spec

----------------------------------------------------------------------------
(* References *)

\* A set without a number for one of its elements.
LEMMA FitsFewer ==
    ASSUME NEW B, NEW C \in SUBSET B, NEW n \in Nat, FitsIn(B, n)
    PROVE  FitsIn(C, n)
  <1>1. PICK f \in [B -> 1..n] : \A x, y \in B : f[x] = f[y] => x = y
        BY DEF FitsIn
  <1> DEFINE g == [x \in C |-> f[x]]
  <1>2. g \in [C -> 1..n] /\ \A x, y \in C : g[x] = g[y] => x = y
        BY <1>1
  <1> QED BY <1>2, Zenon DEF FitsIn

\* One more element needs one more number.
LEMMA FitsAdd ==
    ASSUME NEW B, NEW n \in Nat, FitsIn(B, n) \/ B = {}, NEW b
    PROVE  FitsIn(B \cup {b}, n + 1)
  <1>1. PICK f \in [B -> 1..n] : \A x, y \in B : f[x] = f[y] => x = y
    <2>1. CASE B = {}
      <3>1. [x \in {} |-> 1] \in [{} -> 1..n]
            OBVIOUS
      <3> QED BY <2>1, <3>1, Zenon
    <2> QED BY <2>1 DEF FitsIn
  <1> DEFINE g == [x \in B \cup {b} |-> IF x \in B THEN f[x] ELSE n + 1]
  <1>2. g \in [B \cup {b} -> 1..(n + 1)]
        BY <1>1
  <1>3. \A x, y \in B \cup {b} : g[x] = g[y] => x = y
        BY <1>1
  <1> QED BY <1>2, <1>3, Zenon DEF FitsIn

\* One element less frees a number: the last one is given to who had its place.
LEMMA FitsRemove ==
    ASSUME NEW B, NEW n \in Nat, FitsIn(B, n), NEW b \in B
    PROVE  n > 0 /\ FitsIn(B \ {b}, n - 1) /\ (B \ {b} # {} => n > 1)
  <1>1. PICK f \in [B -> 1..n] : \A x, y \in B : f[x] = f[y] => x = y
        BY DEF FitsIn
  <1>2. n > 0 /\ f[b] \in 1..n
        BY <1>1
  <1> DEFINE g == [x \in B \ {b} |-> IF f[x] = n THEN f[b] ELSE f[x]]
  <1>3. ASSUME NEW x \in B \ {b} PROVE f[x] \in 1..n /\ f[x] # f[b]
        BY <1>1
  <1>4. ASSUME NEW x \in B \ {b} PROVE g[x] \in 1..(n - 1)
        BY <1>2, <1>3
  <1>5. ASSUME NEW x \in B \ {b}, NEW y \in B \ {b}, g[x] = g[y] PROVE x = y
    <2>1. f[x] = f[y]
          BY <1>2, <1>3, <1>5
    <2> QED BY <2>1, <1>1
  <1>6. g \in [B \ {b} -> 1..(n - 1)]
        BY <1>4
  <1>7. B \ {b} # {} => n > 1
        BY <1>2, <1>4
  <1> QED BY <1>2, <1>5, <1>6, <1>7, Zenon DEF FitsIn

\* The state of a block that holds a reference is there.
LEMMA CoveredState ==
    ASSUME NEW t, NEW S, Covered(t, S), NEW b \in S, Root[b] \in Roots
    PROVE  HasState(t, Root[b])
  BY Zenon DEF Covered, WithRoot, HasState

\* An update gives the new block a reference of its own.
LEMMA CoveredUpdate ==
    ASSUME RootReferencedOnUpdate,
           NEW t \in TrieDBs, NEW S, Covered(t, S), NEW b \in Block
    PROVE  Covered(Update(t, Root[b]), S \cup {b})
  <1> DEFINE u == Update(t, Root[b])
  <1>1. /\ u.dirty = t.dirty \cup {Root[b]} /\ u.disk = t.disk
        /\ u.refs = [t.refs EXCEPT ![Root[b]] = t.refs[Root[b]] + 1]
        BY DEF Update
  <1>2. t.refs \in [Roots -> Nat]
        BY DEF TrieDBs
  <1>3. ASSUME NEW r \in Roots \ u.disk, WithRoot(S \cup {b}, r) # {}
        PROVE  r \in u.dirty /\ FitsIn(WithRoot(S \cup {b}, r), u.refs[r])
    <2>1. r \in Roots \ t.disk
          BY <1>1, <1>3
    <2>2. WithRoot(S, r) # {} => r \in t.dirty /\ FitsIn(WithRoot(S, r), t.refs[r])
          BY <2>1, Zenon DEF Covered
    <2>3. CASE Root[b] # r
      <3>1. WithRoot(S \cup {b}, r) = WithRoot(S, r)
            BY <2>3 DEF WithRoot
      <3>2. r \in u.dirty /\ u.refs[r] = t.refs[r]
            BY <2>2, <2>3, <3>1, <1>1, <1>2, <1>3, Zenon
      <3> QED BY <2>2, <3>1, <3>2, <1>3, Zenon
    <2>4. CASE Root[b] = r
      <3>1. WithRoot(S \cup {b}, r) = WithRoot(S, r) \cup {b}
            BY <2>4 DEF WithRoot
      <3>2. u.refs[r] = t.refs[r] + 1 /\ t.refs[r] \in Nat /\ r \in u.dirty
            BY <2>4, <1>1, <1>2
      <3>3. FitsIn(WithRoot(S, r) \cup {b}, t.refs[r] + 1)
            BY <2>2, <3>2, FitsAdd, Zenon
      <3> QED BY <3>1, <3>2, <3>3, Zenon
    <2> QED BY <2>3, <2>4
  <1> QED BY <1>3, Zenon DEF Covered

\* Dereferencing the root of a holder leaves the references of the others.
LEMMA CoveredDereference ==
    ASSUME NEW t \in TrieDBs, NEW S, Covered(t, S), NEW b \in S, Root[b] \in Roots
    PROVE  Covered(Dereference(t, Root[b]), S \ {b})
  <1> DEFINE u == Dereference(t, Root[b])
  <1>1. t.refs \in [Roots -> Nat] /\ t.dirty \subseteq Roots
        BY DEF TrieDBs
  <1>2. ASSUME NEW r \in Roots \ u.disk, WithRoot(S \ {b}, r) # {}
        PROVE  r \in u.dirty /\ FitsIn(WithRoot(S \ {b}, r), u.refs[r])
    <2>1. u.disk = t.disk
          BY DEF Dereference, TrieDBs
    <2>2. r \in Roots \ t.disk
          BY <2>1, <1>2
    <2>3. WithRoot(S, r) # {}
          BY <1>2 DEF WithRoot
    <2>4. r \in t.dirty /\ FitsIn(WithRoot(S, r), t.refs[r]) /\ t.refs[r] \in Nat
          BY <2>2, <2>3, <1>1, Zenon DEF Covered
    <2>5. CASE Root[b] # r
      <3>1. (r \in u.dirty <=> r \in t.dirty) /\ u.refs[r] = t.refs[r]
            BY <2>5, <1>1 DEF Dereference, TrieDBs
      <3>2. WithRoot(S \ {b}, r) = WithRoot(S, r)
            BY <2>5 DEF WithRoot
      <3> QED BY <2>4, <3>1, <3>2, Zenon
    <2>6. CASE Root[b] = r
      <3>1. WithRoot(S \ {b}, r) = WithRoot(S, r) \ {b} /\ b \in WithRoot(S, r)
            BY <2>6 DEF WithRoot
      <3>2. FitsIn(WithRoot(S, r) \ {b}, t.refs[r] - 1) /\ t.refs[r] > 1
        <4> DEFINE B == WithRoot(S, r)
        <4>1. FitsIn(B, t.refs[r]) /\ b \in B /\ B \ {b} # {} /\ t.refs[r] \in Nat
              BY <2>4, <3>1, <1>2, Zenon
        <4> HIDE DEF B
        <4>2. FitsIn(B \ {b}, t.refs[r] - 1) /\ t.refs[r] > 1
              BY <4>1, FitsRemove, Zenon
        <4> QED BY <4>2, Zenon DEF B
      <3>3. u.refs[r] = t.refs[r] - 1 /\ r \in u.dirty
            BY <2>4, <2>6, <3>2, <1>1 DEF Dereference, TrieDBs
      <3> QED BY <3>1, <3>2, <3>3, Zenon
    <2> QED BY <2>5, <2>6
  <1> QED BY <1>2, Zenon DEF Covered

\* What is written to disk needs no reference any more.
LEMMA CoveredFlush ==
    ASSUME NEW t \in TrieDBs, NEW S, Covered(t, S), NEW R
    PROVE  Covered(Flush(t, R), S) /\ t.disk \subseteq Flush(t, R).disk
  <1> DEFINE u == Flush(t, R)
  <1>1. ASSUME NEW r \in Roots \ u.disk, WithRoot(S, r) # {}
        PROVE  r \in u.dirty /\ FitsIn(WithRoot(S, r), u.refs[r])
    <2>1. r \notin R \cap t.dirty /\ r \in Roots \ t.disk
          BY <1>1 DEF Flush
    <2>2. r \in t.dirty /\ FitsIn(WithRoot(S, r), t.refs[r])
          BY <2>1, <1>1, Zenon DEF Covered
    <2>3. r \in u.dirty /\ u.refs[r] = t.refs[r]
          BY <2>1, <2>2 DEF Flush
    <2> QED BY <2>2, <2>3, Zenon
  <1>2. t.disk \subseteq u.disk
        BY DEF Flush
  <1> QED BY <1>1, <1>2, Zenon DEF Covered

\* A set with fewer blocks needs fewer references.
LEMMA CoveredFewer ==
    ASSUME NEW t \in TrieDBs, NEW S, Covered(t, S), NEW b
    PROVE  Covered(t, S \ {b})
  <1>1. t.refs \in [Roots -> Nat]
        BY DEF TrieDBs
  <1>2. ASSUME NEW r \in Roots \ t.disk, WithRoot(S \ {b}, r) # {}
        PROVE  r \in t.dirty /\ FitsIn(WithRoot(S \ {b}, r), t.refs[r])
    <2>1. WithRoot(S \ {b}, r) \in SUBSET WithRoot(S, r) /\ WithRoot(S, r) # {}
          BY <1>2 DEF WithRoot
    <2>2. r \in t.dirty /\ FitsIn(WithRoot(S, r), t.refs[r]) /\ t.refs[r] \in Nat
          BY <2>1, <1>1, <1>2, Zenon DEF Covered
    <2> QED BY <2>1, <2>2, FitsFewer, Zenon
  <1> QED BY <1>2, Zenon DEF Covered

----------------------------------------------------------------------------
(* The processing blocks *)

\* A step that moves neither them nor the two blocks they are measured by.
LEMMA SameProcessing ==
    ASSUME ProcessingInv, UNCHANGED <<verified, blocks, lastAccepted, currentBlock, status>>,
           (status = "up" /\ Pruning) \/ UNCHANGED tips
    PROVE  ProcessingInv'
  BY Zenon DEF ProcessingInv, Running

\* insertBlock: the new block is not an ancestor of the last accepted one.
LEMMA VerifyProcessing ==
    ASSUME Inv, ProcessingInv, NEW b \in Block, Verify(b)
    PROVE  ProcessingInv' /\ ~OnPath(b, lastAccepted)
  <1> DEFINE p == Parent(b)
  <1>1. /\ Serving /\ status = "up" /\ p \in verified \cup {lastAccepted}
        /\ verified' = verified \cup {b} /\ blocks' = blocks \cup {b}
        /\ UNCHANGED <<lastAccepted, status, tips>>
        /\ currentBlock' \in {currentBlock, b}
        BY DEF Verify, Serving
  <1>2. lastAccepted \in Block /\ verified \subseteq Block
        BY <1>1, ServingFacts DEF Inv, TypeOK
  <1>3. p \in Block
        BY <1>1, <1>2
  <1>4. /\ Height[b] = Height[p] + 1 /\ OnPath(p, b)
        /\ \A h \in 0..Height[p] : Path[b][h] = Path[p][h]
        /\ Path[b][Height[b]] = b
        BY <1>3, ChildPath, OnPathFacts
  <1>5. /\ Height[b] \in Nat /\ Height[p] \in Nat /\ Height[lastAccepted] \in Nat
        BY <1>2, <1>3, HeightNat
  <1>6. ~OnPath(b, lastAccepted)
    <2>1. CASE p = lastAccepted
          BY <2>1, <1>4, <1>5 DEF OnPath
    <2>2. CASE p \in verified
          BY <2>2, <1>2, <1>3, <1>4, OnPathFacts DEF ProcessingInv
    <2> QED BY <2>1, <2>2, <1>1
  <1>7. ASSUME OnPath(lastAccepted, b), NEW h \in (Height[lastAccepted] + 1)..Height[b]
        PROVE  Path[b][h] \in verified \cup {b}
    <2>1. CASE h = Height[b]
          BY <2>1, <1>4
    <2>2. CASE h # Height[b]
      <3>1. h \in 0..Height[p] /\ h > Height[lastAccepted]
            BY <2>2, <1>4, <1>5
      <3>2. p \in verified
            BY <3>1, <1>1, <1>5
      <3>3. OnPath(lastAccepted, p)
            BY <3>1, <1>4, <1>5, <1>7 DEF OnPath
      <3>4. h \in (Height[lastAccepted] + 1)..Height[p]
            BY <3>1, <1>5
      <3>5. Path[p][h] \in verified
            BY <3>2, <3>3, <3>4 DEF ProcessingInv
      <3> QED BY <3>1, <3>5, <1>4
    <2> QED BY <2>1, <2>2
  <1>8. /\ verified' \subseteq blocks' /\ lastAccepted' \in blocks'
        /\ currentBlock' \in verified' \cup {lastAccepted'}
        /\ status' = "up"
        BY <1>1, Zenon DEF ProcessingInv, Running
  <1>9. ASSUME NEW c \in verified'
        PROVE  /\ ~OnPath(c, lastAccepted)
               /\ OnPath(lastAccepted, c) =>
                     \A h \in (Height[lastAccepted] + 1)..Height[c] : Path[c][h] \in verified'
    <2>1. CASE c = b
          BY <2>1, <1>1, <1>6, <1>7
    <2>2. CASE c \in verified
          BY <2>2, <1>1 DEF ProcessingInv
    <2> QED BY <2>1, <2>2, <1>1, <1>9
  <1> QED BY <1>1, <1>6, <1>8, <1>9, Zenon DEF ProcessingInv

\* Block.Accept: the block leaves the processing blocks, its descendants stay
\* connected to it.
LEMMA AcceptProcessing ==
    ASSUME ~Equivocation, Inv, ProcessingInv, NEW b \in Block, Accept(b)
    PROVE  ProcessingInv' /\ b \in verified
  <1>1. /\ Serving /\ status = "up" /\ b \in verified /\ Parent(b) = lastAccepted
        /\ verified' = verified \ {b} /\ lastAccepted' = b
        /\ UNCHANGED <<blocks, status, tips>>
        /\ \/ canonical[Height[b]] = b /\ currentBlock' = currentBlock
           \/ currentBlock' = b
        BY DEF Accept, Acceptable, Serving
  <1>2. /\ lastAccepted \in Block /\ currentBlock \in Block /\ verified \subseteq Block
        /\ canonical = PathRows(currentBlock)
        BY <1>1, ServingFacts DEF Inv, TypeOK
  <1>3. /\ Height[b] = Height[lastAccepted] + 1 /\ OnPath(lastAccepted, b)
        /\ \A h \in 0..Height[lastAccepted] : Path[b][h] = Path[lastAccepted][h]
        BY <1>1, <1>2, ChildPath, OnPathFacts
  <1>4. Height[b] \in Nat /\ Height[lastAccepted] \in Nat /\ Height[b] \in Heights
        BY <1>2, HeightNat
  <1>5. currentBlock' \in verified' \cup {b}
    <2>1. CASE currentBlock' = b
          BY <2>1
    <2>2. CASE canonical[Height[b]] = b /\ currentBlock' = currentBlock
      <3>1. canonical[Height[b]] # NoBlock
            BY <2>2, NoBlockAssumption
      <3>2. Height[b] <= Height[currentBlock]
            BY <3>1, <1>2, <1>4 DEF PathRows
      <3>3. currentBlock # lastAccepted
            BY <3>2, <1>3, <1>4
      <3>4. currentBlock \in verified
            BY <3>3, <1>1 DEF ProcessingInv, Running
      <3> QED BY <3>4, <2>2, <1>1
    <2> QED BY <2>1, <2>2, <1>1
  <1>6. ASSUME NEW c \in verified, c # b
        PROVE  /\ ~OnPath(c, b)
               /\ OnPath(b, c) =>
                     \A h \in (Height[b] + 1)..Height[c] : Path[c][h] \in verified \ {b}
    <2>0. c \in Block /\ Height[c] \in Nat /\ ~OnPath(c, lastAccepted)
          BY <1>2, <1>6, HeightNat DEF ProcessingInv
    <2>1. ~OnPath(c, b)
      <3>1. ASSUME OnPath(c, b) PROVE FALSE
        <4>1. Height[c] <= Height[b] /\ Path[b][Height[c]] = c
              BY <3>1 DEF OnPath
        <4>2. Height[c] # Height[b]
              BY <3>1, <2>0, <1>6, OnPathFacts
        <4>3. Height[c] \in 0..Height[lastAccepted]
              BY <4>1, <4>2, <2>0, <1>3, <1>4
        <4>4. Path[lastAccepted][Height[c]] = c
              BY <4>1, <4>3, <1>3
        <4> QED BY <4>3, <4>4, <2>0 DEF OnPath
      <3> QED BY <3>1
    <2>2. ASSUME OnPath(b, c), NEW h \in (Height[b] + 1)..Height[c]
          PROVE  Path[c][h] \in verified \ {b}
      <3>1. OnPath(lastAccepted, c)
            BY <2>0, <2>2, <1>2, <1>3, OnPathFacts
      <3>2. h \in (Height[lastAccepted] + 1)..Height[c] /\ h \in 0..Height[c] /\ h # Height[b]
            BY <2>0, <2>2, <1>3, <1>4
      <3>3. Path[c][h] \in verified
            BY <3>1, <3>2, <1>6 DEF ProcessingInv
      <3>4. Height[Path[c][h]] = h
            BY <3>2, <2>0, PathPrefix
      <3> QED BY <3>2, <3>3, <3>4
    <2> QED BY <2>1, <2>2
  <1>7. b \in blocks /\ verified \subseteq blocks
        BY <1>1 DEF ProcessingInv
  <1> QED BY <1>1, <1>5, <1>6, <1>7, Zenon DEF ProcessingInv

\* BlockChain.Reject: only blocks that conflict with the last accepted one go.
LEMMA RejectProcessing ==
    ASSUME ~Equivocation, Inv, ProcessingInv, NEW b \in Block, Reject(b)
    PROVE  ProcessingInv'
  <1>1. /\ Serving /\ status = "up" /\ b \in verified /\ ~OnPath(lastAccepted, b)
        /\ verified' = verified \ {b} /\ blocks' = blocks \ {b}
        /\ UNCHANGED <<lastAccepted, currentBlock, status, tips>>
        BY DEF Reject, Rejectable, Serving, memory
  <1>2. /\ lastAccepted \in Block /\ currentBlock \in Block /\ verified \subseteq Block
        /\ OnPath(lastAccepted, currentBlock)
        BY <1>1, ServingFacts DEF Inv, TypeOK
  <1>3. lastAccepted # b /\ currentBlock # b
        BY <1>1, <1>2, OnPathFacts
  <1>4. ASSUME NEW c \in verified \ {b}, OnPath(lastAccepted, c),
               NEW h \in (Height[lastAccepted] + 1)..Height[c]
        PROVE  Path[c][h] \in verified \ {b}
    <2>1. Path[c][h] \in verified
          BY <1>4 DEF ProcessingInv
    <2>2. /\ c \in Block /\ Height[c] \in Nat /\ Height[lastAccepted] \in Nat
          /\ h \in 0..Height[c] /\ Height[lastAccepted] \in 0..h
          BY <1>2, <1>4, HeightNat
    <2>3. /\ Height[Path[c][h]] = h
          /\ Path[Path[c][h]][Height[lastAccepted]] = Path[c][Height[lastAccepted]]
          BY <2>2, PathPrefix
    <2>4. OnPath(lastAccepted, Path[c][h])
          BY <2>2, <2>3, <1>4 DEF OnPath
    <2> QED BY <2>1, <2>4, <1>1
  <1> QED BY <1>1, <1>3, <1>4, Zenon DEF ProcessingInv, Running

\* Every step keeps the processing blocks in order.
LEMMA NextProcessing ==
    ASSUME ~Equivocation, Inv, ProcessingInv, [Next]_vars
    PROVE  ProcessingInv'
  <1>1. ASSUME NEW b \in Block, Verify(b) \/ Accept(b) \/ Reject(b) PROVE ProcessingInv'
        BY <1>1, VerifyProcessing, AcceptProcessing, RejectProcessing
  <1>2. ASSUME NEW b \in Block, SetPreference(b) PROVE ProcessingInv'
    <2>1. /\ b \in verified \cup {lastAccepted} /\ currentBlock' = b /\ status = "up"
          /\ UNCHANGED <<verified, blocks, lastAccepted, status, tips>>
          BY <1>2 DEF SetPreference, Serving, engine
    <2>2. lastAccepted \in blocks
          BY <2>1 DEF ProcessingInv, Running
    <2> QED BY <2>1, <2>2, Zenon DEF ProcessingInv
  <1>3. CASE AcceptNext \/ AcceptorNext \/ UNCHANGED vars
    <2>1. /\ UNCHANGED <<verified, blocks, lastAccepted, currentBlock, status>>
          /\ (status = "up" /\ Pruning) \/ UNCHANGED tips
          BY <1>3, Zenon
          DEF AcceptNext, AcceptorNext, Enqueue, CommitAccepted, Dequeue, WriteIndices,
              ProcessTrie, PublishTip, AcceptTips, vars, chaindb, memory, engine
    <2> QED BY <2>1, SameProcessing
  <1>4. CASE Boot
    <2>1. /\ lastAccepted' = BootBlock /\ currentBlock' = BootBlock /\ BootBlock \in blocks
          /\ status' = "loading" /\ status # "up" /\ UNCHANGED <<verified, blocks, tips>>
          BY <1>4 DEF Boot, BootPossible, NotRunning, engine
    <2>2. verified = {} /\ tips = <<>>
          BY <2>1 DEF ProcessingInv
    <2> QED BY <2>1, <2>2, Zenon DEF ProcessingInv
  <1>5. CASE BeginRecovery \/ Reexecute \/ FinishRecovery
    <2>1. /\ status \in {"loading", "recovering"}
          /\ UNCHANGED <<verified, blocks, lastAccepted, currentBlock, tips>>
          BY <1>5, Zenon DEF BeginRecovery, Reexecute, FinishRecovery, InLoop, LoopDone, chaindb,
                             engine
    <2>2. /\ verified = {} /\ tips = <<>>
          /\ lastAccepted \in blocks /\ currentBlock \in verified \cup {lastAccepted}
          BY <2>1 DEF ProcessingInv, Running
    <2> QED BY <2>1, <2>2, Zenon DEF ProcessingInv
  <1>6. CASE Stop \/ FailBoot \/ CrashNext
    <2>1. verified' = {} /\ tips' = <<>> /\ status' \in {"down", "failed"}
          BY <1>6, Zenon
          DEF Stop, FailBoot, CrashNext, Crash, CrashInBoot, CrashInReorg, CrashInInsert, Exit
    <2>2. ~Running'
          BY <2>1 DEF Running
    <2> QED BY <2>1, <2>2, Zenon DEF ProcessingInv
  <1> QED BY <1>1, <1>2, <1>3, <1>4, <1>5, <1>6, Zenon
          DEF Next, EngineNext, BootNext

----------------------------------------------------------------------------
(* The accepted blocks that are held *)

\* A step that changes nothing the references depend on.
LEMMA SameState ==
    ASSUME HeldInv, UNCHANGED <<trie, tips, lastAccepted, verified>>,
           ProcessedHeight' = ProcessedHeight
    PROVE  HeldInv'
  <1>1. HeldFrom' = HeldFrom
        BY Zenon DEF HeldFrom
  <1>2. Held' = Held
        BY <1>1, Zenon DEF Held
  <1> QED BY <1>1, <1>2, Zenon DEF HeldInv

\* The acceptor's steps other than AcceptTrie, and the rest of Block.Accept.
LEMMA QuietState ==
    ASSUME Inv, status = "up", HeldInv,
           \/ \E b \in Block : SetPreference(b)
           \/ Enqueue \/ CommitAccepted \/ Dequeue \/ WriteIndices \/ PublishTip
    PROVE  status' = "up" /\ HeldInv'
  <1>1. UNCHANGED <<status, trie, tips, lastAccepted, verified>>
        BY Zenon DEF SetPreference, Enqueue, CommitAccepted, Dequeue, WriteIndices, PublishTip,
                     engine
  <1>2. ProcessedHeight' = ProcessedHeight
    <2>1. CASE (\E b \in Block : SetPreference(b)) \/ Enqueue \/ CommitAccepted
      <3>1. UNCHANGED <<acceptorTip, acceptor>>
            BY <2>1, Zenon DEF SetPreference, Enqueue, CommitAccepted
      <3> QED BY <3>1, Zenon DEF ProcessedHeight
    <2>2. CASE Dequeue \/ WriteIndices
      <3>1. acceptor.step # "tip" /\ acceptor'.step # "tip" /\ acceptorTip' = acceptorTip
            BY <2>2 DEF Dequeue, WriteIndices, Idle, Inv, TypeOK, AcceptorStates
      <3> QED BY <3>1 DEF ProcessedHeight
    <2>3. CASE PublishTip
      <3>1. /\ acceptor.step = "tip" /\ acceptor' = Idle /\ acceptorTip' = acceptor.block
            BY <2>3 DEF PublishTip
      <3>2. /\ acceptor.block = Path[lastAccepted][Height[acceptorTip] + 1]
            /\ Height[acceptorTip] + 1 \in 0..Height[lastAccepted]
            /\ lastAccepted \in Block /\ Height[acceptorTip] \in Nat
            BY <3>1, AcceptorBlock, ProcessedRange
      <3>3. Height[acceptor.block] = Height[acceptorTip] + 1
            BY <3>2, PathPrefix
      <3> QED BY <3>1, <3>2, <3>3 DEF ProcessedHeight, Idle
    <2> QED BY <2>1, <2>2, <2>3
  <1> QED BY <1>1, <1>2, SameState

\* A held block is on the path of the last accepted one.
LEMMA HeldOnPath ==
    ASSUME Inv, status = "up", HeldInv, NEW b \in Held
    PROVE  b \in Block /\ OnPath(b, lastAccepted)
  <1>1. PICK h \in (HeldFrom + 1)..Height[lastAccepted] : b = Path[lastAccepted][h]
        BY DEF Held
  <1>2. HeldFrom \in Nat
        BY ProcessedRange DEF HeldInv, HeldFrom
  <1>3. h \in 0..Height[lastAccepted] /\ lastAccepted \in Block
        BY <1>1, <1>2, ProcessedRange
  <1> QED BY <1>1, <1>3, PathPrefix

\* insertBlock.
LEMMA VerifyState ==
    ASSUME RootReferencedOnUpdate, Inv, ProcessingInv, HeldInv, NEW b \in Block, Verify(b)
    PROVE  status' = "up" /\ HeldInv'
  <1>1. /\ status = "up" /\ status' = "up" /\ b \notin verified
        /\ verified' = verified \cup {b} /\ trie' \in InsertTrie(Update(trie, Root[b]))
        /\ UNCHANGED <<lastAccepted, acceptorTip, acceptor, tips>>
        BY DEF Verify, Serving
  <1>2. ProcessedHeight' = ProcessedHeight
        BY <1>1, Zenon DEF ProcessedHeight
  <1>3. HeldFrom' = HeldFrom
        BY <1>1, <1>2, Zenon DEF HeldFrom
  <1>4. Held' = Held
        BY <1>1, <1>3, Zenon DEF Held
  <1>5. b \notin verified \cup Held
        BY <1>1, VerifyProcessing, HeldOnPath
  <1>6. trie \in TrieDBs /\ Update(trie, Root[b]) \in TrieDBs /\ Root[b] \in Roots
    <2>1. trie \in TrieDBs /\ tips \in Seq(Roots) /\ Root[b] \in Roots
          BY <1>1, ProcessedRange DEF Roots
    <2> QED BY <2>1, TrieTypes, Zenon
  <1>7. Covered(Update(trie, Root[b]), (verified \cup Held) \cup {b})
        BY <1>5, <1>6, CoveredUpdate, Zenon DEF HeldInv
  <1>8. \/ trie' = Update(trie, Root[b])
        \/ \E R : trie' = Flush(Update(trie, Root[b]), R)
        BY <1>1, Zenon DEF InsertTrie, Cap
  <1>9. /\ Covered(trie', (verified \cup Held) \cup {b})
        /\ Update(trie, Root[b]).disk \subseteq trie'.disk
        BY <1>6, <1>7, <1>8, CoveredFlush
  <1>10. trie.disk \subseteq trie'.disk
        BY <1>9 DEF Update
  <1>11. verified' \cup Held' = (verified \cup Held) \cup {b}
        BY <1>1, <1>4
  <1>12. Covered(trie', verified' \cup Held')
        BY <1>9, <1>11
  <1> QED BY <1>1, <1>2, <1>3, <1>10, <1>12 DEF HeldInv

\* Block.Accept: the block is held from now on instead of processing, and its
\* state is there.
LEMMA AcceptState ==
    ASSUME ~Equivocation, Inv, ProcessingInv, HeldInv, NEW b \in Block, Accept(b)
    PROVE  status' = "up" /\ HeldInv'
  <1>1. /\ status = "up" /\ status' = "up" /\ b \in verified /\ Parent(b) = lastAccepted
        /\ verified' = verified \ {b} /\ EnsureState(b) /\ lastAccepted' = b
        /\ UNCHANGED <<acceptorTip, acceptor, tips>>
        BY AcceptProcessing DEF Accept, Acceptable, Serving
  <1>2. /\ lastAccepted \in Block /\ Height[lastAccepted] \in Nat
        /\ ProcessedHeight \in Nat /\ ProcessedHeight <= Height[lastAccepted]
        /\ Len(tips) \in Nat
        BY <1>1, ProcessedRange
  <1>3. /\ Height[b] = Height[lastAccepted] + 1 /\ Path[b][Height[b]] = b
        /\ \A h \in 0..Height[lastAccepted] : Path[b][h] = Path[lastAccepted][h]
        BY <1>1, <1>2, ChildPath
  <1>4. trie' = trie
    <2>1. HasState(trie, Root[b])
          BY <1>1, CoveredState DEF HeldInv, Roots
    <2> QED BY <2>1, <1>1 DEF EnsureState
  <1>5. ProcessedHeight' = ProcessedHeight
        BY <1>1, Zenon DEF ProcessedHeight
  <1>6. HeldFrom' = HeldFrom
        BY <1>1, <1>5, Zenon DEF HeldFrom
  <1>7. HeldFrom \in Nat /\ HeldFrom <= Height[lastAccepted]
        BY <1>2 DEF HeldFrom, HeldInv
  <1>8. Held' = Held \cup {b}
    <2>1. ASSUME NEW h \in (HeldFrom + 1)..Height[b] PROVE Path[b][h] \in Held \cup {b}
      <3>1. h = Height[b] \/ h \in (HeldFrom + 1)..Height[lastAccepted]
            BY <1>2, <1>3, <1>7
      <3>2. h \in (HeldFrom + 1)..Height[lastAccepted] => h \in 0..Height[lastAccepted]
            BY <1>2, <1>7
      <3> QED BY <3>1, <3>2, <1>3 DEF Held
    <2>2. ASSUME NEW h \in (HeldFrom + 1)..Height[lastAccepted]
          PROVE  \E k \in (HeldFrom + 1)..Height[b] : Path[b][k] = Path[lastAccepted][h]
      <3>1. h \in (HeldFrom + 1)..Height[b] /\ h \in 0..Height[lastAccepted]
            BY <1>2, <1>3, <1>7
      <3> QED BY <3>1, <1>3
    <2>3. \E k \in (HeldFrom + 1)..Height[b] : Path[b][k] = b
      <3>1. Height[b] \in (HeldFrom + 1)..Height[b]
            BY <1>2, <1>3, <1>7
      <3> QED BY <3>1, <1>3
    <2>4. Held' = {Path[b][k] : k \in (HeldFrom + 1)..Height[b]}
          BY <1>1, <1>6, Zenon DEF Held
    <2>5. Held' \subseteq Held \cup {b}
          BY <2>1, <2>4
    <2>6. Held \cup {b} \subseteq Held'
          BY <2>2, <2>3, <2>4 DEF Held
    <2> QED BY <2>5, <2>6
  <1>9. verified' \cup Held' = verified \cup Held
        BY <1>1, <1>8
  <1>10. ASSUME NEW i \in 1..Len(tips) PROVE tips[i] = Root[Path[b][HeldFrom + i]]
    <2>1. HeldFrom + i \in 0..Height[lastAccepted]
          BY <1>2, <1>7 DEF HeldFrom
    <2>2. tips[i] = Root[Path[lastAccepted][HeldFrom + i]]
          BY DEF HeldInv
    <2> QED BY <2>1, <2>2, <1>3
  <1>11. Path[b][ProcessedHeight] = Path[lastAccepted][ProcessedHeight]
        BY <1>2, <1>3
  <1>12. Covered(trie', verified' \cup Held')
        BY <1>4, <1>9, Zenon DEF HeldInv
  <1>13. \A i \in 1..Len(tips') : tips'[i] = Root[Path[lastAccepted'][HeldFrom' + i]]
        BY <1>1, <1>6, <1>10
  <1>14. tips' = <<>> => Root[Path[lastAccepted'][ProcessedHeight']] \in trie'.disk
        BY <1>1, <1>4, <1>5, <1>11 DEF HeldInv
  <1>15. Len(tips') <= ProcessedHeight'
        BY <1>1, <1>5 DEF HeldInv
  <1> QED BY <1>1, <1>12, <1>13, <1>14, <1>15 DEF HeldInv

\* BlockChain.Reject.
LEMMA RejectState ==
    ASSUME Inv, ProcessingInv, HeldInv, NEW b \in Block, Reject(b)
    PROVE  status' = "up" /\ HeldInv'
  <1>1. /\ status = "up" /\ status' = "up" /\ b \in verified
        /\ verified' = verified \ {b} /\ trie' = Dereference(trie, Root[b])
        /\ UNCHANGED <<lastAccepted, acceptorTip, acceptor, tips>>
        BY DEF Reject, Rejectable, Serving, RejectTrie, memory
  <1>2. ProcessedHeight' = ProcessedHeight
        BY <1>1, Zenon DEF ProcessedHeight
  <1>3. HeldFrom' = HeldFrom
        BY <1>1, <1>2, Zenon DEF HeldFrom
  <1>4. Held' = Held
        BY <1>1, <1>3, Zenon DEF Held
  <1>5. b \notin Held
        BY <1>1, HeldOnPath DEF ProcessingInv
  <1>6. verified' \cup Held' = (verified \cup Held) \ {b}
        BY <1>1, <1>4, <1>5
  <1>7. trie \in TrieDBs /\ Root[b] \in Roots
        BY <1>1, ProcessedRange DEF Roots
  <1>8. Covered(trie', verified' \cup Held')
    <2>1. Covered(trie, verified \cup Held) /\ b \in verified \cup Held
          BY <1>1 DEF HeldInv
    <2>2. Covered(Dereference(trie, Root[b]), (verified \cup Held) \ {b})
          BY <2>1, <1>7, CoveredDereference, Zenon
    <2> QED BY <2>2, <1>1, <1>6, Zenon
  <1>9. trie'.disk = trie.disk
        BY <1>1, <1>7 DEF Dereference, TrieDBs
  <1> QED BY <1>1, <1>2, <1>3, <1>8, <1>9 DEF HeldInv

\* When the first held block is released, the others stay.
LEMMA ReleaseFirst ==
    ASSUME Inv, status = "up", HeldInv, HeldFrom < Height[lastAccepted],
           HeldFrom' = HeldFrom + 1, UNCHANGED lastAccepted
    PROVE  LET x == Path[lastAccepted][HeldFrom + 1]
           IN  x \in Held /\ Held' = Held \ {x}
  <1> DEFINE x == Path[lastAccepted][HeldFrom + 1]
             I == (HeldFrom + 1)..Height[lastAccepted]
  <1>1. /\ HeldFrom \in Nat /\ Height[lastAccepted] \in Nat /\ lastAccepted \in Block
        BY ProcessedRange DEF HeldInv, HeldFrom
  <1>2. HeldFrom + 1 \in I /\ I \subseteq 0..Height[lastAccepted]
        BY <1>1
  <1>3. x \in Held
        BY <1>2 DEF Held
  <1>4. \A h \in I : Height[Path[lastAccepted][h]] = h
        BY <1>1, <1>2, PathPrefix
  <1>5. \A h \in I : h \in (HeldFrom + 1 + 1)..Height[lastAccepted]
                     <=> Path[lastAccepted][h] # x
    <2>1. \A h \in I : Path[lastAccepted][h] = x <=> h = HeldFrom + 1
          BY <1>2, <1>4
    <2>2. \A h \in I : h \in (HeldFrom + 1 + 1)..Height[lastAccepted] <=> h # HeldFrom + 1
          BY <1>1
    <2> QED BY <2>1, <2>2
  <1>6. Held' = {Path[lastAccepted][h] : h \in (HeldFrom + 1 + 1)..Height[lastAccepted]}
        BY Zenon DEF Held
  <1>7. Held = {Path[lastAccepted][h] : h \in I}
        BY DEF Held
  <1>8. (HeldFrom + 1 + 1)..Height[lastAccepted] \subseteq I
        BY <1>1
  <1>9. Held' = Held \ {x}
        BY <1>5, <1>6, <1>7, <1>8
  <1> QED BY <1>3, <1>9

\* The tip buffer is full: its oldest root is released.
LEMMA EvictTip ==
    ASSUME Inv, status = "up", ProcessingInv, HeldInv, Pruning, ProcessTrie
    PROVE  /\ Covered(TipEvict(trie, tips), verified' \cup Held')
           /\ TipEvict(trie, tips) \in TrieDBs
           /\ Len(tips') <= ProcessedHeight' /\ tips' # <<>>
           /\ \A i \in 1..Len(tips') : tips'[i] = Root[Path[lastAccepted][HeldFrom' + i]]
  <1> DEFINE n == Len(tips)
  <1>1. /\ tips' = TipInsert(tips, Root[acceptor.block])
        /\ UNCHANGED <<lastAccepted, verified>>
        BY DEF ProcessTrie, AcceptTips, engine
  <1>2. /\ tips \in Seq(Roots) /\ n \in Nat /\ trie \in TrieDBs /\ ProcessedHeight \in Nat
        /\ Height[lastAccepted] \in Nat /\ lastAccepted \in Block
        BY ProcessedRange
  <1>3. /\ ProcessedHeight' = ProcessedHeight + 1
        /\ ProcessedHeight + 1 <= Height[lastAccepted]
        /\ acceptor.block = Path[lastAccepted][ProcessedHeight + 1]
        /\ Root[acceptor.block] \in Roots
        BY ProcessedMoves DEF Roots
  <1>4. /\ n <= ProcessedHeight /\ HeldFrom = ProcessedHeight - n
        /\ \A i \in 1..n : tips[i] = Root[Path[lastAccepted][HeldFrom + i]]
        /\ Covered(trie, verified \cup Held)
        BY DEF HeldInv, HeldFrom
  <1>5. HeldFrom' = ProcessedHeight' - Len(tips')
        BY DEF HeldFrom
  <1>6. CASE n = StateHistory
    <2>1. n > 0 /\ tips # <<>>
          BY <1>6, <1>2, TrieWriterAssumption
    <2>2. /\ tips' = Append(Tail(tips), Root[acceptor.block])
          /\ TipEvict(trie, tips) = Dereference(trie, Head(tips))
          BY <1>1, <1>6 DEF TipInsert, TipEvict
    <2>3. /\ Tail(tips) \in Seq(Roots) /\ Len(Tail(tips)) = n - 1 /\ Head(tips) = tips[1]
          /\ \A i \in 1..(n - 1) : Tail(tips)[i] = tips[i + 1]
          BY <2>1, <1>2
    <2>4. /\ Len(tips') = n /\ tips'[n] = Root[acceptor.block]
          /\ \A i \in 1..(n - 1) : tips'[i] = tips[i + 1]
          BY <2>1, <2>2, <2>3, <1>2, <1>3
    <2>5. HeldFrom' = HeldFrom + 1
          BY <2>4, <1>2, <1>3, <1>4, <1>5
    <2>6. ASSUME NEW i \in 1..n PROVE tips'[i] = Root[Path[lastAccepted][HeldFrom' + i]]
      <3>1. CASE i = n
        <4>1. HeldFrom' + n = ProcessedHeight + 1
              BY <2>5, <1>2, <1>4
        <4> QED BY <3>1, <4>1, <2>4, <1>3
      <3>2. CASE i # n
        <4>1. i \in 1..(n - 1) /\ i + 1 \in 1..n /\ HeldFrom + (i + 1) = HeldFrom' + i
              BY <3>2, <2>5, <1>2, <1>4
        <4> QED BY <4>1, <2>4, <1>4
      <3> QED BY <3>1, <3>2
    <2>7. HeldFrom < Height[lastAccepted]
          BY <2>1, <1>2, <1>3, <1>4
    <2> DEFINE x == Path[lastAccepted][HeldFrom + 1]
    <2>8. x \in Held /\ Held' = Held \ {x}
          BY <2>5, <2>7, <1>1, ReleaseFirst
    <2>9. x \notin verified /\ Root[x] \in Roots
          BY <2>8, HeldOnPath DEF ProcessingInv, Roots
    <2>10. Head(tips) = Root[x]
          BY <2>1, <2>3, <1>2, <1>4
    <2> HIDE DEF x
    <2>11. verified' \cup Held' = (verified \cup Held) \ {x}
          BY <2>8, <2>9, <1>1
    <2>12. Covered(Dereference(trie, Root[x]), (verified \cup Held) \ {x})
      <3>1. trie \in TrieDBs /\ Covered(trie, verified \cup Held) /\ x \in verified \cup Held
            BY <2>8, <1>2, <1>4
      <3> QED BY <3>1, <2>9, CoveredDereference, Zenon
    <2>13. Dereference(trie, Root[x]) \in TrieDBs
      <3>1. acceptor.block \in Block
            BY ProcessedMoves
      <3> QED BY <3>1, <2>9, <1>2, TrieTypes, Zenon
    <2>14. Len(tips') <= ProcessedHeight' /\ tips' # <<>>
          BY <2>1, <2>4, <1>2, <1>3, <1>4
    <2> QED BY <2>2, <2>4, <2>6, <2>10, <2>11, <2>12, <2>13, <2>14, Zenon
  <1>7. CASE n # StateHistory
    <2>1. /\ tips' = Append(tips, Root[acceptor.block]) /\ TipEvict(trie, tips) = trie
          BY <1>1, <1>7 DEF TipInsert, TipEvict
    <2>2. /\ Len(tips') = n + 1 /\ tips'[n + 1] = Root[acceptor.block]
          /\ \A i \in 1..n : tips'[i] = tips[i]
          BY <2>1, <1>2, <1>3
    <2>3. HeldFrom' = HeldFrom
          BY <2>2, <1>2, <1>3, <1>4, <1>5
    <2>4. Held' = Held
          BY <2>3, <1>1, Zenon DEF Held
    <2>5. ASSUME NEW i \in 1..(n + 1) PROVE tips'[i] = Root[Path[lastAccepted][HeldFrom' + i]]
      <3>1. CASE i = n + 1
        <4>1. HeldFrom' + (n + 1) = ProcessedHeight + 1
              BY <2>3, <1>2, <1>4
        <4> QED BY <3>1, <4>1, <2>2, <1>3
      <3>2. CASE i # n + 1
        <4>1. i \in 1..n
              BY <3>2, <1>2
        <4> QED BY <4>1, <2>2, <2>3, <1>4
      <3> QED BY <3>1, <3>2
    <2>6. Len(tips') <= ProcessedHeight' /\ tips' # <<>>
          BY <2>2, <1>2, <1>3, <1>4
    <2>7. Covered(TipEvict(trie, tips), verified' \cup Held')
          BY <2>1, <2>4, <1>1, <1>4, Zenon
    <2>8. TipEvict(trie, tips) \in TrieDBs
          BY <2>1, <1>2, Zenon
    <2> QED BY <2>2, <2>5, <2>6, <2>7, <2>8, Zenon
  <1> QED BY <1>6, <1>7

\* flattenSnapshot -> AcceptTrie: with pruning the root is kept by the tip buffer
\* or written, without it is written.
LEMMA ProcessState ==
    ASSUME Inv, status = "up", ProcessingInv, HeldInv, ProcessTrie
    PROVE  status' = "up" /\ HeldInv'
  <1> DEFINE b == acceptor.block
  <1>1. /\ trie' \in AcceptTrie(trie, tips, b) /\ tips' = AcceptTips(tips, b)
        /\ UNCHANGED <<status, lastAccepted, verified>>
        BY DEF ProcessTrie, engine
  <1>2. /\ trie \in TrieDBs /\ Len(tips) \in Nat /\ ProcessedHeight \in Nat
        /\ Height[lastAccepted] \in Nat /\ lastAccepted \in Block
        BY ProcessedRange
  <1>3. /\ ProcessedHeight' = ProcessedHeight + 1
        /\ ProcessedHeight + 1 <= Height[lastAccepted]
        /\ b = Path[lastAccepted][ProcessedHeight + 1]
        /\ b \in Block /\ Root[b] \in Roots
        BY ProcessedMoves DEF Roots
  <1>4. CASE Pruning
    <2> DEFINE e == TipEvict(trie, tips)
    <2>1. /\ Covered(e, verified' \cup Held') /\ e \in TrieDBs
          /\ Len(tips') <= ProcessedHeight' /\ tips' # <<>>
          /\ \A i \in 1..Len(tips') : tips'[i] = Root[Path[lastAccepted][HeldFrom' + i]]
          BY <1>4, EvictTip
    <2>2. \E R : trie' = Flush(e, R)
          BY <1>1, <1>4, Zenon DEF AcceptTrie, Commit, Cap
    <2> HIDE DEF e
    <2>3. Covered(trie', verified' \cup Held')
          BY <2>1, <2>2, CoveredFlush, Zenon
    <2> QED BY <2>1, <2>3, <1>1, Zenon DEF HeldInv
  <1>5. CASE ~Pruning
    <2>1. tips' = tips /\ trie' = Commit(trie, Root[b])
          BY <1>1, <1>5 DEF AcceptTips, AcceptTrie
    <2>2. tips = <<>> /\ Len(tips) = 0
          BY <1>5 DEF ProcessingInv
    <2>3. HeldFrom = ProcessedHeight /\ HeldFrom' = HeldFrom + 1
          BY <2>1, <2>2, <1>2, <1>3 DEF HeldFrom
    <2>4. b \in Held /\ Held' = Held \ {b}
          BY <2>3, <1>1, <1>2, <1>3, ReleaseFirst
    <2>5. b \notin verified
          BY <2>4, HeldOnPath DEF ProcessingInv
    <2>6. verified' \cup Held' = (verified \cup Held) \ {b}
          BY <2>4, <2>5, <1>1
    <2> HIDE DEF b
    <2>7. Covered(trie, verified \cup Held)
          BY DEF HeldInv
    <2>8. trie' \in TrieDBs /\ Covered(trie', verified \cup Held)
      <3>1. trie' = Flush(trie, {Root[b]})
            BY <2>1 DEF Commit
      <3>2. Covered(trie', verified \cup Held)
            BY <3>1, <2>7, <1>2, CoveredFlush, Zenon
      <3>3. trie' \in TrieDBs
        <4>1. tips \in Seq(Roots)
              BY ProcessedRange
        <4> QED BY <4>1, <3>1, <1>2, <1>3, TrieTypes, Zenon
      <3> QED BY <3>2, <3>3
    <2>9. Covered(trie', verified' \cup Held')
      <3>1. Covered(trie', (verified \cup Held) \ {b})
            BY <2>8, CoveredFewer, Zenon
      <3> QED BY <3>1, <2>6, Zenon
    <2>10. HasState(trie, Root[b])
          BY <2>4, <2>7, <1>3, CoveredState
    <2>11. Root[b] \in trie'.disk
          BY <2>1, <2>10 DEF Commit, Flush, HasState
    <2>12. Root[Path[lastAccepted'][ProcessedHeight']] \in trie'.disk
          BY <2>11, <1>1, <1>3, Zenon
    <2>13. Len(tips') = 0 /\ Len(tips') <= ProcessedHeight'
          BY <2>1, <2>2, <1>2, <1>3
    <2>14. \A i \in 1..Len(tips') : tips'[i] = Root[Path[lastAccepted'][HeldFrom' + i]]
          BY <2>13
    <2> QED BY <2>9, <2>12, <2>13, <2>14, <1>1, Zenon DEF HeldInv
  <1> QED BY <1>4, <1>5

----------------------------------------------------------------------------
(* Start-up and the end of a process *)

\* The acceptor starts with nothing held: the state it starts from is on disk.
LEMMA StartState ==
    ASSUME Inv, ProcessingInv, status \in {"loading", "recovering"}, Start,
           UNCHANGED <<lastAccepted, acceptor, tips, verified>>,
           Root[lastAccepted] \in trie'.disk
    PROVE  StateInv'
  <1>1. /\ lastAccepted \in Block /\ acceptor = Idle /\ tips = <<>> /\ verified = {}
        BY DEF Inv, MemoryInv, Running, ProcessingInv
  <1>2. status' = "up" /\ acceptorTip' = lastAccepted /\ acceptor'.step = "idle"
        BY <1>1 DEF Start, Idle
  <1>3. Height[lastAccepted] \in Nat /\ Path[lastAccepted][Height[lastAccepted]] = lastAccepted
        BY <1>1, HeightNat, PathAssumption
  <1>4. ProcessedHeight' = Height[lastAccepted]
        BY <1>2, <1>3 DEF ProcessedHeight
  <1>5. tips' = <<>> /\ Len(tips') = 0
        BY <1>1
  <1>6. HeldFrom' = Height[lastAccepted]
        BY <1>3, <1>4, <1>5 DEF HeldFrom
  <1>7. Held' = {}
    <2>1. (HeldFrom' + 1)..Height[lastAccepted'] = {}
          BY <1>3, <1>6
    <2> QED BY <2>1, Zenon DEF Held
  <1>8. Covered(trie', {})
        BY DEF Covered, WithRoot
  <1>9. verified' \cup Held' = {}
        BY <1>1, <1>7
  <1>10. HeldInv'
    <2>1. Len(tips') <= ProcessedHeight'
          BY <1>3, <1>4, <1>5
    <2>2. \A i \in 1..Len(tips') : tips'[i] = Root[Path[lastAccepted'][HeldFrom' + i]]
          BY <1>5
    <2>3. Root[Path[lastAccepted'][ProcessedHeight']] \in trie'.disk
          BY <1>3, <1>4
    <2>4. Covered(trie', verified' \cup Held')
          BY <1>8, <1>9, Zenon
    <2> QED BY <2>1, <2>2, <2>3, <2>4, Zenon DEF HeldInv
  <1> QED BY <1>2, <1>10, Zenon DEF StateInv

\* A process that ends leaves no root in memory.
LEMMA ExitState ==
    ASSUME NEW s \in {"down", "failed"}, NEW t, Exit(s, t)
    PROVE  StateInv'
  <1>1. status' \notin {"up", "recovering"} /\ trie' = EmptyTrieDB(t.disk)
        BY DEF Exit
  <1>2. trie'.dirty = {} /\ \A r \in Roots : trie'.refs[r] = 0
        BY <1>1 DEF EmptyTrieDB
  <1> QED BY <1>1, <1>2 DEF StateInv, StartInv

\* loadLastState and the first part of reprocessState.
LEMMA BeginState ==
    ASSUME Inv, ProcessingInv, StateInv, Boot \/ BeginRecovery
    PROVE  StateInv'
  <1>1. /\ status \notin {"up", "recovering"} /\ trie' = trie
        BY DEF Boot, NotRunning, BeginRecovery
  <1>2. trie.dirty = {} /\ \A r \in Roots : trie.refs[r] = 0
        BY <1>1 DEF StateInv, StartInv
  <1>3. CASE status' = "loading" \/ (status' = "recovering" /\ ~recovery'.reexecuted)
        BY <1>1, <1>2, <1>3 DEF StateInv, StartInv
  <1>4. CASE Boot
    <2>1. status' = "loading"
          BY <1>4 DEF Boot
    <2> QED BY <2>1, <1>3
  <1>5. CASE BeginRecovery /\ UpToDate
    <2>1. /\ Start /\ Root[lastAccepted] \in trie'.disk /\ status = "loading"
          /\ UNCHANGED <<lastAccepted, acceptor, tips, verified>>
          BY <1>1, <1>5 DEF BeginRecovery, UpToDate, engine
    <2> QED BY <2>1, StartState
  <1>6. CASE BeginRecovery /\ ~UpToDate
    <2>1. status' = "recovering" /\ ~recovery'.reexecuted
          BY <1>6 DEF BeginRecovery
    <2> QED BY <2>1, <1>3
  <1> QED BY <1>4, <1>5, <1>6

\* One iteration of reprocessState: the previous root is released.
LEMMA ReexecuteState ==
    ASSUME RootReferencedOnUpdate, Inv, StateInv, Reexecute
    PROVE  StateInv'
  <1> DEFINE c == recovery.cursor
             b == NextCanonical
             u == Update(trie, Root[b])
  <1>1. /\ status = "recovering" /\ status' = "recovering" /\ b \in blocks /\ Parent(b) = c
        /\ trie' = IF recovery.reexecuted THEN Dereference(u, Root[c]) ELSE u
        /\ recovery' = [recovery EXCEPT !.cursor = b, !.writeIndices = WritesIndices,
                                        !.reexecuted = TRUE]
        BY DEF Reexecute, InLoop, ReexecutePossible
  <1>2. /\ b \in Block /\ c \in Block /\ trie \in TrieDBs /\ recovery \in RecoveryStates
        BY <1>1 DEF Inv, TypeOK, MemoryInv
  <1>3. recovery'.cursor = b /\ recovery'.reexecuted
        BY <1>1, <1>2 DEF RecoveryStates
  <1>4. Root[b] # Root[c] /\ Root[b] \in Roots /\ Root[c] \in Roots
    <2> HIDE DEF b, c
    <2>1. c = Path[b][Height[b] - 1]
          BY <1>1, <1>2, NoBlockAssumption DEF Parent
    <2>2. Height[b] = Height[c] + 1 /\ Height[c] \in Nat
          BY <1>1, <1>2, ChildPath, HeightNat
    <2>3. Height[b] - 1 \in 0..Height[b] /\ Height[b] - 1 # Height[b]
          BY <2>2
    <2> QED BY <2>1, <2>3, <1>2, RootAssumption DEF Roots
  <1>5. /\ trie.dirty = IF recovery.reexecuted THEN {Root[c]} ELSE {}
        /\ \A r \in Roots : trie.refs[r] = IF recovery.reexecuted /\ r = Root[c] THEN 1 ELSE 0
        BY <1>1 DEF StateInv, StartInv
  <1>6. /\ u.dirty = trie.dirty \cup {Root[b]} /\ u.disk = trie.disk
        /\ u.refs = [trie.refs EXCEPT ![Root[b]] = trie.refs[Root[b]] + 1]
        /\ u = [dirty |-> u.dirty, refs |-> u.refs, disk |-> u.disk]
        BY DEF Update
  <1>7. trie.refs \in [Roots -> Nat]
        BY <1>2 DEF TrieDBs
  <1>8. \A r \in Roots : u.refs[r] = IF r = Root[b] THEN 1
                                      ELSE IF recovery.reexecuted /\ r = Root[c] THEN 1 ELSE 0
        BY <1>4, <1>5, <1>6, <1>7
  <1> HIDE DEF u, b, c
  <1>9. u.refs \in [Roots -> Nat]
        BY <1>4, <1>6, <1>7
  <1>10. /\ trie'.dirty = {Root[b]}
         /\ \A r \in Roots : trie'.refs[r] = IF r = Root[b] THEN 1 ELSE 0
    <2>1. CASE ~recovery.reexecuted
          BY <2>1, <1>1, <1>5, <1>6, <1>8, Zenon
    <2>2. CASE recovery.reexecuted
      <3>1. Root[c] \in u.dirty /\ u.refs[Root[c]] = 1
            BY <2>2, <1>4, <1>5, <1>6, <1>8
      <3>2. trie' = [u EXCEPT !.refs[Root[c]] = 0, !.dirty = @ \ {Root[c]}]
            BY <2>2, <3>1, <1>1 DEF Dereference
      <3>3. trie'.dirty = u.dirty \ {Root[c]} /\ trie'.refs = [u.refs EXCEPT ![Root[c]] = 0]
            BY <3>2, <1>6
      <3>4. trie'.dirty = {Root[b]}
            BY <3>3, <2>2, <1>4, <1>5, <1>6
      <3>5. ASSUME NEW r \in Roots PROVE trie'.refs[r] = IF r = Root[b] THEN 1 ELSE 0
            BY <3>3, <2>2, <1>4, <1>8, <1>9
      <3> QED BY <3>4, <3>5
    <2> QED BY <2>1, <2>2
  <1> QED BY <1>1, <1>3, <1>10 DEF StateInv, StartInv

\* The end of reprocessState.
LEMMA FinishState ==
    ASSUME Inv, ProcessingInv, StateInv, FinishRecovery
    PROVE  StateInv'
  <1>1. /\ status = "recovering" /\ HasState(Recovered, Root[currentBlock])
        /\ trie' = Recovered /\ Start
        /\ UNCHANGED <<lastAccepted, acceptor, tips, verified>>
        BY DEF FinishRecovery, LoopDone, engine
  <1>2. currentBlock = lastAccepted
        BY <1>1 DEF ProcessingInv, Running
  <1>3. trie'.dirty = {}
        BY <1>1 DEF StateInv, StartInv, Recovered, Commit, Flush
  <1>4. Root[lastAccepted] \in trie'.disk
        BY <1>1, <1>2, <1>3 DEF HasState
  <1> QED BY <1>1, <1>4, StartState

----------------------------------------------------------------------------
(* The theorems *)

\* Every step keeps the references in order.
LEMMA NextState ==
    ASSUME ~Equivocation, RootReferencedOnUpdate, Inv, EngineInv, [Next]_vars
    PROVE  StateInv'
  <1>0. ProcessingInv /\ StateInv
        BY DEF EngineInv
  <1>1. ASSUME NEW b \in Block, Verify(b) \/ Accept(b) \/ Reject(b) PROVE StateInv'
    <2>1. status = "up"
          BY <1>1, Zenon DEF Verify, Accept, Reject, Serving
    <2>2. HeldInv
          BY <2>1, <1>0 DEF StateInv
    <2>3. status' = "up" /\ HeldInv'
          BY <2>2, <1>0, <1>1, VerifyState, AcceptState, RejectState, Zenon
    <2> QED BY <2>3, Zenon DEF StateInv
  <1>2. CASE \/ \E b \in Block : SetPreference(b)
             \/ AcceptNext \/ AcceptorNext
    <2>1. status = "up"
          BY <1>2, Zenon DEF SetPreference, AcceptNext, AcceptorNext, Enqueue, CommitAccepted,
                             Dequeue, WriteIndices, ProcessTrie, PublishTip, Serving
    <2>2. HeldInv
          BY <2>1, <1>0 DEF StateInv
    <2>3. status' = "up" /\ HeldInv'
          BY <2>1, <2>2, <1>0, <1>2, QuietState, ProcessState, Zenon DEF AcceptNext, AcceptorNext
    <2> QED BY <2>3, Zenon DEF StateInv
  <1>3. CASE Boot \/ BeginRecovery \/ Reexecute \/ FinishRecovery
        BY <1>0, <1>3, BeginState, ReexecuteState, FinishState, Zenon
  <1>4. CASE Stop \/ FailBoot \/ CrashNext
        BY <1>4, ExitState
        DEF Stop, FailBoot, CrashNext, Crash, CrashInBoot, CrashInReorg, CrashInInsert
  <1>5. CASE UNCHANGED vars
    <2>1. /\ UNCHANGED <<status, trie, tips, lastAccepted, verified, recovery, acceptorTip,
                         acceptor>>
          BY <1>5 DEF vars, memory, engine
    <2>2. ProcessedHeight' = ProcessedHeight
          BY <2>1, Zenon DEF ProcessedHeight
    <2>3. HeldInv => HeldInv'
          BY <2>1, <2>2, SameState
    <2>4. StartInv => StartInv'
          BY <2>1, Zenon DEF StartInv
    <2> QED BY <2>1, <2>3, <2>4, <1>0, Zenon DEF StateInv
  <1> QED BY <1>1, <1>2, <1>3, <1>4, <1>5, Zenon
          DEF Next, EngineNext, BootNext

\* The invariant behind the availability of states, for every block tree, commit
\* interval, tip buffer size and queue length.
THEOREM EngineInvariant ==
    ASSUME ~Equivocation, RootReferencedOnUpdate
    PROVE  Spec /\ []OneIndexBatch => []EngineInv
  <1>1. Init => EngineInv
    <2> SUFFICES ASSUME Init PROVE EngineInv
        OBVIOUS
    <2>1. /\ verified = {} /\ tips = <<>> /\ status = "down"
          /\ trie = EmptyTrieDB({Root[Genesis]})
          BY DEF Init
    <2>2. ProcessingInv
          BY <2>1 DEF ProcessingInv, Running
    <2>3. StateInv
          BY <2>1 DEF StateInv, StartInv, EmptyTrieDB
    <2> QED BY <2>2, <2>3 DEF EngineInv
  <1>2. Inv /\ EngineInv /\ [Next]_vars => EngineInv'
        BY NextProcessing, NextState DEF EngineInv
  <1> QED BY <1>1, <1>2, InvariantHolds, PTL DEF Spec

\* The state of the last accepted block is held or on disk.
LEMMA AcceptedState ==
    ASSUME Inv, status = "up", HeldInv
    PROVE  HasState(trie, Root[lastAccepted])
  <1>1. /\ lastAccepted \in Block /\ Height[lastAccepted] \in Nat /\ Len(tips) \in Nat
        /\ ProcessedHeight \in Nat /\ ProcessedHeight <= Height[lastAccepted]
        BY ProcessedRange
  <1>2. Path[lastAccepted][Height[lastAccepted]] = lastAccepted
        BY <1>1, PathAssumption
  <1>3. CASE HeldFrom < Height[lastAccepted]
    <2>1. HeldFrom \in Nat
          BY <1>1 DEF HeldFrom, HeldInv
    <2>2. Height[lastAccepted] \in (HeldFrom + 1)..Height[lastAccepted]
          BY <2>1, <1>1, <1>3
    <2>3. lastAccepted \in verified \cup Held
          BY <2>2, <1>2 DEF Held
    <2> QED BY <2>3, <1>1, CoveredState DEF HeldInv, Roots
  <1>4. CASE ~(HeldFrom < Height[lastAccepted])
    <2>1. Len(tips) = 0 /\ ProcessedHeight = Height[lastAccepted]
          BY <1>1, <1>4 DEF HeldFrom
    <2>2. tips = <<>>
          BY <2>1, ProcessedRange
    <2> QED BY <2>1, <2>2, <1>2 DEF HeldInv, HasState
  <1> QED BY <1>3, <1>4

\* No state the engine needs was pruned.
LEMMA StatesAreThere ==
    ASSUME Inv, EngineInv
    PROVE  StateAvailable
  <1> SUFFICES ASSUME status = "up", NEW b \in verified \cup {lastAccepted, currentBlock}
               PROVE  HasState(trie, Root[b])
      BY DEF StateAvailable
  <1>1. HeldInv
        BY DEF EngineInv, StateInv
  <1>2. b \in verified \/ b = lastAccepted
        BY DEF EngineInv, ProcessingInv, Running
  <1>3. CASE b \in verified
    <2>1. b \in verified \cup Held /\ b \in Block /\ Covered(trie, verified \cup Held)
          BY <1>1, <1>3, ProcessedRange DEF HeldInv
    <2> QED BY <2>1, CoveredState DEF Roots
  <1>4. CASE b = lastAccepted
        BY <1>1, <1>4, AcceptedState
  <1> QED BY <1>2, <1>3, <1>4

\* The reorg of Accept finds every block it loads: the old branch above the last
\* accepted block is processing, hence stored.
LEMMA AcceptFindsBlocks ==
    ASSUME Inv, ProcessingInv
    PROVE  AcceptSucceeds
  <1> SUFFICES ASSUME status = "up", NEW b \in verified, Parent(b) = lastAccepted
               PROVE  PreferenceAllowed(lastAccepted, currentBlock, b)
      BY DEF AcceptSucceeds
  <1> DEFINE a == lastAccepted
             cur == currentBlock
  <1>1. /\ a \in Block /\ cur \in Block /\ b \in Block /\ OnPath(a, cur)
        /\ a \in blocks /\ cur \in verified \cup {a} /\ verified \subseteq blocks
        BY DEF Inv, MemoryInv, TypeOK, CanonicalMatchesHead, Running, ProcessingInv
  <1>2. /\ Height[a] \in Nat /\ Height[cur] \in Nat /\ Height[b] = Height[a] + 1
        /\ OnPath(a, b) /\ Height[a] <= Height[cur]
        BY <1>1, HeightNat, ChildPath, OnPathFacts DEF OnPath
  <1>3. Path[b][Height[a]] = a /\ Path[cur][Height[a]] = a
        BY <1>1, <1>2 DEF OnPath
  <1>4. \A h \in (Height[a] + 1)..Height[cur] : Path[cur][h] \in verified
    <2>1. CASE cur = a
          BY <2>1, <1>2
    <2>2. CASE cur \in verified
          BY <2>2, <1>1 DEF ProcessingInv
    <2> QED BY <2>1, <2>2, <1>1
  <1> HIDE DEF a, cur
  <1>5. ASSUME NEW h \in AddedRows(b, cur) PROVE Path[cur][h - 1] \in blocks
    <2>1. h \in 0..Height[cur] /\ h > Height[a]
          BY <1>1, <1>2, AddedAbove
    <2>2. h - 1 = Height[a] \/ h - 1 \in (Height[a] + 1)..Height[cur]
          BY <2>1, <1>2
    <2> QED BY <2>2, <1>1, <1>3, <1>4
  <1>6. ASSUME NEW h \in AddedRows(cur, b) PROVE Path[b][h - 1] \in blocks
    <2>1. h \in 0..Height[b] /\ h > Height[a]
          BY <1>1, <1>2, AddedAbove
    <2>2. h - 1 = Height[a]
          BY <2>1, <1>2
    <2> QED BY <2>2, <1>1, <1>3
  <1>7. ReorgLoads(cur, b) \subseteq blocks
        BY <1>1, <1>5, <1>6 DEF ReorgLoads
  <1>8. \E h \in 0..Height[b] : /\ Height[a] <= h /\ h <= Height[cur]
                                 /\ Path[cur][h] = Path[b][h]
    <2>1. Height[a] \in 0..Height[b]
          BY <1>2
    <2> QED BY <2>1, <1>2, <1>3
  <1> QED BY <1>7, <1>8 DEF PreferenceAllowed, ReorgAllowed, a, cur

\* Whatever the engine may do next can be done: no sequence of inserts, reorgs,
\* rejects, prunings, commits, crashes and recoveries leaves a processing block,
\* the head or the last accepted block without its state, and the reorg Accept
\* may need always finds its blocks.
THEOREM EngineCalls ==
    ASSUME ~Equivocation, RootReferencedOnUpdate
    PROVE  Spec /\ []OneIndexBatch => []EngineCallsSucceed
  <1>1. Inv /\ EngineInv => EngineCallsSucceed
        BY StatesAreThere, AcceptFindsBlocks DEF EngineCallsSucceed, EngineInv
  <1> QED BY <1>1, InvariantHolds, EngineInvariant, PTL

\* When Stop has drained the acceptor, the newest root of the tip buffer is the
\* last accepted block's.
LEMMA StopCommits ==
    ASSUME Inv, EngineInv, Stop
    PROVE  Root[lastAccepted] \in trie'.disk
  <1>1. /\ status = "up" /\ accepting = Idle /\ acceptorQueue = <<>> /\ acceptor = Idle
        /\ trie' = EmptyTrieDB(Shutdown(trie, tips).disk)
        BY DEF Stop, Serving, Exit
  <1>2. HeldInv /\ ProcessingInv
        BY <1>1 DEF EngineInv, StateInv
  <1>3. HasState(trie, Root[lastAccepted])
        BY <1>1, <1>2, AcceptedState
  <1>4. /\ lastAccepted \in Block /\ Height[lastAccepted] \in Nat /\ Len(tips) \in Nat
        /\ acceptorTip \in Block /\ Height[acceptorTip] \in Nat /\ tips \in Seq(Roots)
        BY <1>1, ProcessedRange
  <1>5. Path[lastAccepted][Height[lastAccepted]] = lastAccepted
        BY <1>4, PathAssumption
  <1>6. ProcessedHeight = Height[lastAccepted]
    <2>1. Backlog = <<>>
          BY <1>1 DEF Backlog, Idle
    <2>2. Height[acceptorTip] + Len(Backlog) = Height[lastAccepted]
          BY <1>1 DEF Inv, BacklogIsPath
    <2>3. acceptor.step = "idle"
          BY <1>1 DEF Idle
    <2> QED BY <2>1, <2>2, <2>3, <1>4 DEF ProcessedHeight
  <1>7. trie'.disk = Shutdown(trie, tips).disk
        BY <1>1 DEF EmptyTrieDB
  <1>8. CASE tips = <<>>
    <2>1. Root[lastAccepted] \in trie.disk
          BY <1>2, <1>5, <1>6, <1>8 DEF HeldInv
    <2> QED BY <2>1, <1>7, <1>8 DEF Shutdown
  <1>9. CASE tips # <<>>
    <2>1. Pruning
          BY <1>2, <1>9 DEF ProcessingInv
    <2>2. Len(tips) \in 1..Len(tips)
          BY <1>4, <1>9
    <2>3. HeldFrom + Len(tips) = Height[lastAccepted]
          BY <1>4, <1>6 DEF HeldFrom
    <2>4. tips[Len(tips)] = Root[lastAccepted]
          BY <2>2, <2>3, <1>2, <1>5 DEF HeldInv
    <2>5. Shutdown(trie, tips) = Flush(trie, {Root[lastAccepted]})
          BY <2>1, <2>4, <1>9 DEF Shutdown, Commit
    <2> QED BY <2>5, <1>3, <1>7 DEF Flush, HasState
  <1> QED BY <1>8, <1>9

\* A clean Stop leaves the last accepted state on disk, so that the next start
\* has nothing to re-execute (TrieWriter.Shutdown).
THEOREM StopIsClean ==
    ASSUME ~Equivocation, RootReferencedOnUpdate
    PROVE  Spec /\ []OneIndexBatch => StopCommitsHead
  <1>1. Inv /\ EngineInv /\ [Next]_vars => [Stop => Root[lastAccepted] \in trie'.disk]_vars
        BY StopCommits
  <1> QED BY <1>1, InvariantHolds, EngineInvariant, PTL DEF Spec, StopCommitsHead
=============================================================================
