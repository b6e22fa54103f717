--------------------------- MODULE RecoveryProofs ---------------------------
(***************************************************************************)
(* What a crash leaves and start-up makes of it: where the acceptor tip on *)
(* disk is, that the chain of the head is stored, how a state on disk is   *)
(* kept within reach, and why start-up then succeeds.                      *)
(*                                                                         *)
(* For every block tree and every configuration without equivocation whose *)
(* acceptor queue is no longer than the commit interval: whatever a crash  *)
(* leaves, start-up succeeds unless the acceptor had recorded a block that *)
(* Block.Accept had not yet committed, and the transaction lookup entries  *)
(* on disk have no gap.                                                    *)
(***************************************************************************)
EXTENDS BlockChainProofs

\* A leaf that names no prover is tried with each of these.
USE ZenonT(3), SMTT(20), ZenonT(20), Z3T(20)

----------------------------------------------------------------------------
(* Where the tip on disk is *)

\* The durable block is the last accepted one or its parent.
LEMMA BootOnAccepted ==
    ASSUME Inv, Running
    PROVE  /\ BootBlock \in Block /\ lastAccepted \in Block
           /\ Height[BootBlock] \in Nat /\ Height[lastAccepted] \in Nat
           /\ OnPath(BootBlock, lastAccepted)
           /\ Height[lastAccepted] <= Height[BootBlock] + 1
           /\ accepting = Idle => lastAccepted = BootBlock
           /\ accepting # Idle => Parent(lastAccepted) = BootBlock
  <1>1. /\ BootBlock \in Block /\ lastAccepted \in Block
        /\ accepting = Idle => lastAccepted = BootBlock
        /\ accepting # Idle => Parent(lastAccepted) = BootBlock
        BY DiskInvRows DEF Inv, MemoryInv
  <1>2. Height[BootBlock] \in Nat /\ Height[lastAccepted] \in Nat
        BY <1>1, HeightNat
  <1>3. CASE accepting = Idle
        BY <1>1, <1>2, <1>3, OnPathFacts
  <1>4. CASE accepting # Idle
    <2>1. Height[lastAccepted] = Height[BootBlock] + 1 /\ OnPath(BootBlock, lastAccepted)
          BY <1>1, <1>4, ChildPath, OnPathFacts
    <2> QED BY <2>1, <1>1, <1>2, <1>4
  <1> QED BY <1>3, <1>4

\* What the network decided and the chain has reached is on the accepted chain.
LEMMA FinalOnPath ==
    ASSUME Running, FinalChain, NEW c \in finalized, Height[c] <= Height[lastAccepted]
    PROVE  OnPath(c, lastAccepted)
  BY DEF FinalChain, Log!OneChain, Log!OnPath, OnPath

\* So is the tip on disk.
LEMMA TipOnPath ==
    ASSUME Inv, FinalChain, TipOnDisk, Running, tipKey # NoBlock,
           Height[tipKey] <= Height[lastAccepted]
    PROVE  tipKey \in Block /\ OnPath(tipKey, lastAccepted)
  <1>1. tipKey \in Block
        BY DEF Inv, TypeOK, BlockOrNone
  <1>2. CASE tipKey \in finalized
        BY <1>1, <1>2, FinalOnPath
  <1>3. CASE OnPath(tipKey, BootBlock)
        BY <1>1, <1>3, BootOnAccepted, OnPathFacts
  <1> QED BY <1>2, <1>3 DEF TipOnDisk

\* Two blocks of one height on the path of a third are the same.
LEMMA SameHeight ==
    ASSUME NEW a \in Block, NEW b \in Block, NEW c \in Block,
           OnPath(a, c), OnPath(b, c), Height[a] = Height[b]
    PROVE  a = b
  BY DEF OnPath

\* Nothing but the acceptor and reprocessState writes the tip or lookup entries.
LEMMA TipFrame ==
    ASSUME [Next]_vars, ~WriteIndices, ~Reexecute
    PROVE  UNCHANGED <<tipKey, indexed>>
  BY Zenon
     DEF Next, EngineNext, AcceptNext, AcceptorNext, BootNext, CrashNext, vars, chaindb,
         Verify, SetPreference, Accept, Reject, Enqueue, CommitAccepted, Dequeue, ProcessTrie,
         PublishTip, Boot, BeginRecovery, FinishRecovery, FailBoot, Stop, Crash,
         CrashInBoot, CrashInReorg, CrashInInsert

\* A tip on disk stays where it is while the durable block and the decided blocks
\* grow.
LEMMA SameTip ==
    ASSUME Inv, TipOnDisk, UNCHANGED <<tipKey, indexed>>, finalized \subseteq finalized',
           BootBlock' = BootBlock \/ (BootBlock' \in Block /\ Parent(BootBlock') = BootBlock)
    PROVE  TipOnDisk'
  <1>1. CASE tipKey = NoBlock
        BY <1>1 DEF TipOnDisk
  <1>2. CASE tipKey # NoBlock
    <2>1. tipKey \in Block /\ BootBlock \in Block
          BY <1>2, DiskInvRows DEF Inv, TypeOK, BlockOrNone
    <2>2. /\ Height[tipKey] \in Nat /\ Height[BootBlock] \in Nat
          /\ Height[tipKey] <= Height[BootBlock] + 1
          /\ tipKey \in finalized \/ OnPath(tipKey, BootBlock)
          BY <1>2, <2>1, HeightNat DEF TipOnDisk
    <2>3. /\ BootBlock' \in Block /\ OnPath(BootBlock, BootBlock')
          /\ Height[BootBlock'] \in Nat /\ Height[BootBlock] <= Height[BootBlock']
          BY <2>1, OnPathFacts, HeightNat DEF OnPath
    <2>4. OnPath(tipKey, BootBlock) => OnPath(tipKey, BootBlock')
          BY <2>1, <2>3, OnPathFacts
    <2>5. Height[tipKey] <= Height[BootBlock'] + 1
          BY <2>2, <2>3
    <2>6. tipKey' # NoBlock /\ tipKey' = tipKey
          BY <1>2
    <2> QED BY <2>2, <2>4, <2>5, <2>6, Zenon DEF TipOnDisk
  <1> QED BY <1>1, <1>2

\* The entries of the block that follows the tip on disk leave no gap.
LEMMA NextIndices ==
    ASSUME IndicesHaveNoGap, NEW b \in Block, tipKey' = b, indexed' = indexed \cup {b},
           \/ tipKey = NoBlock /\ indexed = {}
           \/ tipKey = b
           \/ tipKey \in Block /\ Parent(b) = tipKey
    PROVE  IndicesHaveNoGap'
  <1>0. Height[b] \in Nat /\ Path[b][Height[b]] = b /\ \A g \in 0..Height[b] : Height[Path[b][g]] = g
        BY HeightNat, PathAssumption
  <1>1. SUFFICES ASSUME NEW g \in 0..Height[b], Path[b][g] \in indexed \cup {b},
                        NEW h \in g..Height[b]
                 PROVE  Path[b][h] \in indexed \cup {b}
        BY DEF IndicesHaveNoGap
  <1>2. g \in Nat /\ h \in 0..Height[b]
        BY <1>0
  <1>3. CASE h = Height[b]
        BY <1>0, <1>3
  <1>4. CASE h # Height[b]
    <2>1. Path[b][g] # b /\ g # Height[b]
          BY <1>0, <1>1, <1>2, <1>4
    <2>2. Path[b][g] \in indexed
          BY <2>1, <1>1
    <2>3. CASE tipKey = b
          BY <2>2, <2>3, <1>0, NoBlockAssumption DEF IndicesHaveNoGap
    <2>4. CASE tipKey \in Block /\ Parent(b) = tipKey
      <3>1. /\ Height[b] = Height[tipKey] + 1 /\ Height[tipKey] \in Nat
            /\ \A k \in 0..Height[tipKey] : Path[b][k] = Path[tipKey][k]
            BY <2>4, ChildPath, HeightNat
      <3>2. g \in 0..Height[tipKey] /\ h \in g..Height[tipKey] /\ h \in 0..Height[tipKey]
            BY <3>1, <1>0, <1>2, <1>4, <2>1
      <3>3. Path[tipKey][g] \in indexed
            BY <3>1, <3>2, <2>2
      <3>4. Path[tipKey][h] \in indexed
            BY <3>2, <3>3, <2>4, NoBlockAssumption DEF IndicesHaveNoGap
      <3> QED BY <3>1, <3>2, <3>4
    <2> QED BY <2>2, <2>3, <2>4
  <1> QED BY <1>3, <1>4

\* writeBlockAcceptedIndices: the block is the one after the tip on disk, or the
\* one a process that crashed had already recorded.
LEMMA WriteIndicesTip ==
    ASSUME Inv, FinalChain, TipInv, IndicesHaveNoGap, WriteIndices
    PROVE  TipOnDisk' /\ IndicesHaveNoGap'
  <1> DEFINE b == acceptor.block
  <1>1. /\ status = "up" /\ acceptor.step = "indices" /\ tipKey' = b /\ indexed' = indexed \cup {b}
        /\ UNCHANGED <<lastAcceptedKey, finalized>>
        BY DEF WriteIndices, versiondb, engine
  <1>2. /\ lastAccepted \in Block /\ Height[lastAccepted] \in Nat
        /\ acceptorTip \in Block /\ Height[acceptorTip] \in Nat
        /\ OnPath(acceptorTip, lastAccepted)
        BY <1>1, ProcessedRange DEF Inv, BacklogIsPath
  <1>3. Running
        BY <1>1 DEF Running
  <1>4. /\ Height[acceptorTip] < Height[lastAccepted]
        /\ b = Path[lastAccepted][Height[acceptorTip] + 1]
        BY <1>1, AcceptorBlock
  <1>5. Height[acceptorTip] + 1 \in 0..Height[lastAccepted]
        BY <1>2, <1>4
  <1>6. b \in Block /\ Height[b] = Height[acceptorTip] + 1 /\ OnPath(b, lastAccepted)
        BY <1>2, <1>4, <1>5, PathPrefix
  <1>7. BootBlock' = BootBlock
        BY <1>1 DEF BootBlock
  <1> HIDE DEF b
  <1>8. Height[b] <= Height[BootBlock] + 1 /\ (b \in finalized \/ OnPath(b, BootBlock))
    <2>1. /\ BootBlock \in Block /\ Height[BootBlock] \in Nat
          /\ Height[lastAccepted] <= Height[BootBlock] + 1
          BY <1>3, BootOnAccepted
    <2>2. Height[b] <= Height[BootBlock] + 1
          BY <2>1, <1>2, <1>4, <1>6
    <2>3. CASE accepting = Idle
          BY <2>2, <2>3, <1>3, <1>6, BootOnAccepted
    <2>4. CASE accepting # Idle
      <3>1. Parent(lastAccepted) = BootBlock /\ lastAccepted \in finalized
            BY <2>4, <1>3, BootOnAccepted DEF TipInv
      <3>2. /\ Height[lastAccepted] = Height[BootBlock] + 1
            /\ \A h \in 0..Height[BootBlock] : Path[lastAccepted][h] = Path[BootBlock][h]
            BY <2>1, <3>1, <1>2, ChildPath
      <3>3. CASE Height[b] = Height[lastAccepted]
            BY <3>1, <3>3, <2>2, <1>2, <1>6, OnPathFacts, Zenon
      <3>4. CASE Height[b] # Height[lastAccepted]
        <4>1. Height[b] \in 0..Height[BootBlock]
              BY <3>2, <3>4, <2>1, <1>2, <1>4, <1>6
        <4> QED BY <4>1, <3>2, <2>2, <1>6 DEF OnPath
      <3> QED BY <3>3, <3>4
    <2> QED BY <2>3, <2>4
  <1>9. tipKey' # NoBlock
        BY <1>1, <1>6, NoBlockAssumption DEF b
  <1>10. TipOnDisk'
        BY <1>1, <1>7, <1>8, <1>9, Zenon DEF TipOnDisk, b
  <1>11. \/ tipKey = NoBlock /\ indexed = {}
         \/ tipKey = b
         \/ tipKey \in Block /\ Parent(b) = tipKey
    <2>1. CASE tipKey = NoBlock
          BY <2>1 DEF TipInv, TipOnDisk
    <2>2. CASE tipKey # NoBlock
      <3>1. Height[tipKey] \in {Height[acceptorTip], Height[acceptorTip] + 1}
            BY <2>2, <1>1 DEF TipInv, TipOfAcceptor
      <3>2. Height[tipKey] <= Height[lastAccepted]
            BY <3>1, <1>2, <1>4
      <3>3. tipKey \in Block /\ OnPath(tipKey, lastAccepted)
            BY <2>2, <3>2, <1>3, TipOnPath DEF TipInv
      <3>4. CASE Height[tipKey] = Height[acceptorTip] + 1
            BY <3>3, <3>4, <1>2, <1>6, SameHeight
      <3>5. CASE Height[tipKey] = Height[acceptorTip]
        <4>1. tipKey = acceptorTip
              BY <3>3, <3>5, <1>2, SameHeight
        <4>2. b # Genesis /\ Height[b] - 1 = Height[acceptorTip] /\ Height[b] \in Nat
              BY <1>2, <1>6, GenesisAssumption
        <4>3. Path[b][Height[acceptorTip]] = Path[lastAccepted][Height[acceptorTip]]
              BY <1>2, <1>6, OnPathFacts
        <4>4. Path[lastAccepted][Height[acceptorTip]] = acceptorTip
              BY <1>2 DEF OnPath
        <4> QED BY <4>1, <4>2, <4>3, <4>4, <1>2 DEF Parent
      <3> QED BY <3>1, <3>4, <3>5
    <2> QED BY <2>1, <2>2
  <1>12. IndicesHaveNoGap'
        BY <1>1, <1>6, <1>11, NextIndices DEF b
  <1> QED BY <1>10, <1>12

\* The canonical row reprocessState reads next is a row of the accepted chain.
LEMMA NextRow ==
    ASSUME Inv, InLoop
    PROVE  /\ recovery.cursor \in Block /\ Height[recovery.cursor] \in Nat
           /\ lastAccepted \in Block /\ Height[lastAccepted] \in Nat
           /\ lastAccepted = BootBlock /\ OnPath(BootBlock, headKey)
           /\ Height[recovery.cursor] + 1 \in 0..Height[lastAccepted]
           /\ NextCanonical \in Block
           /\ NextCanonical = Path[lastAccepted][Height[recovery.cursor] + 1]
           /\ Height[NextCanonical] = Height[recovery.cursor] + 1
           /\ OnPath(NextCanonical, lastAccepted)
  <1> DEFINE n == Height[recovery.cursor] + 1
  <1>1. status = "recovering" /\ Height[recovery.cursor] < Height[lastAccepted]
        BY DEF InLoop
  <1>2. /\ recovery.cursor \in Block /\ lastAccepted \in Block /\ currentBlock \in Block
        /\ accepting = Idle /\ lastAccepted = BootBlock
        BY <1>1 DEF Inv, MemoryInv, Running
  <1>3. /\ OnPath(lastAccepted, currentBlock) /\ canonical = PathRows(currentBlock)
        /\ headKey = currentBlock
        BY <1>1 DEF Inv, MemoryInv, CanonicalMatchesHead, Running
  <1>4. /\ Height[recovery.cursor] \in Nat /\ Height[lastAccepted] \in Nat
        /\ Height[currentBlock] \in Nat
        /\ 0..Height[lastAccepted] \subseteq Heights
        BY <1>2, HeightNat
  <1>5. n \in 0..Height[lastAccepted] /\ n \in Heights
        BY <1>1, <1>4
  <1>6. Path[currentBlock][n] = Path[lastAccepted][n] /\ Height[lastAccepted] <= Height[currentBlock]
        BY <1>2, <1>3, <1>5, OnPathFacts DEF OnPath
  <1>7. n <= Height[currentBlock]
        BY <1>4, <1>5, <1>6
  <1>8. NextCanonical = Path[lastAccepted][n]
        BY <1>3, <1>5, <1>6, <1>7 DEF NextCanonical, PathRows
  <1>9. /\ NextCanonical \in Block /\ Height[NextCanonical] = n
        /\ OnPath(NextCanonical, lastAccepted)
        BY <1>2, <1>5, <1>8, PathPrefix
  <1> QED BY <1>2, <1>3, <1>4, <1>5, <1>8, <1>9

\* The block it re-executes is the one after its cursor on that chain.
LEMMA NextOnPath ==
    ASSUME Inv, InLoop, ReexecutePossible
    PROVE  /\ Parent(NextCanonical) = recovery.cursor
           /\ OnPath(recovery.cursor, lastAccepted)
  <1>1. Parent(NextCanonical) = recovery.cursor
        BY DEF ReexecutePossible
  <1>2. /\ recovery.cursor \in Block /\ lastAccepted \in Block /\ NextCanonical \in Block
        /\ OnPath(NextCanonical, lastAccepted)
        BY NextRow
  <1> QED BY <1>1, <1>2, OnPathFacts

\* One iteration of reprocessState: it writes indices from the tip on, so that it
\* never passes it without writing.
LEMMA ReexecuteTip ==
    ASSUME Inv, FinalChain, TipInv, IndicesHaveNoGap, Reexecute
    PROVE  TipInv' /\ IndicesHaveNoGap'
  <1> DEFINE b == NextCanonical
             c == recovery.cursor
  <1>1. /\ InLoop /\ ReexecutePossible /\ status = "recovering" /\ status' = "recovering"
        /\ indexed' = IF WritesIndices THEN indexed \cup {b} ELSE indexed
        /\ tipKey' = IF WritesIndices THEN b ELSE tipKey
        /\ recovery' = [recovery EXCEPT !.cursor = b, !.writeIndices = WritesIndices,
                                        !.reexecuted = TRUE]
        /\ UNCHANGED <<accepting, lastAccepted, lastAcceptedKey, finalized>>
        BY DEF Reexecute, InLoop, versiondb, engine
  <1>2. /\ recovery.cursor \in Block /\ Height[recovery.cursor] \in Nat
        /\ lastAccepted \in Block /\ Height[lastAccepted] \in Nat
        /\ lastAccepted = BootBlock
        /\ NextCanonical \in Block
        /\ Height[NextCanonical] = Height[recovery.cursor] + 1
        /\ OnPath(NextCanonical, lastAccepted) /\ OnPath(recovery.cursor, lastAccepted)
        /\ Parent(NextCanonical) = recovery.cursor
        BY <1>1, NextRow, NextOnPath
  <1>3. /\ recovery'.cursor = b /\ recovery'.writeIndices = WritesIndices
        /\ recovery'.tip = recovery.tip
        BY <1>1 DEF Inv, TypeOK, RecoveryStates
  <1>4. BootBlock' = BootBlock /\ Running /\ accepting = Idle /\ accepting' = Idle
        BY <1>1 DEF BootBlock, Running, Inv, MemoryInv
  <1>5. TipOnDisk /\ TipOfRecovery /\ b # NoBlock /\ c # NoBlock
        BY <1>1, <1>2, NoBlockAssumption DEF TipInv
  <1>6. Height[c] < Height[lastAccepted]
        BY <1>1 DEF InLoop
  <1> HIDE DEF b, c
  <1>7. CASE WritesIndices
    <2>1. tipKey = c
          BY <1>5, <1>7 DEF TipOfRecovery, WritesIndices, c
    <2>2. tipKey' = b /\ indexed' = indexed \cup {b}
          BY <1>1, <1>7
    <2>3. b \in Block /\ tipKey \in Block /\ Parent(b) = tipKey
          BY <1>2, <2>1 DEF b, c
    <2>4. IndicesHaveNoGap'
          BY <2>2, <2>3, NextIndices
    <2>5. TipOnDisk'
      <3>1. OnPath(b, BootBlock') /\ Height[BootBlock'] \in Nat
            BY <1>2, <1>4 DEF b
      <3>2. Height[b] \in Nat /\ Height[b] <= Height[BootBlock'] + 1
            BY <3>1, <2>3, HeightNat DEF OnPath
      <3>3. tipKey' # NoBlock
            BY <2>2, <1>5
      <3> QED BY <3>1, <3>2, <3>3, <2>2, Zenon DEF TipOnDisk
    <2>6. TipOfRecovery'
          BY <1>3, <1>5, <1>7, <2>2 DEF TipOfRecovery
    <2> QED BY <2>4, <2>5, <2>6, <1>1, <1>4 DEF TipInv
  <1>8. CASE ~WritesIndices
    <2>1. UNCHANGED <<tipKey, indexed>>
          BY <1>1, <1>8
    <2>2. IndicesHaveNoGap'
          BY <2>1 DEF IndicesHaveNoGap
    <2>3. TipOnDisk'
          BY <2>1, <1>1, <1>4, <1>5, SameTip
    <2>4. ~recovery.writeIndices /\ c # recovery.tip
          BY <1>8 DEF WritesIndices, c
    <2>5. TipOfRecovery'
      <3>1. CASE tipKey = NoBlock
            BY <3>1, <2>1, <1>3, <1>5, <1>8 DEF TipOfRecovery
      <3>2. CASE tipKey # NoBlock
        <4>1. tipKey = recovery.tip /\ Height[c] <= Height[tipKey]
              BY <3>2, <2>4, <1>5 DEF TipOfRecovery, c
        <4>2. tipKey \in Block /\ Height[tipKey] \in Nat /\ c \in Block /\ Height[c] \in Nat
              BY <3>2, <1>2, HeightNat DEF Inv, TypeOK, BlockOrNone, c
        <4>3. Height[c] # Height[tipKey]
          <5>1. SUFFICES ASSUME Height[c] = Height[tipKey] PROVE FALSE
                OBVIOUS
          <5>2. Height[tipKey] <= Height[lastAccepted]
                BY <5>1, <4>2, <1>2, <1>6
          <5>3. OnPath(tipKey, lastAccepted)
                BY <5>2, <3>2, <1>4, <1>5, TipOnPath
          <5>4. OnPath(c, lastAccepted)
                BY <1>2 DEF c
          <5> QED BY <5>1, <5>3, <5>4, <4>1, <4>2, <2>4, <1>2, SameHeight
        <4>4. Height[b] <= Height[tipKey]
              BY <4>1, <4>2, <4>3, <1>2 DEF b, c
        <4> QED BY <4>1, <4>4, <3>2, <2>1, <1>3, <1>8 DEF TipOfRecovery
      <3> QED BY <3>1, <3>2
    <2> QED BY <2>2, <2>3, <2>5, <1>1, <1>4 DEF TipInv
  <1> QED BY <1>7, <1>8

\* Decided blocks stay decided.
LEMMA FinalizedGrows ==
    ASSUME [Next]_vars
    PROVE  finalized \subseteq finalized'
  BY Zenon
     DEF Next, EngineNext, AcceptNext, AcceptorNext, BootNext, CrashNext, vars, engine, Exit,
         Verify, SetPreference, Accept, Reject, Enqueue, CommitAccepted, Dequeue,
             WriteIndices,
         ProcessTrie, PublishTip, Boot, BeginRecovery, Reexecute, FinishRecovery, FailBoot,
         Stop, Crash, CrashInBoot, CrashInReorg, CrashInInsert

\* The end of Block.Accept makes the last accepted block durable.
LEMMA CommitBoot ==
    ASSUME Inv, CommitAccepted
    PROVE  /\ BootBlock' = lastAccepted /\ lastAccepted \in Block /\ BootBlock \in Block
           /\ Parent(lastAccepted) = BootBlock /\ accepting # Idle
           /\ status = "up" /\ status' = "up" /\ accepting' = Idle
           /\ Height[BootBlock'] = Height[BootBlock] + 1 /\ Height[BootBlock] \in Nat
           /\ UNCHANGED <<tipKey, indexed, finalized, acceptor, acceptorTip, tips, lastAccepted>>
  <1>1. /\ status = "up" /\ accepting.step = "commit" /\ lastAcceptedKey' = accepting.block
        /\ accepting' = Idle /\ status' = "up"
        /\ UNCHANGED <<tipKey, indexed, finalized, acceptor, acceptorTip, tips, lastAccepted>>
        BY DEF CommitAccepted, chaindb, engine
  <1>2. /\ accepting.block = lastAccepted /\ lastAccepted \in Block /\ accepting # Idle
        /\ Parent(lastAccepted) = BootBlock
        BY <1>1, IdleTypes DEF Inv, MemoryInv, Running
  <1>3. BootBlock' = lastAccepted /\ BootBlock \in Block
        BY <1>1, <1>2, NoBlockAssumption, DiskInvRows DEF BootBlock, Inv
  <1> QED BY <1>1, <1>2, <1>3, ChildPath, HeightNat

\* The durable block moves to a child or not at all.
LEMMA BootMoves ==
    ASSUME Inv, [Next]_vars
    PROVE  BootBlock' = BootBlock \/ (BootBlock' \in Block /\ Parent(BootBlock') = BootBlock)
  <1>1. CASE CommitAccepted
        BY <1>1, CommitBoot
  <1>2. CASE ~CommitAccepted
    <2>1. UNCHANGED versiondb
          BY <1>2, VersionFrame
    <2> QED BY <2>1 DEF versiondb, BootBlock
  <1> QED BY <1>1, <1>2

\* The chain is up: the acceptor has nothing to do, and its tip on disk is the
\* last accepted block, or the one after.
LEMMA StartTip ==
    ASSUME Inv, TipOnDisk, status \in {"loading", "recovering"}, Start,
           UNCHANGED <<tipKey, acceptor, accepting, lastAccepted, lastAcceptedKey>>,
           tipKey # NoBlock => Height[tipKey] >= Height[lastAccepted]
    PROVE  TipOfAcceptor' /\ status' = "up" /\ accepting' = Idle
  <1>1. /\ lastAccepted \in Block /\ lastAccepted = BootBlock /\ acceptor = Idle
        /\ accepting = Idle
        BY DEF Inv, MemoryInv, Running
  <1>2. status' = "up" /\ acceptorTip' = lastAccepted /\ acceptor'.step = "idle"
        BY <1>1, IdleTypes DEF Start
  <1>3. BootBlock' = BootBlock /\ Height[lastAccepted] \in Nat
        BY <1>1, HeightNat DEF BootBlock
  <1>4. CASE tipKey = NoBlock
        BY <1>1, <1>2, <1>3, <1>4 DEF TipOfAcceptor
  <1>5. CASE tipKey # NoBlock
    <2>1. tipKey \in Block /\ Height[tipKey] \in Nat /\ Height[tipKey] <= Height[lastAccepted] + 1
          BY <1>1, <1>5, HeightNat DEF Inv, TypeOK, BlockOrNone, TipOnDisk
    <2>2. Height[tipKey] \in {Height[lastAccepted], Height[lastAccepted] + 1}
          BY <2>1, <1>3, <1>5
    <2>3. tipKey' # NoBlock /\ tipKey' = tipKey
          BY <1>5
    <2>4. TipOfAcceptor'
          BY <2>2, <2>3, <1>2 DEF TipOfAcceptor
    <2> QED BY <2>4, <1>1, <1>2
  <1> QED BY <1>1, <1>2, <1>4, <1>5

\* Start-up.
LEMMA BootTip ==
    ASSUME Inv, TipInv, Boot \/ BeginRecovery \/ FinishRecovery
    PROVE  /\ accepting' = Idle
           /\ status' = "up" => TipOfAcceptor'
           /\ status' = "recovering" => TipOfRecovery'
  <1>1. /\ status # "up" /\ TipOnDisk
        /\ UNCHANGED <<tipKey, acceptor, accepting, lastAcceptedKey>>
        BY DEF Boot, NotRunning, BeginRecovery, FinishRecovery, LoopDone, TipInv,
               chaindb, versiondb
  <1>2. accepting = Idle
        BY <1>1 DEF Inv, MemoryInv
  <1>3. CASE Boot
        BY <1>1, <1>2, <1>3 DEF Boot
  <1>4. CASE BeginRecovery /\ UpToDate
    <2>1. status = "loading" /\ Start /\ UNCHANGED lastAccepted /\ tipKey \in {NoBlock, lastAccepted}
          BY <1>4 DEF BeginRecovery, UpToDate
    <2>2. lastAccepted \in Block /\ Height[lastAccepted] \in Nat
          BY <2>1, HeightNat DEF Inv, MemoryInv, Running
    <2> QED BY <2>1, <2>2, <1>1, StartTip
  <1>5. CASE BeginRecovery /\ ~UpToDate
    <2>1. PICK h \in StateHeights :
            /\ status' = "recovering"
            /\ recovery' = [cursor |-> Path[SearchFrom][h], tip |-> tipKey,
                            writeIndices |-> FALSE, reexecuted |-> FALSE]
          BY <1>5 DEF BeginRecovery
    <2>2. h \in 0..Height[SearchFrom]
          BY DEF StateHeights
    <2>3. CASE tipKey = NoBlock
          BY <2>1, <2>3, <1>1, <1>2 DEF TipOfRecovery
    <2>4. CASE tipKey # NoBlock
      <3>1. SearchFrom = tipKey /\ tipKey \in Block /\ Height[tipKey] \in Nat
            BY <2>4, HeightNat DEF SearchFrom, Inv, TypeOK, BlockOrNone
      <3>2. Height[Path[tipKey][h]] = h
            BY <2>2, <3>1, PathPrefix
      <3> QED BY <3>1, <3>2, <2>1, <2>2, <2>4, <1>1, <1>2 DEF TipOfRecovery
    <2> QED BY <2>3, <2>4
  <1>6. CASE FinishRecovery
    <2>1. /\ status = "recovering" /\ Start /\ UNCHANGED lastAccepted
          /\ Height[recovery.cursor] >= Height[lastAccepted]
          BY <1>6 DEF FinishRecovery, LoopDone
    <2>2. /\ lastAccepted \in Block /\ Height[lastAccepted] \in Nat
          /\ recovery.cursor \in Block /\ Height[recovery.cursor] \in Nat
          BY <2>1, HeightNat DEF Inv, MemoryInv, Running
    <2>3. tipKey # NoBlock => Height[tipKey] >= Height[lastAccepted]
      <3>1. SUFFICES ASSUME tipKey # NoBlock PROVE Height[tipKey] >= Height[lastAccepted]
            OBVIOUS
      <3>2. tipKey = recovery.cursor \/ Height[recovery.cursor] <= Height[tipKey]
            BY <2>1, <3>1 DEF TipInv, TipOfRecovery
      <3>3. Height[tipKey] \in Nat
            BY <3>1, HeightNat DEF Inv, TypeOK, BlockOrNone
      <3> QED BY <3>2, <3>3, <2>1, <2>2
    <2> QED BY <2>1, <2>3, <1>1, StartTip
  <1> QED BY <1>3, <1>4, <1>5, <1>6

\* The acceptor's steps after the indices are written.
LEMMA AcceptorTipMoves ==
    ASSUME Inv, TipInv, Dequeue \/ WriteIndices \/ ProcessTrie \/ PublishTip
    PROVE  /\ UNCHANGED <<accepting, lastAccepted, finalized, status>> /\ status = "up"
           /\ TipOfAcceptor'
  <1>1. /\ UNCHANGED <<accepting, lastAccepted, finalized, status, lastAcceptedKey>>
        /\ status = "up"
        BY DEF Dequeue, WriteIndices, ProcessTrie, PublishTip, versiondb, engine
  <1>2. TipOfAcceptor /\ acceptor \in AcceptorStates /\ BootBlock' = BootBlock
        BY <1>1 DEF TipInv, Inv, TypeOK, BootBlock
  <1>3. CASE Dequeue
    <2>1. /\ acceptor.step = "idle" /\ acceptor'.step = "indices"
          /\ UNCHANGED <<tipKey, acceptorTip, tips>>
          BY <1>3, IdleTypes, Zenon DEF Dequeue, chaindb
    <2> QED BY <2>1, <1>1, <1>2, Zenon DEF TipOfAcceptor
  <1>4. CASE WriteIndices
    <2>1. acceptor'.step = "trie" /\ acceptor'.block = acceptor.block /\ tipKey' = acceptor.block
          BY <1>2, <1>4 DEF WriteIndices, AcceptorStates
    <2> QED BY <2>1, <1>1 DEF TipOfAcceptor
  <1>5. CASE ProcessTrie
    <2>1. /\ acceptor.step = "trie" /\ acceptor'.step = "tip" /\ acceptor'.block = acceptor.block
          /\ UNCHANGED tipKey
          BY <1>2, <1>5 DEF ProcessTrie, AcceptorStates, chaindb
    <2> QED BY <2>1, <1>1, <1>2 DEF TipOfAcceptor
  <1>6. CASE PublishTip
    <2>1. /\ acceptor.step = "tip" /\ acceptor'.step = "idle" /\ acceptorTip' = acceptor.block
          /\ UNCHANGED tipKey
          BY <1>6, IdleTypes DEF PublishTip, chaindb
    <2>2. acceptor.block \in Block /\ acceptor.block # NoBlock
          BY <2>1, IdleTypes, NoBlockAssumption DEF Inv, MemoryInv
    <2>3. tipKey = acceptor.block
          BY <2>1, <1>2 DEF TipOfAcceptor
    <2> QED BY <2>1, <2>2, <2>3, <1>1 DEF TipOfAcceptor
  <1> QED BY <1>1, <1>3, <1>4, <1>5, <1>6

\* Nothing the engine does moves the tip.
LEMMA EngineTip ==
    ASSUME Inv, TipInv, EngineNext \/ AcceptNext
    PROVE  /\ status = "up" /\ status' = "up"
           /\ accepting' # Idle => lastAccepted' \in finalized'
           /\ TipOfAcceptor'
  <1>1. /\ status = "up" /\ status' = "up"
        /\ UNCHANGED <<tipKey, acceptor, acceptorTip, tips>>
        BY Zenon DEF EngineNext, AcceptNext, Verify, SetPreference, Accept, Reject, Enqueue,
               CommitAccepted, Serving, chaindb, memory
  <1>2. TipOfAcceptor
        BY <1>1 DEF TipInv
  <1>3. TipOfAcceptor'
    <2>1. [Next]_vars
          BY DEF Next
    <2>2. BootBlock \in Block /\ Height[BootBlock] \in Nat
          BY DiskInvRows, HeightNat DEF Inv
    <2>3. Height[BootBlock'] \in Nat /\ Height[BootBlock] <= Height[BootBlock']
          BY <2>1, <2>2, BootMoves, ChildPath, HeightNat
    <2>4. Height[acceptorTip] \in Nat
          BY <1>1, ProcessedRange
    <2>5. Height[acceptorTip] <= Height[BootBlock] => Height[acceptorTip] <= Height[BootBlock']
          BY <2>2, <2>3, <2>4
    <2> QED BY <2>5, <1>1, <1>2, Zenon DEF TipOfAcceptor
  <1>4. accepting' # Idle => lastAccepted' \in finalized'
    <2>1. CASE \E b \in Block : Accept(b)
          BY <2>1 DEF Accept
    <2>2. CASE CommitAccepted
          BY <2>2 DEF CommitAccepted
    <2>3. CASE Enqueue
      <3>1. accepting # Idle /\ UNCHANGED <<lastAccepted, finalized>>
            BY <2>3, IdleTypes DEF Enqueue, engine
      <3> QED BY <3>1 DEF TipInv
    <2>4. CASE \E b \in Block : Verify(b) \/ SetPreference(b) \/ Reject(b)
          BY <2>4, Zenon DEF Verify, SetPreference, Reject, Serving, memory
    <2> QED BY <2>1, <2>2, <2>3, <2>4 DEF EngineNext, AcceptNext
  <1> QED BY <1>1, <1>3, <1>4

\* Every step keeps the tip where it should be and the indices without a gap.
LEMMA NextTip ==
    ASSUME Inv, FinalChain, TipInv, IndicesHaveNoGap, [Next]_vars
    PROVE  TipInv' /\ IndicesHaveNoGap'
  <1>1. CASE Reexecute
        BY <1>1, ReexecuteTip
  <1>2. CASE WriteIndices
    <2>1. TipOnDisk' /\ IndicesHaveNoGap'
          BY <1>2, WriteIndicesTip
    <2>2. /\ UNCHANGED <<accepting, lastAccepted, finalized, status>> /\ status = "up"
          /\ TipOfAcceptor'
          BY <1>2, AcceptorTipMoves
    <2> QED BY <2>1, <2>2 DEF TipInv
  <1>3. CASE ~Reexecute /\ ~WriteIndices
    <2>1. UNCHANGED <<tipKey, indexed>> /\ finalized \subseteq finalized'
          BY <1>3, TipFrame, FinalizedGrows
    <2>2. IndicesHaveNoGap'
          BY <2>1 DEF IndicesHaveNoGap
    <2>3. TipOnDisk'
          BY <2>1, BootMoves, SameTip DEF TipInv
    <2>4. CASE EngineNext \/ AcceptNext
      <3>1. /\ status' = "up" /\ TipOfAcceptor'
            /\ accepting' # Idle => lastAccepted' \in finalized'
            BY <2>4, EngineTip
      <3> QED BY <3>1, <2>2, <2>3 DEF TipInv
    <2>5. CASE Dequeue \/ ProcessTrie \/ PublishTip
      <3>1. /\ UNCHANGED <<accepting, lastAccepted, finalized, status>> /\ status = "up"
            /\ TipOfAcceptor'
            BY <2>5, AcceptorTipMoves
      <3> QED BY <3>1, <2>2, <2>3 DEF TipInv
    <2>6. CASE Boot \/ BeginRecovery \/ FinishRecovery
      <3>1. /\ accepting' = Idle
            /\ status' = "up" => TipOfAcceptor'
            /\ status' = "recovering" => TipOfRecovery'
            BY <2>6, BootTip
      <3> QED BY <3>1, <2>2, <2>3 DEF TipInv
    <2>7. CASE Stop \/ FailBoot \/ CrashNext
      <3>1. status' \in {"down", "failed"} /\ accepting' = Idle
            BY <2>7, Zenon DEF Stop, FailBoot, CrashNext, Crash, CrashInBoot, CrashInReorg,
                               CrashInInsert, Exit
      <3> QED BY <3>1, <2>2, <2>3 DEF TipInv
    <2>8. CASE UNCHANGED vars
      <3>1. UNCHANGED <<acceptor, acceptorTip, tips, recovery, accepting, lastAccepted, status,
                        finalized, lastAcceptedKey>>
            BY <2>8 DEF vars, memory, engine, versiondb
      <3>2. BootBlock' = BootBlock
            BY <3>1 DEF BootBlock
      <3>3. (TipOfAcceptor => TipOfAcceptor') /\ (TipOfRecovery => TipOfRecovery')
            BY <3>1, <3>2, <2>1 DEF TipOfAcceptor, TipOfRecovery
      <3> QED BY <3>1, <3>3, <2>2, <2>3 DEF TipInv
    <2> QED BY <1>3, <2>4, <2>5, <2>6, <2>7, <2>8, Zenon DEF Next, AcceptorNext, BootNext
  <1> QED BY <1>1, <1>2, <1>3

----------------------------------------------------------------------------
(* The chain of the head is stored *)

\* A head that stays keeps its chain unless a block of it is deleted.
LEMMA SameStored ==
    ASSUME StoredInv, headKey' = headKey, blocks \subseteq blocks'
    PROVE  StoredInv'
  BY DEF StoredInv

\* The chain of a processing block above the last accepted one is stored.
LEMMA StoredPath ==
    ASSUME Inv, ProcessingInv, StoredInv, Serving,
           NEW b \in verified \cup {lastAccepted}, OnPath(lastAccepted, b)
    PROVE  b \in Block /\ \A h \in 0..Height[b] : Path[b][h] \in blocks
  <1>1. /\ lastAccepted \in Block /\ headKey \in Block /\ b \in Block
        /\ OnPath(lastAccepted, headKey)
        BY ServingFacts DEF Inv, TypeOK
  <1>2. /\ Height[lastAccepted] \in Nat /\ Height[headKey] \in Nat /\ Height[b] \in Nat
        /\ Height[lastAccepted] <= Height[headKey]
        BY <1>1, HeightNat DEF OnPath
  <1>3. SUFFICES ASSUME NEW h \in 0..Height[b] PROVE Path[b][h] \in blocks
        BY <1>1
  <1>4. CASE h <= Height[lastAccepted]
    <2>1. h \in 0..Height[lastAccepted] /\ h \in 0..Height[headKey]
          BY <1>2, <1>4
    <2>2. Path[b][h] = Path[lastAccepted][h] /\ Path[headKey][h] = Path[lastAccepted][h]
          BY <2>1, <1>1, OnPathFacts
    <2> QED BY <2>1, <2>2 DEF StoredInv
  <1>5. CASE h > Height[lastAccepted]
    <2>1. h \in (Height[lastAccepted] + 1)..Height[b] /\ b # lastAccepted
          BY <1>2, <1>5
    <2> QED BY <2>1 DEF ProcessingInv
  <1> QED BY <1>2, <1>4, <1>5

\* A block that is rejected is not on the chain of the head.
LEMMA RejectStored ==
    ASSUME ~Equivocation, Inv, ProcessingInv, StoredInv, NEW b \in Block, Reject(b)
    PROVE  StoredInv'
  <1>1. /\ Serving /\ b \in verified /\ ~OnPath(lastAccepted, b)
        /\ blocks' = blocks \ {b} /\ headKey' = headKey
        BY DEF Reject, Rejectable
  <1>2. ~OnPath(b, lastAccepted)
        BY <1>1 DEF ProcessingInv
  <1>3. /\ lastAccepted \in Block /\ headKey \in Block
        /\ OnPath(lastAccepted, headKey)
        BY <1>1, ServingFacts DEF Inv, TypeOK
  <1>4. SUFFICES ASSUME NEW h \in 0..Height[headKey], Path[headKey][h] = b PROVE FALSE
        BY <1>1 DEF StoredInv
  <1>5. /\ Height[lastAccepted] \in Nat /\ Height[headKey] \in Nat
        /\ Height[lastAccepted] <= Height[headKey] /\ Path[headKey][Height[lastAccepted]] = lastAccepted
        BY <1>3, HeightNat DEF OnPath
  <1>6. Height[b] = h /\ OnPath(b, headKey)
        BY <1>3, <1>4, PathPrefix
  <1>7. CASE h <= Height[lastAccepted]
    <2>1. h \in 0..Height[lastAccepted]
          BY <1>5, <1>7
    <2>2. Path[lastAccepted][h] = b
          BY <2>1, <1>3, <1>4, OnPathFacts
    <2> QED BY <2>2, <1>2, <1>6, <1>7 DEF OnPath
  <1>8. CASE h > Height[lastAccepted]
    <2>1. Height[lastAccepted] \in 0..Height[b] /\ Height[lastAccepted] <= Height[b]
          BY <1>5, <1>6, <1>8
    <2>2. Path[b][Height[lastAccepted]] = lastAccepted
          BY <2>1, <1>3, <1>5, <1>6, OnPathFacts
    <2> QED BY <2>1, <2>2, <1>1 DEF OnPath
  <1> QED BY <1>5, <1>7, <1>8

\* insertBlock stores a block before it makes it the head.
LEMMA VerifyStored ==
    ASSUME Inv, StoredInv, NEW b \in Block, Verify(b)
    PROVE  StoredInv'
  <1>1. /\ Serving /\ blocks' = blocks \cup {b}
        /\ \/ headKey' = headKey
           \/ headKey' = b /\ Parent(b) = currentBlock
        BY DEF Verify
  <1>2. CASE headKey' = headKey
        BY <1>1, <1>2, SameStored
  <1>3. CASE headKey' = b /\ Parent(b) = currentBlock
    <2>1. headKey \in Block /\ Parent(b) = headKey
          BY <1>1, <1>3, ServingFacts
    <2>2. /\ Height[b] = Height[headKey] + 1 /\ Height[headKey] \in Nat
          /\ \A h \in 0..Height[headKey] : Path[b][h] = Path[headKey][h]
          /\ Path[b][Height[b]] = b
          BY <2>1, ChildPath, HeightNat
    <2>3. SUFFICES ASSUME NEW h \in 0..Height[b] PROVE Path[b][h] \in blocks \cup {b}
          BY <1>1, <1>3 DEF StoredInv
    <2>4. h = Height[b] \/ h \in 0..Height[headKey]
          BY <2>2
    <2> QED BY <2>2, <2>4 DEF StoredInv
  <1> QED BY <1>1, <1>2, <1>3

\* The head moves to a stored chain, or part of the way to one.
LEMMA MovedStored ==
    ASSUME NEW b \in Block, \A h \in 0..Height[b] : Path[b][h] \in blocks,
           blocks' = blocks, NEW k \in 0..Height[b], headKey' = Path[b][k]
    PROVE  StoredInv'
  <1>1. Height[b] \in Nat /\ Height[headKey'] = k /\ \A h \in 0..k : Path[headKey'][h] = Path[b][h]
        BY HeightNat, PathPrefix
  <1> QED BY <1>1 DEF StoredInv

\* The writes of a reorg leave the head at the old block or on the new chain.
LEMMA PartialHead ==
    ASSUME NEW old \in Block, NEW new \in Block, PartialReorg(old, new)
    PROVE  \/ headKey' = headKey
           \/ \E h \in AddedRows(old, new) : headKey' = Path[new][h]
  BY DEF PartialReorg

\* Accept and SetPreference move the head to a processing block.
LEMMA PreferStored ==
    ASSUME ~Equivocation, Inv, ProcessingInv, StoredInv, NEW b \in Block,
           SetPreference(b) \/ Accept(b) \/ CrashInReorg(b)
    PROVE  StoredInv'
  <1>1. Serving /\ blocks' = blocks
        BY DEF SetPreference, Accept, CrashInReorg
  <1>2. headKey' = headKey => StoredInv'
        BY <1>1, SameStored
  <1>3. SUFFICES ASSUME headKey' # headKey PROVE StoredInv'
        BY <1>2
  <1>4. /\ b \in verified \cup {lastAccepted}
        /\ PreferenceAllowed(lastAccepted, currentBlock, b)
        /\ headKey' # b => CrashInReorg(b)
        BY <1>3, Zenon DEF SetPreference, Accept, CrashInReorg, Acceptable, PreferenceAllowed
  <1>5. OnPath(lastAccepted, b)
        BY <1>1, <1>4, PreferenceMoves
  <1>6. \A h \in 0..Height[b] : Path[b][h] \in blocks
        BY <1>1, <1>4, <1>5, StoredPath
  <1>7. Height[b] \in 0..Height[b] /\ Path[b][Height[b]] = b
        BY HeightNat, PathAssumption
  <1>8. CASE headKey' = b
        BY <1>1, <1>6, <1>7, <1>8, MovedStored
  <1>9. CASE headKey' # b
    <2>1. currentBlock \in Block /\ PartialReorg(currentBlock, b)
          BY <1>1, <1>4, <1>9, ServingFacts DEF CrashInReorg
    <2>2. PICK h \in AddedRows(currentBlock, b) : headKey' = Path[b][h]
          BY <1>3, <2>1, PartialHead
    <2>3. h \in 0..Height[b]
          BY DEF AddedRows
    <2> QED BY <2>2, <2>3, <1>1, <1>6, MovedStored
  <1> QED BY <1>8, <1>9

\* loadLastState moves the head down its own chain.
LEMMA BootStored ==
    ASSUME Inv, StoredInv, Boot \/ CrashInBoot
    PROVE  StoredInv'
  <1>1. /\ BootBlock \in Block /\ headKey \in Block /\ OnPath(BootBlock, headKey)
        BY DiskInvRows DEF Inv, TypeOK, DiskInv
  <1>2. CASE Boot
    <2>1. blocks' = blocks /\ headKey' = BootBlock
          BY <1>2 DEF Boot
    <2>2. Height[BootBlock] \in 0..Height[headKey] /\ Path[headKey][Height[BootBlock]] = BootBlock
          BY <1>1, HeightNat DEF OnPath
    <2> QED BY <2>1, <2>2, <1>1, MovedStored, Zenon DEF StoredInv
  <1>3. CASE CrashInBoot
    <2>1. blocks' = blocks /\ PartialReorg(headKey, BootBlock)
          BY <1>3 DEF CrashInBoot
    <2>2. AddedRows(headKey, BootBlock) = {}
          BY <1>1, NothingAdded
    <2>3. headKey' = headKey
          BY <2>1, <2>2, <1>1, PartialHead
    <2> QED BY <2>1, <2>3, SameStored
  <1> QED BY <1>2, <1>3

\* Every other step leaves the head and the blocks, or stores one more.
LEMMA NextStored ==
    ASSUME ~Equivocation, Inv, ProcessingInv, StoredInv, [Next]_vars
    PROVE  StoredInv'
  <1>1. ASSUME NEW b \in Block, Verify(b) PROVE StoredInv'
        BY <1>1, VerifyStored
  <1>2. ASSUME NEW b \in Block, Reject(b) PROVE StoredInv'
        BY <1>2, RejectStored
  <1>3. ASSUME NEW b \in Block, SetPreference(b) \/ Accept(b) \/ CrashInReorg(b) PROVE StoredInv'
        BY <1>3, PreferStored
  <1>4. CASE Boot \/ CrashInBoot
        BY <1>4, BootStored
  <1>5. ASSUME NEW b \in Block, CrashInInsert(b) PROVE StoredInv'
    <2>1. headKey' = headKey /\ blocks' = blocks \cup {b}
          BY <1>5 DEF CrashInInsert
    <2> QED BY <2>1, SameStored
  <1>6. CASE \/ AcceptNext \/ AcceptorNext \/ BeginRecovery \/ Reexecute \/ FinishRecovery
             \/ FailBoot \/ Stop \/ Crash \/ UNCHANGED vars
    <2>1. headKey' = headKey /\ blocks' = blocks
          BY <1>6, Zenon DEF AcceptNext, AcceptorNext, Enqueue, CommitAccepted, Dequeue,
             WriteIndices, ProcessTrie, PublishTip, BeginRecovery, Reexecute, FinishRecovery,
             FailBoot, Stop, Crash, chaindb, vars
    <2> QED BY <2>1, SameStored
  <1> QED BY <1>1, <1>2, <1>3, <1>4, <1>5, <1>6, Zenon DEF Next, EngineNext, BootNext, CrashNext

----------------------------------------------------------------------------
(* A state within reach *)

\* A natural number is its quotient and its remainder.
LEMMA QuotientRemainder ==
    ASSUME NEW p \in Nat, NEW c \in Nat \ {0}
    PROVE  p = c * (p \div c) + (p % c) /\ p \div c \in Nat /\ p % c \in 0..(c - 1)
  OBVIOUS

\* The remainder is unique.
LEMMA SameRemainder ==
    ASSUME NEW q \in Int, NEW x \in Int, NEW r \in Int, NEW s \in Int, NEW c \in Nat \ {0},
           c * q + r = c * x + s, 0 <= r, r < c, 0 <= s, s < c
    PROVE  r = s
  <1>1. c * (q - x) = s - r
        BY SMTT(30)
  <1>2. q - x \in Int
        OBVIOUS
  <1>3. \A y \in Int : y >= 1 => c * y >= c
        BY SMTT(30)
  <1>4. \A y \in Int : y <= -1 => c * y <= -c
        BY SMTT(30)
  <1>5. ~ (q - x >= 1)
        BY <1>1, <1>2, <1>3
  <1>6. ~ (q - x <= -1)
        BY <1>1, <1>2, <1>4
  <1>7. q - x = 0
        BY <1>5, <1>6
  <1> QED BY <1>1, <1>7

\* The remainder grows by one until it wraps.
LEMMA NextRemainder ==
    ASSUME NEW p \in Nat, NEW c \in Nat \ {0}, (p + 1) % c # 0
    PROVE  (p + 1) % c = (p % c) + 1
  <1> DEFINE q == p \div c
             r == p % c
             x == (p + 1) \div c
             s == (p + 1) % c
  <1>1. p = c * q + r /\ q \in Nat /\ r \in 0..(c - 1)
        BY QuotientRemainder, Zenon
  <1>2. p + 1 = c * x + s /\ x \in Nat /\ s \in 0..(c - 1)
    <2>1. p + 1 \in Nat
          OBVIOUS
    <2> QED BY <2>1, QuotientRemainder, Zenon
  <1> HIDE DEF q, r, x, s
  <1>3. c * q + r + 1 = c * x + s /\ q \in Nat /\ x \in Nat /\ r \in 0..(c - 1) /\ s \in 0..(c - 1)
        BY <1>1, <1>2
  <1>4. CASE r + 1 < c
    <2>1. c * q \in Int /\ c * x \in Int
          BY <1>3
    <2>2. c * q + (r + 1) = c * x + s
          BY <1>3, <2>1
    <2>3. r + 1 = s
          BY <2>2, <1>3, <1>4, SameRemainder
    <2> QED BY <2>3 DEF r, s
  <1>5. CASE r + 1 = c
    <2>1. c * q \in Int /\ c * x \in Int /\ c * (q + 1) = c * q + c
          BY <1>3
    <2>2. c * (q + 1) + 0 = c * x + s
          BY <1>3, <1>5, <2>1
    <2>3. 0 = s
          BY <2>2, <1>3, SameRemainder
    <2> QED BY <2>3 DEF s
  <1> QED BY <1>3, <1>4, <1>5

\* What is on disk stays there.
LEMMA FlushGrows ==
    ASSUME NEW t \in TrieDBs, NEW r \in Roots, NEW R
    PROVE  /\ t.disk \subseteq Flush(t, R).disk
           /\ Dereference(t, r).disk = t.disk
           /\ Update(t, r).disk = t.disk
           /\ Commit(t, r).disk \subseteq t.disk \cup {r}
  BY DEF Flush, Dereference, Update, Commit, TrieDBs

\* Accepting a block and a clean stop only add roots to the disk.
LEMMA AcceptGrows ==
    ASSUME NEW t \in TrieDBs, NEW b \in Block, NEW ts \in Seq(Roots)
    PROVE  /\ \A u \in AcceptTrie(t, ts, b) : t.disk \subseteq u.disk
           /\ t.disk \subseteq Shutdown(t, ts).disk
  <1>1. TipEvict(t, ts).disk = t.disk
    <2>1. CASE Len(ts) = StateHistory
      <3>1. Head(ts) \in Roots
            BY <2>1, TrieWriterAssumption
      <3> QED BY <2>1, <3>1, FlushGrows DEF TipEvict
    <2> QED BY <2>1 DEF TipEvict
  <1>2. \A e, R : e.disk \subseteq Flush(e, R).disk
        BY DEF Flush
  <1>3. ASSUME NEW u \in AcceptTrie(t, ts, b) PROVE t.disk \subseteq u.disk
    <2>1. \E R : u = Flush(t, R) \/ u = Flush(TipEvict(t, ts), R)
          BY <1>3, Zenon DEF AcceptTrie, Commit, Cap
    <2> QED BY <2>1, <1>1, <1>2
  <1>4. t.disk \subseteq Shutdown(t, ts).disk
        BY <1>2 DEF Shutdown, Commit
  <1> QED BY <1>3, <1>4

\* No step removes a root from the disk.
LEMMA DiskGrows ==
    ASSUME Inv, [Next]_vars
    PROVE  trie.disk \subseteq trie'.disk
  <1>1. trie \in TrieDBs /\ tips \in Seq(Roots)
        BY DEF Inv, TypeOK
  <1>2. \A b \in Block : Root[b] \in Roots
        BY DEF Roots
  <1>3. ASSUME NEW b \in Block, Verify(b) PROVE trie.disk \subseteq trie'.disk
    <2>1. trie' \in InsertTrie(Update(trie, Root[b])) /\ Root[b] \in Roots
          BY <1>2, <1>3 DEF Verify
    <2>2. Update(trie, Root[b]).disk = trie.disk /\ Update(trie, Root[b]) \in TrieDBs
          BY <2>1, <1>1, FlushGrows, TrieTypes
    <2>3. trie' = Update(trie, Root[b]) \/ \E R : trie' = Flush(Update(trie, Root[b]), R)
          BY <2>1, Zenon DEF InsertTrie, Cap
    <2> QED BY <2>1, <2>2, <2>3, FlushGrows
  <1>4. ASSUME NEW b \in Block, Accept(b) PROVE trie.disk \subseteq trie'.disk
    <2>1. trie' = trie \/ trie' = Update(trie, Root[b])
          BY <1>4 DEF Accept, EnsureState
    <2> QED BY <2>1, <1>1, <1>2, FlushGrows
  <1>5. ASSUME NEW b \in Block, Reject(b) PROVE trie.disk \subseteq trie'.disk
    <2>1. trie' = Dereference(trie, Root[b])
          BY <1>5 DEF Reject, RejectTrie
    <2> QED BY <2>1, <1>1, <1>2, FlushGrows
  <1>6. CASE ProcessTrie
    <2>1. acceptor.block \in Block /\ trie' \in AcceptTrie(trie, tips, acceptor.block)
          BY <1>6, IdleTypes DEF ProcessTrie, Inv, MemoryInv
    <2> QED BY <2>1, <1>1, AcceptGrows
  <1>7. CASE Reexecute
    <2>1. /\ trie' = Dereference(Update(trie, Root[NextCanonical]), Root[recovery.cursor])
             \/ trie' = Update(trie, Root[NextCanonical])
          /\ InLoop
          BY <1>7 DEF Reexecute
    <2>2. Root[NextCanonical] \in Roots /\ Root[recovery.cursor] \in Roots
          BY <2>1, <1>2, NextRow
    <2>3. Update(trie, Root[NextCanonical]) \in TrieDBs
          BY <2>2, <1>1, TrieTypes, GenesisAssumption, Zenon
    <2>4. /\ Update(trie, Root[NextCanonical]).disk = trie.disk
          /\ Dereference(Update(trie, Root[NextCanonical]), Root[recovery.cursor]).disk
                = Update(trie, Root[NextCanonical]).disk
          BY <2>2, <2>3, <1>1, FlushGrows, Zenon
    <2> QED BY <2>1, <2>4, Zenon
  <1>8. CASE FinishRecovery
    <2>1. trie' = trie \/ trie' = Flush(trie, {Root[recovery.cursor]})
          BY <1>8, Zenon DEF FinishRecovery, Recovered, Commit
    <2> QED BY <2>1 DEF Flush
  <1>9. CASE Stop
    <2>1. trie'.disk = Shutdown(trie, tips).disk
          BY <1>9 DEF Stop, Exit, EmptyTrieDB
    <2> QED BY <2>1, <1>1, GenesisAssumption, AcceptGrows
  <1>10. CASE FailBoot \/ CrashNext
    <2>1. trie' = EmptyTrieDB(trie.disk)
          BY <1>10, Zenon DEF FailBoot, CrashNext, Crash, CrashInBoot, CrashInReorg, CrashInInsert,
                              Exit
    <2> QED BY <2>1 DEF EmptyTrieDB
  <1>11. CASE \/ (\E b \in Block : SetPreference(b)) \/ AcceptNext \/ Dequeue \/ WriteIndices
              \/ PublishTip \/ Boot \/ BeginRecovery \/ UNCHANGED vars
    <2>1. trie' = trie
          BY <1>11, Zenon DEF SetPreference, AcceptNext, Enqueue, CommitAccepted, Dequeue,
                              WriteIndices, PublishTip, Boot, BeginRecovery, vars
    <2> QED BY <2>1
  <1> QED BY <1>3, <1>4, <1>5, <1>6, <1>7, <1>8, <1>9, <1>10, <1>11, Zenon
          DEF Next, EngineNext, AcceptorNext, BootNext

\* A step of a process that is up, and stays up.
LEMMA UpSteps ==
    ASSUME status = "up", [Next]_vars
    PROVE  \/ status' = "down" /\ UNCHANGED <<tipKey, lastAcceptedKey>>
           \/ EngineNext \/ AcceptNext \/ AcceptorNext \/ UNCHANGED vars
  <1>1. ~BootNext /\ ~CrashInBoot
        BY DEF BootNext, Boot, NotRunning, BeginRecovery, Reexecute, FinishRecovery, InLoop,
               LoopDone, FailBoot, BootError, CrashInBoot
  <1>2. CASE Stop \/ Crash \/ \E b \in Block : CrashInReorg(b) \/ CrashInInsert(b)
        BY <1>2, Zenon DEF Stop, Crash, CrashInReorg, CrashInInsert, Exit, chaindb, versiondb
  <1> QED BY <1>1, <1>2, Zenon DEF Next, CrashNext

\* The height of the last block given to AcceptTrie moves with AcceptTrie only.
LEMMA SameProcessed ==
    ASSUME Inv, status = "up", ~ProcessTrie,
           EngineNext \/ AcceptNext \/ AcceptorNext \/ UNCHANGED vars
    PROVE  ProcessedHeight' = ProcessedHeight
  <1>1. CASE EngineNext \/ AcceptNext \/ UNCHANGED vars
    <2>1. UNCHANGED <<acceptorTip, acceptor>>
          BY <1>1, Zenon DEF EngineNext, AcceptNext, Verify, SetPreference, Accept, Reject,
                             Enqueue, CommitAccepted, memory, vars
    <2> QED BY <2>1, Zenon DEF ProcessedHeight
  <1>2. CASE Dequeue \/ WriteIndices
    <2>1. acceptor.step # "tip" /\ acceptor'.step # "tip" /\ acceptorTip' = acceptorTip
          BY <1>2 DEF Dequeue, WriteIndices, Idle, Inv, TypeOK, AcceptorStates
    <2> QED BY <2>1 DEF ProcessedHeight
  <1>3. CASE PublishTip
    <2>1. acceptor.step = "tip" /\ acceptor' = Idle /\ acceptorTip' = acceptor.block
          BY <1>3 DEF PublishTip
    <2>2. /\ acceptor.block = Path[lastAccepted][Height[acceptorTip] + 1]
          /\ Height[acceptorTip] + 1 \in 0..Height[lastAccepted]
          /\ lastAccepted \in Block /\ Height[acceptorTip] \in Nat
          BY <2>1, AcceptorBlock, ProcessedRange
    <2>3. Height[acceptor.block] = Height[acceptorTip] + 1
          BY <2>2, PathPrefix
    <2> QED BY <2>1, <2>2, <2>3 DEF ProcessedHeight, Idle
  <1> QED BY <1>1, <1>2, <1>3 DEF AcceptorNext

\* The accepted chain only grows while the process is up.
LEMMA AcceptedGrows ==
    ASSUME Inv, status = "up", EngineNext \/ AcceptNext \/ AcceptorNext \/ UNCHANGED vars
    PROVE  /\ status' = "up"
           /\ \A h \in 0..Height[lastAccepted] : Path[lastAccepted'][h] = Path[lastAccepted][h]
  <1>1. status' = "up"
        BY Zenon DEF EngineNext, AcceptNext, AcceptorNext, Verify, SetPreference, Accept, Reject,
               Enqueue, CommitAccepted, Dequeue, WriteIndices, ProcessTrie, PublishTip, memory, vars
  <1>2. ASSUME NEW b \in Block, Accept(b)
        PROVE  \A h \in 0..Height[lastAccepted] : Path[lastAccepted'][h] = Path[lastAccepted][h]
    <2>1. lastAccepted' = b /\ Parent(b) = lastAccepted /\ lastAccepted \in Block
          BY <1>2, Zenon DEF Accept, Acceptable, Inv, MemoryInv, Running
    <2> QED BY <2>1, ChildPath
  <1>3. CASE \/ \E b \in Block : Verify(b) \/ SetPreference(b) \/ Reject(b)
             \/ AcceptNext \/ AcceptorNext \/ UNCHANGED vars
    <2>1. lastAccepted' = lastAccepted
          BY <1>3, Zenon DEF AcceptNext, AcceptorNext, Verify, SetPreference, Reject,
             Enqueue, CommitAccepted, Dequeue, WriteIndices, ProcessTrie, PublishTip, memory, vars
    <2> QED BY <2>1, <1>1
  <1> QED BY <1>1, <1>2, <1>3 DEF EngineNext

\* The durable block is at most a full queue and the block in work ahead of the
\* acceptor tip.
LEMMA BacklogBound ==
    ASSUME Inv, status = "up"
    PROVE  Height[BootBlock] <= Height[acceptorTip] + 1 + AcceptorQueueLimit
  <1> DEFINE w == IF acceptor.step = "idle" THEN <<>> ELSE <<acceptor.block>>
             e == IF accepting.step = "enqueue" THEN <<accepting.block>> ELSE <<>>
  <1>1. acceptorQueue \in Seq(Block) /\ w \in Seq(Block) /\ e \in Seq(Block)
        BY BacklogSeq
  <1>2. /\ Len(w) \in Nat /\ Len(w) <= 1 /\ Len(e) \in {0, 1}
        /\ Len(e) = 1 => accepting.step = "enqueue"
        OBVIOUS
  <1>3. Backlog = w \o acceptorQueue \o e
        BY DEF Backlog
  <1> HIDE DEF w, e
  <1>4. Len(Backlog) = Len(w) + Len(acceptorQueue) + Len(e) /\ Len(acceptorQueue) \in Nat
        BY <1>1, <1>3
  <1>5. /\ Len(acceptorQueue) <= AcceptorQueueLimit /\ AcceptorQueueLimit \in Nat
        /\ Height[acceptorTip] + Len(Backlog) = Height[lastAccepted]
        BY ChainAssumption DEF Inv, BacklogIsPath
  <1>6. /\ Height[acceptorTip] \in Nat /\ Height[lastAccepted] \in Nat /\ Running
        BY ProcessedRange DEF Running
  <1>7. /\ Height[BootBlock] \in Nat /\ lastAccepted \in Block /\ BootBlock \in Block
        /\ accepting = Idle => lastAccepted = BootBlock
        /\ accepting # Idle => Parent(lastAccepted) = BootBlock
        BY <1>6, BootOnAccepted
  <1>8. CASE Len(e) = 1
    <2>1. accepting # Idle
          BY <1>2, <1>8, IdleTypes
    <2>2. Height[lastAccepted] = Height[BootBlock] + 1
          BY <2>1, <1>7, ChildPath
    <2> QED BY <2>2, <1>2, <1>4, <1>5, <1>6, <1>7, <1>8
  <1>9. CASE Len(e) # 1
    <2>1. Height[BootBlock] <= Height[lastAccepted]
          BY <1>6, BootOnAccepted DEF OnPath
    <2>2. Len(e) = 0
          BY <1>2, <1>9
    <2> QED BY <2>1, <2>2, <1>2, <1>4, <1>5, <1>6, <1>7
  <1> QED BY <1>8, <1>9

\* A process that ends leaves a state within reach of the search, unless the
\* acceptor is ahead of the durable block.
LEMMA ExitReached ==
    ASSUME AcceptorQueueLimit <= CommitInterval, Inv, TipInv, status = "up", StateBehind,
           NotAhead, trie.disk \subseteq trie'.disk, UNCHANGED <<tipKey, lastAcceptedKey>>
    PROVE  StateReached'
  <1> DEFINE P == ProcessedHeight
             B == BootBlock
             a == Height[acceptorTip]
  <1>1. /\ P \in Nat /\ P <= Height[lastAccepted] /\ Height[lastAccepted] \in Nat
        /\ lastAccepted \in Block /\ acceptorTip \in Block /\ a \in Nat
        BY ProcessedRange
  <1>2. Running /\ TipOfAcceptor /\ acceptor \in AcceptorStates
        BY DEF Running, TipInv, Inv, TypeOK
  <1>3. B \in Block /\ Height[B] \in Nat /\ OnPath(B, lastAccepted)
        BY <1>2, BootOnAccepted
  <1>4. CommitInterval \in Nat \ {0} /\ AcceptorQueueLimit \in Nat
        BY TrieWriterAssumption, ChainAssumption
  <1>5. PICK h \in 0..P : P - h <= P % CommitInterval /\ Root[Path[lastAccepted][h]] \in trie.disk
        BY DEF StateBehind
  <1>6. P % CommitInterval \in 0..(CommitInterval - 1)
        BY <1>1, <1>4, QuotientRemainder
  <1>7. P = (IF acceptor.step = "tip" THEN a + 1 ELSE a)
        BY <1>1 DEF ProcessedHeight
  <1>8. Height[B] <= a + 1 + AcceptorQueueLimit
        BY BacklogBound
  <1>9. BootBlock' = BootBlock /\ SearchFrom' = SearchFrom
        BY DEF BootBlock, SearchFrom
  <1>10. P <= Height[SearchFrom] /\ Height[SearchFrom] <= Height[B] /\ Height[SearchFrom] \in Nat
    <2>1. acceptor.step \in {"trie", "tip"} =>
             /\ acceptor.block \in Block /\ acceptor.block # NoBlock /\ tipKey = acceptor.block
             /\ Height[acceptor.block] = a + 1
      <3>1. SUFFICES ASSUME acceptor.step \in {"trie", "tip"}
                     PROVE  /\ acceptor.block \in Block /\ acceptor.block # NoBlock
                            /\ tipKey = acceptor.block /\ Height[acceptor.block] = a + 1
            OBVIOUS
      <3>2. a < Height[lastAccepted] /\ acceptor.block = Path[lastAccepted][a + 1]
            BY <3>1, AcceptorBlock
      <3>3. a + 1 \in 0..Height[lastAccepted]
            BY <3>2, <1>1
      <3>4. acceptor.block \in Block /\ Height[acceptor.block] = a + 1
            BY <3>2, <3>3, <1>1, PathPrefix
      <3> QED BY <3>1, <3>4, <1>2, NoBlockAssumption DEF TipOfAcceptor
    <2>2. CASE tipKey = NoBlock
      <3>1. acceptor.step \notin {"trie", "tip"} /\ SearchFrom = B
            BY <2>1, <2>2 DEF SearchFrom
      <3>2. a <= Height[B]
            BY <2>2, <3>1, <1>2 DEF TipOfAcceptor
      <3> QED BY <3>1, <3>2, <1>1, <1>3, <1>7
    <2>3. CASE tipKey # NoBlock
      <3>1. SearchFrom = tipKey /\ OnPath(tipKey, B) /\ tipKey \in Block /\ Height[tipKey] \in Nat
            BY <2>3, HeightNat DEF SearchFrom, NotAhead, Inv, TypeOK, BlockOrNone
      <3>2. Height[tipKey] <= Height[B]
            BY <3>1 DEF OnPath
      <3>3. P <= Height[tipKey]
        <4>1. CASE acceptor.step \in {"trie", "tip"}
              BY <4>1, <2>1, <1>1, <1>7
        <4>2. CASE acceptor.step \notin {"trie", "tip"}
          <5>1. Height[tipKey] \in {a, a + 1}
                BY <4>2, <2>3, <1>2 DEF TipOfAcceptor
          <5> QED BY <5>1, <4>2, <1>1, <1>7
        <4> QED BY <4>1, <4>2
      <3> QED BY <3>1, <3>2, <3>3
    <2> QED BY <2>2, <2>3
  <1> HIDE DEF P, B, a
  <1>11. h \in 0..Height[B] /\ h \in 0..Height[SearchFrom]
        BY <1>1, <1>3, <1>5, <1>10
  <1>12. Path[lastAccepted][h] = Path[B][h]
        BY <1>1, <1>3, <1>11, OnPathFacts
  <1>13. Height[B] - h <= 2 * CommitInterval
    <2>1. P >= a
          BY <1>1, <1>7
    <2>2. Height[B] <= P + 1 + AcceptorQueueLimit
          BY <2>1, <1>1, <1>3, <1>4, <1>8
    <2>3. P - h <= CommitInterval - 1
          BY <1>1, <1>4, <1>5, <1>6
    <2> QED BY <2>2, <2>3, <1>1, <1>3, <1>4, <1>5
  <1>14. Root[Path[B][h]] \in trie'.disk
        BY <1>5, <1>12
  <1> QED BY <1>9, <1>11, <1>13, <1>14 DEF StateReached, B

\* A state within reach stays there while the tip does.
LEMMA SameReached ==
    ASSUME StateReached, trie.disk \subseteq trie'.disk, UNCHANGED <<tipKey, lastAcceptedKey>>
    PROVE  StateReached'
  <1>1. BootBlock' = BootBlock /\ SearchFrom' = SearchFrom
        BY DEF BootBlock, SearchFrom
  <1>2. PICK h \in 0..Height[SearchFrom] :
            Height[BootBlock] - h <= 2 * CommitInterval /\ Root[Path[BootBlock][h]] \in trie.disk
        BY DEF StateReached
  <1> QED BY <1>1, <1>2 DEF StateReached

\* A chain that comes up has the state of the last accepted block on disk.
LEMMA StartBehind ==
    ASSUME Inv, ProcessingInv, StateInv, status # "up", status' = "up",
           BeginRecovery \/ FinishRecovery
    PROVE  StateBehind'
  <1>1. /\ status \in {"loading", "recovering"} /\ Start
        /\ UNCHANGED <<lastAccepted, acceptor>>
        BY DEF BeginRecovery, FinishRecovery, LoopDone
  <1>2. /\ lastAccepted \in Block /\ Height[lastAccepted] \in Nat
        /\ acceptor = Idle /\ currentBlock = lastAccepted
        BY <1>1, HeightNat, Zenon DEF Inv, MemoryInv, Running, ProcessingInv
  <1>3. Root[lastAccepted] \in trie'.disk
    <2>1. CASE BeginRecovery
          BY <2>1, Zenon DEF BeginRecovery, UpToDate
    <2>2. CASE FinishRecovery
      <3>1. /\ status = "recovering" /\ HasState(Recovered, Root[currentBlock])
            /\ trie' = Recovered
            BY <2>2 DEF FinishRecovery, LoopDone
      <3>2. trie'.dirty = {}
            BY <3>1 DEF StateInv, StartInv, Recovered, Commit, Flush
      <3> QED BY <3>1, <3>2, <1>2 DEF HasState
    <2> QED BY <2>1, <2>2
  <1>4. ProcessedHeight' = Height[lastAccepted]
        BY <1>1, <1>2, IdleTypes DEF ProcessedHeight, Start
  <1>5. Height[lastAccepted] - Height[lastAccepted] <= Height[lastAccepted] % CommitInterval
        BY <1>2, TrieWriterAssumption, QuotientRemainder
  <1>6. /\ Height[lastAccepted] \in 0..Height[lastAccepted]
        /\ Path[lastAccepted][Height[lastAccepted]] = lastAccepted
        BY <1>2, PathAssumption
  <1> QED BY <1>1, <1>3, <1>4, <1>5, <1>6 DEF StateBehind

\* reprocessState starts from a state that is on disk.
LEMMA BeginCursor ==
    ASSUME Inv, BeginRecovery, status' = "recovering"
    PROVE  CursorInv'
  <1>1. PICK h \in StateHeights :
            recovery' = [cursor |-> Path[SearchFrom][h], tip |-> tipKey,
                         writeIndices |-> FALSE, reexecuted |-> FALSE]
        BY DEF BeginRecovery, Start
  <1>2. h \in 0..Height[SearchFrom] /\ Root[Path[SearchFrom][h]] \in trie.disk
        BY DEF StateHeights
  <1>3. UNCHANGED <<trie, tipKey, lastAcceptedKey, lastAccepted>> /\ status = "loading"
        BY DEF BeginRecovery, chaindb, versiondb
  <1>4. BootBlock \in Block /\ lastAccepted = BootBlock /\ BootBlock' = BootBlock
        BY <1>3, DiskInvRows DEF Inv, MemoryInv, Running, BootBlock
  <1>5. ASSUME NotAhead' PROVE OnPath(Path[SearchFrom][h], lastAccepted)
    <2>1. SearchFrom \in Block /\ OnPath(SearchFrom, BootBlock)
          BY <1>3, <1>4, <1>5, OnPathFacts, Zenon DEF NotAhead, SearchFrom, Inv, TypeOK, BlockOrNone
    <2>2. Path[SearchFrom][h] \in Block /\ OnPath(Path[SearchFrom][h], SearchFrom)
          BY <2>1, <1>2, PathPrefix, Zenon
    <2> QED BY <2>1, <2>2, <1>4, OnPathFacts
  <1> QED BY <1>1, <1>2, <1>3, <1>5 DEF CursorInv

\* reprocessState stays on the accepted chain and behind the tip it writes.
LEMMA ReexecuteSearch ==
    ASSUME Inv, TipInv, SearchInv, Reexecute, trie.disk \subseteq trie'.disk
    PROVE  CursorInv' /\ (NotAhead' => StateReached')
  <1> DEFINE b == NextCanonical
             c == recovery.cursor
  <1>1. /\ InLoop /\ ReexecutePossible /\ status = "recovering"
        /\ tipKey' = IF WritesIndices THEN b ELSE tipKey
        /\ recovery' = [recovery EXCEPT !.cursor = b, !.writeIndices = WritesIndices,
                                        !.reexecuted = TRUE]
        /\ UNCHANGED <<lastAccepted, lastAcceptedKey>>
        BY DEF Reexecute, InLoop, versiondb
  <1>2. /\ c \in Block /\ Height[c] \in Nat /\ b \in Block /\ Height[b] = Height[c] + 1
        /\ lastAccepted = BootBlock /\ OnPath(b, lastAccepted) /\ OnPath(c, lastAccepted)
        BY <1>1, NextRow, NextOnPath
  <1>3. recovery'.cursor = b /\ recovery'.reexecuted
        BY <1>1 DEF Inv, TypeOK, RecoveryStates
  <1>4. CursorInv'
        BY <1>1, <1>2, <1>3 DEF CursorInv
  <1>5. BootBlock' = BootBlock /\ b # NoBlock /\ c # NoBlock
        BY <1>1, <1>2, NoBlockAssumption DEF BootBlock
  <1> HIDE DEF b, c
  <1>6. ASSUME NotAhead' PROVE StateReached'
    <2>1. CASE ~WritesIndices
      <3>1. tipKey' = tipKey
            BY <2>1, <1>1
      <3>2. NotAhead
            BY <3>1, <1>5, <1>6 DEF NotAhead
      <3> QED BY <3>1, <3>2, <1>1, SameReached DEF SearchInv
    <2>2. CASE WritesIndices
      <3>1. tipKey = c /\ tipKey' = b
            BY <2>2, <1>1, <1>5 DEF TipInv, TipOfRecovery, WritesIndices, c
      <3>2. NotAhead /\ SearchFrom = c /\ SearchFrom' = b
            BY <3>1, <1>2, <1>5 DEF NotAhead, SearchFrom
      <3>3. PICK h \in 0..Height[c] :
                /\ Height[BootBlock] - h <= 2 * CommitInterval
                /\ Root[Path[BootBlock][h]] \in trie.disk
            BY <3>2, <1>1 DEF SearchInv, StateReached
      <3>4. h \in 0..Height[b]
            BY <3>3, <1>2
      <3> QED BY <3>2, <3>3, <3>4, <1>5 DEF StateReached
    <2> QED BY <2>1, <2>2
  <1> QED BY <1>4, <1>6

----------------------------------------------------------------------------
(* Why start-up succeeds *)

\* The stored head and the durable block are there, and so is every block between.
LEMMA BootLoads ==
    ASSUME Inv, StoredInv
    PROVE  BootPossible
  <1>1. /\ BootBlock \in Block /\ headKey \in Block /\ OnPath(BootBlock, headKey)
        BY DiskInvRows, Zenon DEF Inv, TypeOK, DiskInv
  <1>2. /\ Height[BootBlock] \in Nat /\ Height[headKey] \in Nat
        /\ Height[BootBlock] <= Height[headKey]
        /\ Path[headKey][Height[BootBlock]] = BootBlock
        /\ Path[BootBlock][Height[BootBlock]] = BootBlock
        /\ Path[headKey][Height[headKey]] = headKey
        BY <1>1, HeightNat, PathAssumption DEF OnPath
  <1>3. Height[BootBlock] \in 0..Height[headKey] /\ Height[headKey] \in 0..Height[headKey]
        BY <1>2
  <1>4. headKey \in blocks /\ BootBlock \in blocks
        BY <1>2, <1>3 DEF StoredInv
  <1>5. AddedRows(headKey, BootBlock) = {}
        BY <1>1, NothingAdded
  <1>6. \A h \in AddedRows(BootBlock, headKey) : Path[headKey][h - 1] \in blocks
    <2>1. TAKE h \in AddedRows(BootBlock, headKey)
    <2>2. h \in 0..Height[headKey] /\ h > Height[BootBlock]
          BY <1>1, OnPathFacts, AddedAbove
    <2>3. h - 1 \in 0..Height[headKey]
          BY <2>2, <1>2
    <2> QED BY <2>3 DEF StoredInv
  <1>7. ReorgLoads(headKey, BootBlock) \subseteq blocks
        BY <1>4, <1>5, <1>6 DEF ReorgLoads
  <1>8. ReorgAllowed(BootBlock, headKey, BootBlock)
    <2>1. Height[BootBlock] \in 0..Height[BootBlock] /\ Height[BootBlock] <= Height[BootBlock]
          BY <1>2
    <2> QED BY <2>1, <1>2, <1>7 DEF ReorgAllowed
  <1> QED BY <1>4, <1>8 DEF BootPossible, PreferenceAllowed

\* The search of reprocessState finds a state.
LEMMA SearchFinds ==
    ASSUME Inv, StoredInv, SearchInv, NotAhead, status = "loading"
    PROVE  StateHeights # {}
  <1>1. /\ BootBlock \in Block /\ headKey \in Block /\ OnPath(BootBlock, headKey)
        BY DiskInvRows, Zenon DEF Inv, TypeOK, DiskInv
  <1>2. SearchFrom \in Block /\ OnPath(SearchFrom, BootBlock)
        BY <1>1, OnPathFacts, Zenon DEF NotAhead, SearchFrom, Inv, TypeOK, BlockOrNone
  <1>3. /\ Height[SearchFrom] \in Nat /\ Height[BootBlock] \in Nat /\ Height[headKey] \in Nat
        /\ Height[SearchFrom] <= Height[BootBlock] /\ Height[BootBlock] <= Height[headKey]
        BY <1>1, <1>2, HeightNat, Zenon DEF OnPath
  <1>4. OnPath(SearchFrom, headKey)
        BY <1>1, <1>2, OnPathFacts
  <1>5. /\ \A k \in 0..Height[SearchFrom] : Path[headKey][k] = Path[SearchFrom][k]
        /\ \A k \in 0..Height[SearchFrom] : Path[BootBlock][k] = Path[SearchFrom][k]
        BY <1>1, <1>2, <1>4, OnPathFacts
  <1>6. PICK h \in 0..Height[SearchFrom] :
            Height[BootBlock] - h <= 2 * CommitInterval /\ Root[Path[BootBlock][h]] \in trie.disk
        BY DEF SearchInv, StateReached
  <1>7. \A k \in h..Height[SearchFrom] : Path[SearchFrom][k] \in blocks
    <2>1. TAKE k \in h..Height[SearchFrom]
    <2>2. k \in 0..Height[SearchFrom] /\ k \in 0..Height[headKey]
          BY <1>3
    <2> QED BY <2>2, <1>5 DEF StoredInv
  <1>8. Height[SearchFrom] - h <= 2 * CommitInterval
        BY <1>3, <1>6, TrieWriterAssumption
  <1>9. Root[Path[SearchFrom][h]] \in trie.disk
        BY <1>5, <1>6
  <1> QED BY <1>7, <1>8, <1>9 DEF StateHeights

\* The next block of the loop is stored and its parent's state is the current one.
LEMMA LoopGoesOn ==
    ASSUME Inv, StoredInv, SearchInv, NotAhead, InLoop
    PROVE  ReexecutePossible
  <1> DEFINE n == Height[recovery.cursor] + 1
  <1>1. /\ recovery.cursor \in Block /\ Height[recovery.cursor] \in Nat
        /\ lastAccepted \in Block /\ Height[lastAccepted] \in Nat
        /\ lastAccepted = BootBlock /\ OnPath(BootBlock, headKey)
        /\ n \in 0..Height[lastAccepted]
        /\ NextCanonical \in Block /\ NextCanonical = Path[lastAccepted][n]
        /\ Height[NextCanonical] = n
        BY NextRow
  <1>2. OnPath(recovery.cursor, lastAccepted) /\ headKey \in Block
        BY DEF InLoop, SearchInv, CursorInv, Inv, TypeOK
  <1>3. NextCanonical \in blocks
    <2>1. Height[headKey] \in Nat /\ Height[lastAccepted] <= Height[headKey]
          BY <1>1, <1>2, HeightNat DEF OnPath
    <2>2. n \in 0..Height[headKey]
          BY <2>1, <1>1
    <2>3. Path[headKey][n] = Path[lastAccepted][n]
          BY <1>1, <1>2, OnPathFacts, Zenon
    <2> QED BY <2>2, <2>3, <1>1 DEF StoredInv
  <1>4. Parent(NextCanonical) = recovery.cursor
    <2>1. NextCanonical # Genesis /\ Height[NextCanonical] - 1 = Height[recovery.cursor]
          BY <1>1, GenesisAssumption
    <2>2. Path[NextCanonical][Height[recovery.cursor]] = Path[lastAccepted][Height[recovery.cursor]]
      <3>1. Height[recovery.cursor] \in 0..n
            BY <1>1
      <3> QED BY <3>1, <1>1, PathPrefix, Zenon
    <2> QED BY <2>1, <2>2, <1>2, Zenon DEF Parent, OnPath
  <1> QED BY <1>3, <1>4 DEF ReexecutePossible

\* When the loop is done the state of the head is there.
LEMMA LoopEnds ==
    ASSUME Inv, EngineInv, SearchInv, NotAhead, LoopDone
    PROVE  HasState(Recovered, Root[currentBlock])
  <1>1. status = "recovering" /\ Height[recovery.cursor] >= Height[lastAccepted]
        BY DEF LoopDone
  <1>2. /\ recovery.cursor \in Block /\ lastAccepted \in Block /\ currentBlock = lastAccepted
        BY <1>1 DEF Inv, MemoryInv, Running, EngineInv, ProcessingInv
  <1>3. OnPath(recovery.cursor, lastAccepted)
        BY <1>1 DEF SearchInv, CursorInv
  <1>4. recovery.cursor = currentBlock
    <2>1. Height[recovery.cursor] = Height[lastAccepted]
          BY <1>1, <1>2, <1>3, HeightNat DEF OnPath
    <2> QED BY <2>1, <1>2, <1>3, OnPathFacts
  <1>5. CASE recovery.reexecuted
    <2>1. Root[recovery.cursor] \in trie.dirty
          BY <1>1, <1>5 DEF EngineInv, StateInv, StartInv
    <2> QED BY <2>1, <1>4, <1>5 DEF Recovered, Commit, Flush, HasState
  <1>6. CASE ~recovery.reexecuted
        BY <1>1, <1>4, <1>6 DEF SearchInv, CursorInv, Recovered, HasState
  <1> QED BY <1>5, <1>6

\* Start-up fails only when the tip on disk is ahead of the durable block.
LEMMA FailsAhead ==
    ASSUME Inv, EngineInv, RecoverInv, BootFailsOnlyAheadOfKey, [Next]_vars
    PROVE  BootFailsOnlyAheadOfKey'
  <1>1. StoredInv /\ SearchInv
        BY DEF RecoverInv
  <1>2. CASE FailBoot
    <2>1. ~NotAhead
      <3>1. SUFFICES ASSUME NotAhead PROVE FALSE
            OBVIOUS
      <3>2. BootError
            BY <1>2 DEF FailBoot
      <3> QED BY <3>1, <3>2, <1>1, BootLoads, SearchFinds, LoopGoesOn, LoopEnds DEF BootError
    <2>2. UNCHANGED <<tipKey, lastAcceptedKey>>
          BY <1>2 DEF FailBoot, chaindb, versiondb
    <2> QED BY <2>1, <2>2 DEF NotAhead, BootFailsOnlyAheadOfKey, BootBlock
  <1>3. CASE UNCHANGED vars
    <2>1. UNCHANGED <<status, tipKey, lastAcceptedKey>>
          BY <1>3 DEF vars, memory, chaindb, versiondb
    <2> QED BY <2>1 DEF BootFailsOnlyAheadOfKey, BootBlock
  <1>4. CASE ~FailBoot /\ Next
    <2>1. status' # "failed"
          BY <1>4, ZenonT(40) DEF Next, EngineNext, AcceptNext, AcceptorNext, BootNext,
             CrashNext, Stop, Verify, SetPreference, Accept, Reject, Enqueue, CommitAccepted, Dequeue,
             WriteIndices, ProcessTrie, PublishTip, Boot, BeginRecovery, Reexecute, FinishRecovery, InLoop,
             Start, Crash, CrashInBoot, CrashInReorg, CrashInInsert, Serving, Exit, memory
    <2> QED BY <2>1 DEF BootFailsOnlyAheadOfKey
  <1> QED BY <1>2, <1>3, <1>4

----------------------------------------------------------------------------
(* The theorems *)

\* Init is in the invariant.
LEMMA InitRecover == Init => RecoverInv /\ IndicesHaveNoGap /\ BootFailsOnlyAheadOfKey
  <1> SUFFICES ASSUME Init PROVE RecoverInv /\ IndicesHaveNoGap /\ BootFailsOnlyAheadOfKey
      OBVIOUS
  <1>1. /\ tipKey = NoBlock /\ indexed = {} /\ accepting = Idle /\ status = "down"
        /\ headKey = Genesis /\ blocks = {Genesis} /\ lastAcceptedKey = NoBlock
        /\ trie = EmptyTrieDB({Root[Genesis]})
        BY DEF Init
  <1>2. Genesis \in Block /\ Height[Genesis] = 0 /\ Path[Genesis][0] = Genesis
        BY GenesisAssumption, PathAssumption
  <1>3. TipInv
        BY <1>1 DEF TipInv, TipOnDisk
  <1>4. StoredInv
        BY <1>1, <1>2 DEF StoredInv
  <1>5. StateReached
    <2>1. BootBlock = Genesis /\ SearchFrom = Genesis /\ Root[Genesis] \in trie.disk
          BY <1>1 DEF BootBlock, SearchFrom, EmptyTrieDB
    <2>2. 0 \in 0..Height[SearchFrom] /\ Height[BootBlock] - 0 <= 2 * CommitInterval
          BY <2>1, <1>2, TrieWriterAssumption
    <2> QED BY <2>1, <2>2, <1>2 DEF StateReached
  <1>6. SearchInv
        BY <1>1, <1>5 DEF SearchInv
  <1> QED BY <1>1, <1>3, <1>4, <1>6 DEF RecoverInv, IndicesHaveNoGap, BootFailsOnlyAheadOfKey

\* Transaction lookup entries have no gap up to the acceptor tip on disk, across
\* any sequence of crashes and recoveries, and whether or not the engine
\* equivocates (writeBlockAcceptedIndices, reprocessState).
THEOREM IndicesComplete == Spec /\ []OneIndexBatch => []IndicesHaveNoGap
  <1>1. Init => TipInv /\ IndicesHaveNoGap
        BY InitRecover DEF RecoverInv
  <1>2. Inv /\ FinalChain /\ TipInv /\ IndicesHaveNoGap /\ [Next]_vars
           => TipInv' /\ IndicesHaveNoGap'
        BY NextTip
  <1> QED BY <1>1, <1>2, InvariantHolds, Finality, PTL DEF Spec

----------------------------------------------------------------------------
(* A state within reach, and start-up *)

\* AcceptTrie writes the state of a block whose height is a multiple of the
\* commit interval; without pruning, of every block.
LEMMA ProcessCommits ==
    ASSUME Inv, EngineInv, status = "up", ProcessTrie
    PROVE  \/ Root[Path[lastAccepted][ProcessedHeight + 1]] \in trie'.disk
           \/ (ProcessedHeight + 1) % CommitInterval # 0
  <1> DEFINE b == acceptor.block
             e == TipEvict(trie, tips)
  <1>1. /\ ProcessedHeight' = ProcessedHeight + 1 /\ ProcessedHeight \in Nat
        /\ ProcessedHeight + 1 <= Height[lastAccepted] /\ Height[lastAccepted] \in Nat
        /\ b = Path[lastAccepted][ProcessedHeight + 1]
        /\ b \in Block /\ Root[b] \in Roots /\ lastAccepted \in Block
        BY ProcessedMoves, ProcessedRange DEF Roots
  <1>2. /\ HeldInv /\ ProcessingInv /\ trie' \in AcceptTrie(trie, tips, b)
        /\ lastAccepted' = lastAccepted /\ tips' = AcceptTips(tips, b)
        BY DEF EngineInv, StateInv, ProcessTrie
  <1>3. Height[b] = ProcessedHeight + 1
    <2>1. ProcessedHeight + 1 \in 0..Height[lastAccepted]
          BY <1>1
    <2> QED BY <2>1, <1>1, PathPrefix
  <1>4. CASE ~Pruning
    <2>1. tips' = <<>>
          BY <1>2, <1>4 DEF AcceptTips, ProcessingInv
    <2>2. HeldInv'
          BY <1>2, ProcessState
    <2>3. Root[Path[lastAccepted'][ProcessedHeight']] \in trie'.disk
          BY <2>1, <2>2, Zenon DEF HeldInv
    <2> QED BY <2>3, <1>1, <1>2
  <1>5. CASE Pruning /\ Height[b] % CommitInterval = 0
    <2>1. trie' = Commit(e, Root[b])
          BY <1>2, <1>5 DEF AcceptTrie
    <2>2. /\ Covered(e, verified' \cup Held')
          /\ Len(tips') <= ProcessedHeight' /\ tips' # <<>>
          BY <1>2, <1>5, EvictTip
    <2>3. Len(tips') \in Nat /\ Len(tips') > 0
      <3>1. tips' \in Seq(Roots)
            BY <1>1, <1>2, AcceptTypes, ProcessedRange
      <3> QED BY <3>1, <2>2
    <2>4. ProcessedHeight' \in (HeldFrom' + 1)..Height[lastAccepted']
          BY <2>2, <2>3, <1>1, <1>2 DEF HeldFrom
    <2>5. b \in Held'
      <3>1. b = Path[lastAccepted'][ProcessedHeight']
            BY <1>1, <1>2, Zenon
      <3> QED BY <3>1, <2>4, Zenon DEF Held
    <2> HIDE DEF e, b
    <2>6. HasState(e, Root[b])
          BY <2>2, <2>5, <1>1, CoveredState
    <2>7. Root[b] \in trie'.disk
          BY <2>1, <2>6 DEF Commit, Flush, HasState
    <2> QED BY <2>7, <1>1
  <1> QED BY <1>3, <1>4, <1>5

\* A committed state stays less than an interval behind the acceptor.
LEMMA BehindStep ==
    ASSUME Inv, EngineInv, status = "up", StateBehind,
           EngineNext \/ AcceptNext \/ AcceptorNext \/ UNCHANGED vars
    PROVE  StateBehind'
  <1> DEFINE P == ProcessedHeight
  <1>1. /\ P \in Nat /\ P <= Height[lastAccepted] /\ Height[lastAccepted] \in Nat
        /\ lastAccepted \in Block /\ CommitInterval \in Nat \ {0}
        BY ProcessedRange, TrieWriterAssumption
  <1>2. \A h \in 0..Height[lastAccepted] : Path[lastAccepted'][h] = Path[lastAccepted][h]
        BY AcceptedGrows
  <1>3. trie.disk \subseteq trie'.disk
        BY DiskGrows DEF Next
  <1>4. PICK h \in 0..P : P - h <= P % CommitInterval /\ Root[Path[lastAccepted][h]] \in trie.disk
        BY DEF StateBehind
  <1>5. h \in 0..Height[lastAccepted]
        BY <1>1, <1>4
  <1>6. Root[Path[lastAccepted'][h]] \in trie'.disk
        BY <1>2, <1>3, <1>4, <1>5
  <1>7. CASE ~ProcessTrie
    <2>1. ProcessedHeight' = P
          BY <1>7, SameProcessed
    <2> HIDE DEF P
    <2> QED BY <2>1, <1>4, <1>6 DEF StateBehind
  <1>8. CASE ProcessTrie
    <2>1. /\ ProcessedHeight' = P + 1 /\ P + 1 <= Height[lastAccepted]
          /\ \/ Root[Path[lastAccepted][P + 1]] \in trie'.disk
             \/ (P + 1) % CommitInterval # 0
          BY <1>8, ProcessedMoves, ProcessCommits
    <2> HIDE DEF P
    <2>2. CASE Root[Path[lastAccepted][P + 1]] \in trie'.disk
      <3>1. P + 1 \in 0..Height[lastAccepted] /\ P + 1 \in 0..(P + 1) /\ (P + 1) - (P + 1) = 0
            BY <2>1, <1>1
      <3>2. Root[Path[lastAccepted'][P + 1]] \in trie'.disk
            BY <2>2, <3>1, <1>2
      <3>3. (P + 1) - (P + 1) <= (P + 1) % CommitInterval
        <4>1. P + 1 \in Nat
              BY <1>1
        <4>2. (P + 1) % CommitInterval \in 0..(CommitInterval - 1)
              BY <4>1, <1>1, QuotientRemainder
        <4> QED BY <4>2, <3>1, <1>1
      <3> QED BY <3>1, <3>2, <3>3, <2>1 DEF StateBehind
    <2>3. CASE (P + 1) % CommitInterval # 0
      <3>1. (P + 1) % CommitInterval = (P % CommitInterval) + 1
            BY <2>3, <1>1, NextRemainder, Zenon
      <3>2. P % CommitInterval \in 0..(CommitInterval - 1)
            BY <1>1, QuotientRemainder
      <3>3. h \in 0..(P + 1) /\ (P + 1) - h <= (P + 1) % CommitInterval
            BY <3>1, <3>2, <1>1, <1>4
      <3> QED BY <3>3, <2>1, <1>6 DEF StateBehind
    <2> QED BY <2>1, <2>2, <2>3
  <1> QED BY <1>7, <1>8

\* Every step keeps a state within reach.
LEMMA NextSearch ==
    ASSUME AcceptorQueueLimit <= CommitInterval, Inv, EngineInv, TipInv, SearchInv, [Next]_vars
    PROVE  SearchInv'
  <1>1. trie.disk \subseteq trie'.disk
        BY DiskGrows, Zenon
  <1>2. CASE status = "up"
    <2>1. CASE status' = "down" /\ UNCHANGED <<tipKey, lastAcceptedKey>>
      <3>1. NotAhead' => NotAhead
            BY <2>1 DEF NotAhead, BootBlock
      <3>2. NotAhead' => StateReached'
            BY <3>1, <2>1, <1>1, <1>2, ExitReached DEF SearchInv
      <3> QED BY <3>2, <2>1 DEF SearchInv
    <2>2. CASE EngineNext \/ AcceptNext \/ AcceptorNext \/ UNCHANGED vars
      <3>1. StateBehind' /\ status' = "up"
            BY <2>2, <1>2, BehindStep, AcceptedGrows DEF SearchInv
      <3> QED BY <3>1 DEF SearchInv
    <2> QED BY <2>1, <2>2, <1>2, UpSteps
  <1>3. CASE status # "up"
    <2>1. BootNext \/ Crash \/ CrashInBoot \/ UNCHANGED vars
          BY <1>3, Zenon DEF Next, EngineNext, AcceptNext, AcceptorNext, CrashNext, Stop, Verify,
             SetPreference, Accept, Reject, Enqueue, CommitAccepted, Dequeue, WriteIndices,
             ProcessTrie, PublishTip, CrashInReorg, CrashInInsert, Serving
    <2>2. CASE Reexecute
      <3>1. status' = "recovering"
            BY <2>2 DEF Reexecute, InLoop
      <3> QED BY <3>1, <2>2, <1>1, ReexecuteSearch DEF SearchInv
    <2>3. CASE ~Reexecute
      <3>1. UNCHANGED <<tipKey, lastAcceptedKey>>
            BY <2>1, <2>3, Zenon DEF BootNext, Boot, BeginRecovery, FinishRecovery, FailBoot, Crash,
               CrashInBoot, chaindb, versiondb, vars
      <3>2. NotAhead' => StateReached'
        <4>1. NotAhead' => NotAhead
              BY <3>1 DEF NotAhead, BootBlock
        <4> QED BY <4>1, <3>1, <1>1, <1>3, SameReached DEF SearchInv
      <3>3. status' = "up" => StateBehind'
        <4>1. SUFFICES ASSUME status' = "up" PROVE StateBehind'
              OBVIOUS
        <4>2. BeginRecovery \/ FinishRecovery
              BY <4>1, <2>1, <2>3, <1>3, Zenon DEF BootNext, Boot, FailBoot, Exit, Crash, CrashInBoot,
                 vars, memory
        <4> QED BY <4>1, <4>2, <1>3, StartBehind DEF EngineInv
      <3>4. status' = "recovering" => CursorInv'
        <4>1. SUFFICES ASSUME status' = "recovering" PROVE CursorInv'
              OBVIOUS
        <4>2. BeginRecovery \/ UNCHANGED vars
              BY <4>1, <2>1, <2>3, <1>3 DEF BootNext, Boot, FinishRecovery, Start, FailBoot, Exit,
                 Crash, CrashInBoot
        <4>3. CASE UNCHANGED vars
          <5>1. UNCHANGED <<recovery, lastAccepted, trie, status, tipKey, lastAcceptedKey>>
                BY <4>3 DEF vars, memory, chaindb, versiondb
          <5>2. NotAhead' = NotAhead
                BY <5>1 DEF NotAhead, BootBlock
          <5>3. CursorInv
                BY <4>1, <5>1 DEF SearchInv
          <5> QED BY <5>1, <5>2, <5>3, Zenon DEF CursorInv
        <4> QED BY <4>1, <4>2, <4>3, BeginCursor
      <3> QED BY <3>2, <3>3, <3>4 DEF SearchInv
    <2> QED BY <2>2, <2>3
  <1> QED BY <1>2, <1>3

\* Whatever a crash leaves, the next start brings the node up unless the acceptor
\* had recorded a block that Block.Accept had not committed; and its lookup
\* entries have no gap.  The queue must not be longer than the commit interval,
\* or the durable block may be out of reach of the search (reprocessState looks
\* 2*CommitInterval blocks back).
THEOREM RecoverySound ==
    ASSUME ~Equivocation, RootReferencedOnUpdate, AcceptorQueueLimit <= CommitInterval
    PROVE  Spec /\ []OneIndexBatch => []RecoveryIsSound
  <1> DEFINE Good == RecoverInv /\ IndicesHaveNoGap /\ BootFailsOnlyAheadOfKey
  <1>1. Init => Good
        BY InitRecover
  <1>2. Inv /\ EngineInv /\ FinalChain /\ Good /\ [Next]_vars => Good'
    <2> SUFFICES ASSUME Inv, EngineInv, FinalChain, Good, [Next]_vars PROVE Good'
        OBVIOUS
    <2>1. TipInv' /\ IndicesHaveNoGap'
          BY NextTip DEF RecoverInv
    <2>2. StoredInv' /\ SearchInv'
          BY NextStored, NextSearch DEF RecoverInv, EngineInv
    <2>3. BootFailsOnlyAheadOfKey'
          BY FailsAhead
    <2> QED BY <2>1, <2>2, <2>3 DEF RecoverInv
  <1>3. Good => RecoveryIsSound
        BY DEF RecoveryIsSound
  <1> HIDE DEF Good
  <1> QED BY <1>1, <1>2, <1>3, InvariantHolds, Finality, EngineInvariant, PTL DEF Spec
=============================================================================
