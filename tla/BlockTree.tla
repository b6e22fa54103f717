----------------------------- MODULE BlockTree -----------------------------
(***************************************************************************)
(* The blocks the consensus engine may hand to the VM, as a tree.  A block *)
(* is an opaque value; what the chain code reads from it is its height     *)
(* (block.NumberU64), its parent (block.ParentHash) and its state root     *)
(* (block.Root).  The tree is given by Path: Path[b][h] is the ancestor of *)
(* b at height h, so that Path[b] is the header chain from genesis to b.   *)
(***************************************************************************)
EXTENDS Integers

CONSTANTS
    Block,      \* block hashes
    Genesis,    \* the hash of bc.genesisBlock
    NoBlock,    \* common.Hash{}: the value of a key that is not in the database
    Height,     \* [Block -> Nat]
    Path,       \* Path[b] \in [0..Height[b] -> Block]
    Root        \* Root[b]: the state root in b's header

ASSUME GenesisAssumption ==
    /\ Genesis \in Block
    /\ Height \in [Block -> Nat]
    /\ \A b \in Block : Height[b] = 0 <=> b = Genesis

ASSUME NoBlockAssumption == NoBlock \notin Block

(***************************************************************************)
(* Path[b] ends in b, has one block per height, and the path of a block on *)
(* the path of b is a prefix of it: what "parent" means in a hash chain.   *)
(***************************************************************************)
ASSUME PathAssumption ==
    \A b \in Block :
        /\ Path[b] \in [0..Height[b] -> Block]
        /\ Path[b][Height[b]] = b
        /\ \A h \in 0..Height[b] :
              /\ Height[Path[b][h]] = h
              /\ \A k \in 0..h : Path[Path[b][h]][k] = Path[b][k]

\* Genesis has the zero parent hash.
Parent(b) == IF b = Genesis THEN NoBlock ELSE Path[b][Height[b] - 1]

\* c is b or an ancestor of b.
OnPath(c, b) == Height[c] <= Height[b] /\ Path[b][Height[c]] = c

(***************************************************************************)
(* A block is never empty (errEmptyBlock in block_verification.go), and a  *)
(* transaction raises its sender's nonce, so no state root occurs twice on *)
(* one chain.  Blocks on different branches may share a root: two siblings *)
(* with the same transactions do.                                          *)
(***************************************************************************)
ASSUME RootAssumption ==
    \A b \in Block : \A h \in 0..Height[b] :
        Root[Path[b][h]] = Root[b] => h = Height[b]

Roots == {Root[b] : b \in Block}

\* The heights a canonical-hash row can be written for.
Heights == {Height[b] : b \in Block}
=============================================================================
