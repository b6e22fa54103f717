--------------------------- MODULE MCBlockChain ---------------------------
(* Small block trees for BlockChain.  Blocks are strings; g is genesis. *)
EXTENDS BlockChainProps

\* The path through the blocks of seq, which starts at genesis.
To(seq) == [k \in 0..(Len(seq) - 1) |-> seq[k + 1]]

\* Two branches of two blocks; the siblings a1 and b1 share their state root.
ForkBlock == {"g", "a1", "a2", "b1", "b2"}
ForkHeight == [g |-> 0, a1 |-> 1, a2 |-> 2, b1 |-> 1, b2 |-> 2]
ForkPath == [g |-> To(<<"g">>),
             a1 |-> To(<<"g", "a1">>), a2 |-> To(<<"g", "a1", "a2">>),
             b1 |-> To(<<"g", "b1">>), b2 |-> To(<<"g", "b1", "b2">>)]
ForkRoot == [g |-> "r0", a1 |-> "r1", b1 |-> "r1", a2 |-> "ra2", b2 |-> "rb2"]
ForkSeq == [g |-> 0, a1 |-> 1, a2 |-> 2, b1 |-> 0, b2 |-> 1]

\* A chain of three blocks with a fork at height two whose sides share a root.
DeepBlock == {"g", "a1", "a2", "a3", "b2"}
DeepHeight == [g |-> 0, a1 |-> 1, a2 |-> 2, a3 |-> 3, b2 |-> 2]
DeepPath == [g |-> To(<<"g">>), a1 |-> To(<<"g", "a1">>),
             a2 |-> To(<<"g", "a1", "a2">>), a3 |-> To(<<"g", "a1", "a2", "a3">>),
             b2 |-> To(<<"g", "a1", "b2">>)]
DeepRoot == [g |-> "r0", a1 |-> "r1", a2 |-> "r2", b2 |-> "r2", a3 |-> "r3"]
DeepSeq == [g |-> 0, a1 |-> 1, a2 |-> 1, b2 |-> 2, a3 |-> 2]

\* The same tree as Fork, with a root for each block.
ForkRoots == [g |-> "r0", a1 |-> "ra1", b1 |-> "rb1", a2 |-> "ra2", b2 |-> "rb2"]

\* A single chain of three blocks.
LineBlock == {"g", "a1", "a2", "a3"}
LineHeight == [g |-> 0, a1 |-> 1, a2 |-> 2, a3 |-> 3]
LinePath == [g |-> To(<<"g">>), a1 |-> To(<<"g", "a1">>),
             a2 |-> To(<<"g", "a1", "a2">>), a3 |-> To(<<"g", "a1", "a2", "a3">>)]
LineRoot == [g |-> "r0", a1 |-> "r1", a2 |-> "r2", a3 |-> "r3"]
LineSeq == [g |-> 0, a1 |-> 0, a2 |-> 1, a3 |-> 3]
=============================================================================
