---------------------------- MODULE RulesProofs ----------------------------
(***************************************************************************)
(* What the nodes know of the block gas cost, for every number of nodes,   *)
(* every schedule of upgrades and every fee configuration, and who may     *)
(* become admin or manager of a precompile.                                *)
(***************************************************************************)
EXTENDS RulesProps, TLAPS

\* A leaf that names no prover is tried with each of these.
USE ZenonT(3), SMTT(20), ZenonT(20), Z3T(20)

----------------------------------------------------------------------------
(* The block gas cost *)

\* A change of the cost is a uint64.
LEMMA ChangeInRange ==
    ASSUME NEW fc, Verify(fc), NEW e \in Nat
    PROVE  Smaller(Uint64(fc.blockGasCostStep) *
                   Larger(fc.targetBlockRate - e, e - fc.targetBlockRate), MaxUint64)
               \in 0..MaxUint64
  <1>1. fc.blockGasCostStep \in Int /\ fc.targetBlockRate \in Nat
        BY DEF Verify, FeeConfigs
  <1>2. Larger(fc.targetBlockRate - e, e - fc.targetBlockRate) \in Nat
        BY <1>1 DEF Larger
  <1>3. Uint64(fc.blockGasCostStep) \in Nat
        BY <1>1, FeeRulesAssumption DEF Uint64
  <1>4. ASSUME NEW a \in Nat, NEW b \in Nat PROVE Smaller(a * b, MaxUint64) \in 0..MaxUint64
        <2>1. a * b \in Nat
              BY <1>4
        <2> QED BY <2>1, FeeRulesAssumption DEF Smaller
  <1> QED BY <1>2, <1>3, <1>4

\* The cost of a child is a uint64, at least the minimum, and no smaller for a
\* larger cost of the parent: overflow goes to the maximum, underflow to the
\* minimum (blockgascost.BlockGasCost).
LEMMA StepMonotone ==
    ASSUME NEW fc, Verify(fc), NEW p \in 0..MaxUint64, NEW q \in 0..MaxUint64, p <= q, NEW e \in Nat
    PROVE  /\ StepBlockGasCost(fc, p, e) \in 0..MaxUint64
           /\ fc.minBlockGasCost <= StepBlockGasCost(fc, p, e)
           /\ StepBlockGasCost(fc, p, e) <= StepBlockGasCost(fc, q, e)
  <1> DEFINE change == Smaller(Uint64(fc.blockGasCostStep) *
                               Larger(fc.targetBlockRate - e, e - fc.targetBlockRate), MaxUint64)
             low == fc.minBlockGasCost
             high == fc.maxBlockGasCost
             Cost(x) == IF e > fc.targetBlockRate
                        THEN IF change > x THEN low ELSE x - change
                        ELSE IF x + change > MaxUint64 THEN high ELSE x + change
  <1>1. change \in 0..MaxUint64
        BY ChangeInRange
  <1>2. low \in Int /\ high \in Int /\ 0 <= low /\ low <= high /\ high <= MaxUint64
        BY DEF Verify, FeeConfigs
  <1>3. fc.targetBlockRate \in Nat
        BY DEF Verify, FeeConfigs
  <1>4. \A x : StepBlockGasCost(fc, x, e) = Smaller(high, Larger(low, Cost(x)))
        BY Zenon DEF StepBlockGasCost
  <1> HIDE DEF change, low, high
  <1>5. Cost(p) \in Int /\ Cost(q) \in Int
        BY <1>1, <1>2, <1>3, FeeRulesAssumption
  <1>6. Cost(p) <= Cost(q) \/ Cost(p) <= low \/ Cost(q) >= high
        BY <1>1, <1>2, <1>3, FeeRulesAssumption
  <1> HIDE DEF Cost
  <1>7. /\ Smaller(high, Larger(low, Cost(p))) \in 0..MaxUint64
        /\ low <= Smaller(high, Larger(low, Cost(p)))
        /\ Smaller(high, Larger(low, Cost(p))) <= Smaller(high, Larger(low, Cost(q)))
        BY <1>2, <1>5, <1>6, FeeRulesAssumption DEF Smaller, Larger
  <1> QED BY <1>4, <1>7 DEF low

\* So is the cost a node works out, who knows nothing of the parent's being one
\* who asks for the minimum.
LEMMA NextCostMonotone ==
    ASSUME Verify(GetFeeConfigAt(head)), head.time \in Nat,
           NEW p \in Costs, NEW q \in Costs, p <= q, NEW t \in Nat
    PROVE  NextCost(p, t) \in 0..MaxUint64 /\ NextCost(p, t) <= NextCost(q, t)
  <1> DEFINE fc == GetFeeConfigAt(head)
             e == Larger(0, t - head.time)
             low == fc.minBlockGasCost
  <1>1. e \in Nat
        BY DEF Larger
  <1>2. low \in 0..MaxUint64
        BY FeeRulesAssumption DEF Verify, FeeConfigs
  <1>3. \A x : NextCost(x, t) = IF x = Nil THEN low ELSE StepBlockGasCost(fc, x, e)
        BY Zenon DEF NextCost, BlockGasCost
  <1>4. Verify(fc)
        OBVIOUS
  <1> HIDE DEF fc, e
  <1>5. CASE p = Nil /\ q = Nil
        BY <1>2, <1>3, <1>5
  <1>6. CASE p = Nil /\ q # Nil
    <2>1. q \in 0..MaxUint64
          BY <1>6 DEF Costs
    <2>2. low <= StepBlockGasCost(fc, q, e)
          BY <2>1, <1>1, <1>4, StepMonotone
    <2> QED BY <1>2, <1>3, <1>6, <2>2
  <1>7. CASE p # Nil
    <2>1. p \in 0..MaxUint64 /\ q \in 0..MaxUint64
          BY <1>7 DEF Costs, Nil
    <2>2. /\ StepBlockGasCost(fc, p, e) \in 0..MaxUint64
          /\ StepBlockGasCost(fc, p, e) <= StepBlockGasCost(fc, q, e)
          BY <2>1, <1>1, <1>4, StepMonotone, Zenon
    <2>3. q # Nil
          BY <2>1 DEF Nil
    <2> QED BY <1>3, <1>7, <2>2, <2>3
  <1> QED BY <1>5, <1>6, <1>7

\* A configuration that can be read verifies.
LEMMA ReadableVerifies == FeeConfigReadable(head) => Verify(GetFeeConfigAt(head))
  BY PrecompilesAssumption, Zenon DEF FeeConfigReadable, GetFeeConfigAt

\* Tips that cover a cost cover a smaller one.
LEMMA SmallerCostFinalizes ==
    ASSUME NEW fee, NEW c, NEW d \in 0..MaxUint64, NEW tips \in Nat, Finalizes(fee, c, tips), d <= c
    PROVE  Finalizes(fee, d, tips)
  <1>1. fee \in Nat /\ fee > 0 /\ c \in 0..MaxUint64 /\ tips \div fee >= c
        BY DEF Finalizes, verifyBlockFee
  <1>2. tips \div fee \in Int
        BY <1>1
  <1>3. tips \div fee >= d
        BY <1>1, <1>2
  <1> QED BY <1>1, <1>3 DEF Finalizes, verifyBlockFee

----------------------------------------------------------------------------
(* The nodes *)

\* What a node knows of the head's cost is what it has on disk.
LEMMA KnownIsDisk ==
    ASSUME NEW n \in Nodes, node[n].cost \in {Nil, node[n].disk}
    PROVE  KnownCost(n) = node[n].disk
  BY DEF KnownCost

\* A node whose record is r, in place of node[n]: what the invariant asks of r.
RecordFits(n, r) ==
    /\ r \in NodeStates
    /\ r.cost \in {Nil, r.disk}
    /\ node[n].synced => r.synced
    /\ Proposed /\ prop.by = n => r.disk <= node[n].disk
    /\ r.phase = "up" => r.disk <= head.cost /\ (~r.synced => r.disk = head.cost)
    /\ r.seen = "rejected" => Proposed /\ node[prop.by].synced /\ prop.by # n
    /\ r.phase = "up" /\ r.seen = "inserted" =>
           /\ Proposed
           /\ r.propCost = NextCost(r.disk, prop.block.time)
           /\ r.propDisk = r.propCost

\* The record a node has fits.
LEMMA SameRecordFits == ASSUME CostInv, NEW n \in Nodes PROVE RecordFits(n, node[n])
  <1>1. node[n] \in NodeStates /\ node[n].cost \in {Nil, node[n].disk}
        BY DEF CostInv
  <1>2. KnownCost(n) = node[n].disk
        BY <1>1, KnownIsDisk
  <1>3. node[n].disk <= node[n].disk
        BY <1>1 DEF NodeStates, Costs, Nil
  <1> QED BY <1>1, <1>2, <1>3 DEF RecordFits, CostInv, Up

\* While head, schedule and proposed block stay, the invariant stays if every
\* node's new record fits: the tips of the proposed block still cover what its
\* builder knows of the cost.
LEMMA RecordsFit ==
    ASSUME CostInv, UNCHANGED <<sch, head, prop>>,
           node' \in [Nodes -> NodeStates], \A n \in Nodes : RecordFits(n, node'[n])
    PROVE  CostInv'
  <1>1. GetFeeConfigAt(head)' = GetFeeConfigAt(head)
        BY Zenon DEF GetFeeConfigAt
  <1>2. \A n \in Nodes : KnownCost(n)' = node'[n].disk
        BY DEF RecordFits, KnownCost
  <1>3. \A n \in Nodes : KnownCost(n) = node[n].disk
        BY KnownIsDisk DEF CostInv
  <1>4. \A c, t : NextCost(c, t) = BlockGasCost(GetFeeConfigAt(head), head, c, t)
        BY DEF NextCost
  <1>5. Proposed' <=> Proposed
        BY DEF Proposed
  <1>6. ASSUME Proposed PROVE ProposalIsChild'
    <2> DEFINE b == prop.block
               mine == NextCost(node'[prop.by].disk, b.time)
               before == NextCost(node[prop.by].disk, b.time)
    <2>1. /\ prop.by \in Nodes /\ prop.tips \in Tips /\ prop.call \in Calls
          /\ b.time \in head.time..MaxTime
          /\ b = Child(head, b.time, b.gasUsed, prop.call)
          /\ b.gasUsed <= Uint64(GetFeeConfigAt(head).gasLimit)
          /\ Verify(GetFeeConfigAt(head))
          /\ Finalizes(b.baseFee, NextCost(KnownCost(prop.by), b.time), prop.tips)
          /\ ~node[prop.by].synced => Finalizes(b.baseFee, b.cost, prop.tips)
          BY <1>6, Zenon DEF CostInv, ProposalIsChild
    <2>2. /\ node'[prop.by].disk \in Costs /\ node[prop.by].disk \in Costs
          /\ node'[prop.by].disk <= node[prop.by].disk
          /\ node[prop.by].synced => node'[prop.by].synced
          BY <1>6, <2>1 DEF CostInv, RecordFits, NodeStates
    <2>3. head.time \in Nat /\ b.time \in Nat
          BY <2>1, ChainRulesAssumption DEF CostInv, Times
    <2>4. mine \in 0..MaxUint64 /\ mine <= before
          BY <2>1, <2>2, <2>3, NextCostMonotone
    <2>5. Finalizes(b.baseFee, before, prop.tips)
          BY <2>1, <1>3
    <2>6. prop.tips \in Nat
          BY <2>1, ChainRulesAssumption, Zenon
    <2>7. Finalizes(b.baseFee, mine, prop.tips)
          BY <2>4, <2>5, <2>6, SmallerCostFinalizes
    <2>8. NextCost(KnownCost(prop.by), b.time)' = mine
          BY <2>1, <1>1, <1>2, Zenon DEF NextCost
    <2>9. Child(head, b.time, b.gasUsed, prop.call)' = Child(head, b.time, b.gasUsed, prop.call)
      <3>1. b' = b /\ prop.call' = prop.call /\ head' = head
            OBVIOUS
      <3>2. HeaderCoinbase(head)' = HeaderCoinbase(head)
            BY Zenon DEF HeaderCoinbase, GetCoinbaseAt
      <3>3. Execute(head, b.time, prop.call)' = Execute(head, b.time, prop.call)
        <4> DEFINE up == ApplyUpgrades(sch, head.time, b.time, head.number + 1, head.world)
        <4>1. up' = up
              BY <3>1
        <4>2. Run(prop.call, b.time, head.number + 1, up.pre)' =
              Run(prop.call, b.time, head.number + 1, up.pre)
              BY <3>1, <4>1 DEF Run
        <4> QED BY <4>1, <4>2 DEF Execute
      <3> QED BY <1>1, <3>1, <3>2, <3>3, Zenon DEF Child
    <2> QED BY <1>1, <2>1, <2>2, <2>7, <2>8, <2>9, Zenon DEF ProposalIsChild
  <1>7. \A n \in Nodes : NextCost(KnownCost(n), prop.block.time)' =
                         NextCost(node'[n].disk, prop.block.time)
        BY <1>1, <1>2, Zenon DEF NextCost
  <1>8. head'.time \in Times /\ head'.cost \in 0..MaxUint64
        BY DEF CostInv
  <1>9. \A n \in Nodes : node'[n].cost \in {Nil, node'[n].disk}
        BY DEF RecordFits
  <1>10. ASSUME NEW n \in Up'
         PROVE  /\ KnownCost(n)' <= head'.cost
                /\ ~node'[n].synced => KnownCost(n)' = head'.cost
         BY <1>2 DEF Up, RecordFits
  <1>11. ASSUME NEW n \in Nodes, node'[n].seen = "rejected"
         PROVE  Proposed' /\ node'[prop'.by].synced /\ prop'.by # n
    <2>1. Proposed /\ node[prop.by].synced /\ prop.by # n
          BY <1>11 DEF RecordFits
    <2>2. prop.by \in Nodes
          BY <2>1 DEF CostInv, ProposalIsChild
    <2>3. node'[prop.by].synced
          BY <2>1, <2>2 DEF RecordFits
    <2> QED BY <1>5, <2>1, <2>3
  <1>12. ASSUME NEW n \in Up', node'[n].seen = "inserted"
         PROVE  /\ Proposed'
                /\ node'[n].propCost = NextCost(KnownCost(n), prop.block.time)'
                /\ node'[n].propDisk = node'[n].propCost
         BY <1>5, <1>7, <1>12 DEF Up, RecordFits
  <1> QED BY <1>5, <1>6, <1>8, <1>9, <1>10, <1>11, <1>12, Zenon DEF CostInv

\* So it stays when one node's record changes to one that fits.
LEMMA OneRecordFits ==
    ASSUME CostInv, UNCHANGED <<sch, head, prop>>, NEW n \in Nodes, NEW r, RecordFits(n, r),
           node' = [node EXCEPT ![n] = r]
    PROVE  CostInv'
  <1>1. node \in [Nodes -> NodeStates] /\ r \in NodeStates
        BY DEF CostInv, RecordFits
  <1>2. node' \in [Nodes -> NodeStates] /\ \A m \in Nodes : node'[m] = IF m = n THEN r ELSE node[m]
        BY <1>1
  <1>3. \A m \in Nodes : RecordFits(m, node'[m])
        BY <1>2, SameRecordFits
  <1> QED BY <1>2, <1>3, RecordsFit

----------------------------------------------------------------------------
(* The steps *)

\* Every node knows the cost of the genesis block.
LEMMA InitCost == Init => CostInv
  <1> SUFFICES ASSUME Init PROVE CostInv
      OBVIOUS
  <1>1. head.time \in Times /\ head.cost \in 0..MaxUint64 /\ head.cost = 0
        BY ChainRulesAssumption, FeeRulesAssumption DEF Init, Genesis, Times
  <1>2. \A n \in Nodes : node[n] = [phase |-> "up", cost |-> 0, disk |-> 0, propCost |-> Nil,
                                    propDisk |-> Nil, seen |-> "none", synced |-> FALSE]
        BY DEF Init
  <1>3. node \in [Nodes -> NodeStates]
        BY FeeRulesAssumption DEF Init, NodeStates, Costs
  <1>4. \A n \in Nodes : KnownCost(n) = 0
        BY <1>2 DEF KnownCost, Nil
  <1>5. ~Proposed
        BY DEF Init, Proposed
  <1> QED BY <1>1, <1>2, <1>3, <1>4, <1>5 DEF CostInv, Up

\* What a node in the network has, and the cost it works out for the proposed block.
LEMMA CostOfProposed ==
    ASSUME CostInv, Proposed, NEW n \in Nodes
    PROVE  /\ NextCost(KnownCost(n), prop.block.time) \in 0..MaxUint64
           /\ n \in Up => NextCost(KnownCost(n), prop.block.time) <= prop.block.cost
  <1>1. /\ Verify(GetFeeConfigAt(head)) /\ prop.block.time \in head.time..MaxTime
        /\ prop.block = Child(head, prop.block.time, prop.block.gasUsed, prop.call)
        BY Zenon DEF CostInv, ProposalIsChild
  <1>2. head.time \in Nat /\ prop.block.time \in Nat
        BY <1>1, ChainRulesAssumption DEF CostInv, Times
  <1>3. prop.block.cost = NextCost(head.cost, prop.block.time)
        BY <1>1 DEF Child, NextCost
  <1>4. KnownCost(n) \in Costs
        BY DEF CostInv, NodeStates, KnownCost
  <1>5. KnownCost(n) <= KnownCost(n)
        BY <1>4 DEF Costs, Nil
  <1>6. NextCost(KnownCost(n), prop.block.time) \in 0..MaxUint64
        BY <1>1, <1>2, <1>4, <1>5, NextCostMonotone
  <1>7. ASSUME n \in Up PROVE NextCost(KnownCost(n), prop.block.time) <= prop.block.cost
    <2>1. KnownCost(n) <= head.cost /\ head.cost \in Costs
          BY <1>7 DEF CostInv, Costs
    <2> QED BY <1>1, <1>2, <1>3, <1>4, <2>1, NextCostMonotone
  <1> QED BY <1>6, <1>7

\* A child of the head whose tips cover the cost a node works out passes that
\* node's verification: the other fields are the ones the node expects.
LEMMA ChildVerifies ==
    ASSUME CostInv, Proposed, NEW n \in Nodes, NEW cost \in 0..MaxUint64,
           cost = NextCost(KnownCost(n), prop.block.time),
           Finalizes(prop.block.baseFee, cost, prop.tips)
    PROVE  VerifyHeader(n, cost)
  <1> DEFINE b == prop.block
             fc == GetFeeConfigAt(head)
  <1>1. /\ b.time \in head.time..MaxTime /\ b.gasUsed <= Uint64(fc.gasLimit)
        /\ b = Child(head, b.time, b.gasUsed, prop.call)
        BY Zenon DEF CostInv, ProposalIsChild
  <1>2. b.time >= head.time
        BY <1>1, ChainRulesAssumption DEF CostInv, Times
  <1>3. /\ b.gasLimit = Uint64(fc.gasLimit) /\ b.window = feeWindow(head, b.time)
        /\ b.baseFee = BaseFee(fc, head, b.time) /\ b.number = head.number + 1
        /\ b.coinbase = HeaderCoinbase(head) /\ b.world = Execute(head, b.time, prop.call)
        BY <1>1 DEF Child
  <1>4. GetCoinbaseAt(head) = "allow" \/ b.coinbase = GetCoinbaseAt(head)
        BY <1>3 DEF HeaderCoinbase
  <1>5. Larger(0, cost) = BlockGasCost(fc, head, KnownCost(n), b.time)
        BY FeeRulesAssumption DEF Larger, NextCost
  <1> HIDE DEF fc
  <1> QED BY <1>1, <1>2, <1>3, <1>4, <1>5, Zenon DEF VerifyHeader, fc

\* Receive: the node inserts the block, or it turns it down, and then the builder
\* is another node that once took its head from state sync.
LEMMA ReceiveStep == ASSUME CostInv, NEW n \in Nodes, Receive(n) PROVE CostInv'
  <1> DEFINE cost == NextCost(KnownCost(n), prop.block.time)
             taken == Inserted(n, cost)
             refused == [node[n] EXCEPT !.cost = KnownCost(n), !.propCost = cost, !.seen = "rejected"]
  <1>1. Proposed /\ UNCHANGED <<sch, head, prop>>
        BY DEF Receive
  <1>2. node[n] \in NodeStates /\ node[n].cost \in {Nil, node[n].disk}
        BY DEF CostInv
  <1>3. KnownCost(n) = node[n].disk
        BY <1>2, KnownIsDisk
  <1>4. RecordFits(n, node[n])
        BY SameRecordFits
  <1>5. cost \in 0..MaxUint64 /\ cost = NextCost(node[n].disk, prop.block.time)
        BY <1>1, <1>3, CostOfProposed
  <1>6. node[n].phase = "syncing" \/ n \in Up
        BY DEF Receive, Up
  <1>7. CASE node[n].phase = "syncing"
    <2> DEFINE r == [node[n] EXCEPT !.seen = "refused"]
    <2>1. node' = [node EXCEPT ![n] = r]
          BY <1>7 DEF Receive, Up, CostInv
    <2>2. RecordFits(n, r)
          BY <1>2, <1>4, <1>7 DEF RecordFits, NodeStates
    <2> QED BY <1>1, <2>1, <2>2, OneRecordFits, Zenon
  <1>8. CASE n \in Up /\ VerifyHeader(n, cost)
    <2>1. node' = [node EXCEPT ![n] = taken]
          BY <1>8, Zenon DEF Receive, Up, NextCost
    <2>2. RecordFits(n, taken)
          BY <1>1, <1>2, <1>3, <1>4, <1>5, ZenonT(40) DEF RecordFits, NodeStates, Costs, Inserted
    <2> QED BY <1>1, <2>1, <2>2, OneRecordFits, Zenon
  <1>9. CASE n \in Up /\ ~VerifyHeader(n, cost)
    <2>1. node' = [node EXCEPT ![n] = refused]
          BY <1>9 DEF Receive, Up, NextCost
    <2>2. /\ Finalizes(prop.block.baseFee, NextCost(KnownCost(prop.by), prop.block.time), prop.tips)
          /\ ~node[prop.by].synced => Finalizes(prop.block.baseFee, prop.block.cost, prop.tips)
          /\ prop.tips \in Nat
          BY <1>1, ChainRulesAssumption, Zenon DEF CostInv, ProposalIsChild
    <2>3. ~Finalizes(prop.block.baseFee, cost, prop.tips)
          BY <1>1, <1>5, <1>9, ChildVerifies
    <2>4. cost <= prop.block.cost
          BY <1>1, <1>9, CostOfProposed
    <2>5. node[prop.by].synced
          BY <1>5, <2>2, <2>3, <2>4, SmallerCostFinalizes
    <2>6. prop.by # n
          BY <2>2, <2>3
    <2>7. RecordFits(n, refused)
          BY <1>1, <1>2, <1>3, <1>4, <1>5, <2>5, <2>6, ZenonT(40) DEF RecordFits, NodeStates, Costs
    <2> QED BY <1>1, <2>1, <2>7, OneRecordFits, Zenon
  <1> QED BY <1>6, <1>7, <1>8, <1>9

\* Restarts, departures and state sync: memory is lost, the disk is kept or
\* emptied, and a node that comes back from state sync knows nothing.
LEMMA FaultStep ==
    ASSUME CostInv, NEW n \in Nodes, Restart(n) \/ Leave(n) \/ StartSync(n) \/ FinishSync(n)
    PROVE  CostInv'
  <1>1. node[n] \in NodeStates /\ RecordFits(n, node[n]) /\ UNCHANGED <<sch, head, prop>>
        BY SameRecordFits DEF CostInv, Restart, Leave, StartSync, FinishSync
  <1>2. head.cost \in 0..MaxUint64 /\ Nil <= node[n].disk /\ Nil <= head.cost
        BY <1>1 DEF CostInv, NodeStates, Costs, Nil
  <1>3. CASE Restart(n)
    <2>1. RecordFits(n, Restarted(node[n]))
          BY <1>1, ZenonT(40) DEF RecordFits, NodeStates, Costs, Restarted
    <2>2. node' = [node EXCEPT ![n] = Restarted(node[n])]
          BY <1>3 DEF Restart
    <2> QED BY <1>1, <2>1, <2>2, OneRecordFits, Zenon
  <1>4. CASE Leave(n)
    <2> DEFINE r == [Restarted(node[n]) EXCEPT !.phase = "gone", !.disk = Nil, !.propDisk = Nil]
    <2>1. RecordFits(n, r)
          BY <1>1, <1>2, Zenon DEF RecordFits, NodeStates, Costs, Restarted
    <2>2. node' = [node EXCEPT ![n] = r]
          BY <1>4 DEF Leave
    <2> QED BY <1>1, <2>1, <2>2, OneRecordFits, Zenon
  <1>5. CASE StartSync(n)
    <2> DEFINE r == [node[n] EXCEPT !.phase = "syncing"]
    <2>1. RecordFits(n, r)
          BY <1>1 DEF RecordFits, NodeStates
    <2>2. node' = [node EXCEPT ![n] = r]
          BY <1>5 DEF StartSync
    <2> QED BY <1>1, <2>1, <2>2, OneRecordFits, Zenon
  <1>6. CASE FinishSync(n)
    <2> DEFINE r == [node[n] EXCEPT !.phase = "up", !.cost = Nil, !.disk = Nil, !.seen = "none",
                                    !.synced = TRUE]
    <2>1. RecordFits(n, r)
          BY <1>1, <1>2, Zenon DEF RecordFits, NodeStates, Costs
    <2>2. node' = [node EXCEPT ![n] = r]
          BY <1>6 DEF FinishSync
    <2> QED BY <1>1, <2>1, <2>2, OneRecordFits, Zenon
  <1> QED BY <1>3, <1>4, <1>5, <1>6

\* Build: the builder inserts the child it made, whose tips cover the cost it works out.
LEMMA BuildStep == ASSUME CostInv, NEW n \in Nodes, Build(n) PROVE CostInv'
  <1> DEFINE fc == GetFeeConfigAt(head)
             known == KnownCost(n)
  <1>1. PICK time \in head.time..MaxTime, gas \in Gas, tips \in Tips, call \in Calls :
            /\ gas <= Uint64(fc.gasLimit)
            /\ Finalizes(Child(head, time, gas, call).baseFee, NextCost(known, time), tips)
            /\ prop' = [block |-> Child(head, time, gas, call), tips |-> tips, call |-> call, by |-> n]
            /\ node' = [node EXCEPT ![n] = Inserted(n, NextCost(known, time))]
        BY Zenon DEF Build, NextCost
  <1> DEFINE b == Child(head, time, gas, call)
             cost == NextCost(known, time)
  <1>2. n \in Up /\ ~Proposed /\ UNCHANGED <<sch, head>> /\ FeeConfigReadable(head)
        BY DEF Build
  <1>3. Verify(fc)
        BY <1>2, ReadableVerifies
  <1>4. node \in [Nodes -> NodeStates] /\ node[n] \in NodeStates /\ node[n].cost \in {Nil, node[n].disk}
        BY DEF CostInv
  <1>5. known = node[n].disk
        BY <1>4, KnownIsDisk
  <1>6. known <= head.cost /\ (~node[n].synced => known = head.cost) /\ head.cost \in 0..MaxUint64
        BY <1>2 DEF CostInv
  <1>7. known \in Costs /\ head.cost \in Costs
        BY <1>4, <1>5, <1>6 DEF NodeStates, Costs
  <1>8. head.time \in Nat /\ time \in Nat
        BY ChainRulesAssumption DEF CostInv, Times
  <1>9. cost \in 0..MaxUint64
    <2>1. known <= known
          BY <1>7 DEF Costs, Nil
    <2> QED BY <1>3, <1>7, <1>8, <2>1, NextCostMonotone
  <1>10. Proposed'
         BY <1>1 DEF Proposed, NoBlock
  <1>11. /\ node' \in [Nodes -> NodeStates]
         /\ node'[n] = Inserted(n, cost)
         /\ \A m \in Nodes \ {n} : node'[m] = node[m]
    <2>1. Inserted(n, cost) \in NodeStates
          BY <1>4, <1>5, <1>9, ZenonT(40) DEF Inserted, NodeStates, Costs
    <2> QED BY <1>1, <1>4, <2>1
  <1>12. /\ node'[n].cost = node[n].disk /\ node'[n].disk = node[n].disk
         /\ node'[n].phase = node[n].phase /\ node'[n].synced = node[n].synced
         /\ node'[n].seen = "inserted" /\ node'[n].propCost = cost /\ node'[n].propDisk = cost
         BY <1>4, <1>5, <1>11 DEF Inserted, NodeStates
  <1>13. \A m \in Nodes : node'[m].disk = node[m].disk /\ node'[m].phase = node[m].phase
                          /\ node'[m].synced = node[m].synced
         BY <1>11, <1>12
  <1>14. \A m \in Nodes : node'[m].cost \in {Nil, node'[m].disk}
         BY <1>11, <1>12 DEF CostInv
  <1>15. \A m \in Nodes : KnownCost(m)' = KnownCost(m)
         BY <1>13, <1>14, KnownIsDisk DEF CostInv, KnownCost
  <1>16. Up' = Up
         BY <1>13 DEF Up
  <1>17. GetFeeConfigAt(head)' = fc
         BY <1>2, Zenon DEF GetFeeConfigAt
  <1>18. NextCost(KnownCost(n), prop.block.time)' = cost
    <2>1. prop'.block.time = time
          BY <1>1 DEF Child
    <2> QED BY <1>2, <1>15, <1>17, <2>1, Zenon DEF NextCost
  <1>19. ProposalIsChild'
    <2>1. /\ prop'.by = n /\ prop'.tips = tips /\ prop'.call = call /\ prop'.block = b
          /\ b.time = time /\ b.gasUsed = gas /\ b.cost = NextCost(head.cost, time)
          BY <1>1 DEF Child, NextCost
    <2>2. ~node[n].synced => Finalizes(b.baseFee, b.cost, tips)
          BY <1>1, <1>6, <2>1, Zenon
    <2>3. HeaderCoinbase(head)' = HeaderCoinbase(head)
          BY <1>2, Zenon DEF HeaderCoinbase, GetCoinbaseAt
    <2>4. Execute(head, prop.block.time, prop.call)' = Execute(head, time, call)
      <3> DEFINE up == ApplyUpgrades(sch, head.time, time, head.number + 1, head.world)
      <3>1. ApplyUpgrades(sch, head.time, prop.block.time, head.number + 1, head.world)' = up
            BY <1>2, <2>1
      <3>2. Run(prop.call, prop.block.time, head.number + 1, up.pre)' =
            Run(call, time, head.number + 1, up.pre)
            BY <1>2, <2>1, <3>1 DEF Run
      <3> QED BY <1>2, <2>1, <3>1, <3>2 DEF Execute, Run
    <2>5. Child(head, prop.block.time, prop.block.gasUsed, prop.call)' = b
          BY <1>2, <1>17, <2>1, <2>3, <2>4, Zenon DEF Child
    <2>6. /\ prop'.by \in Nodes /\ prop'.tips \in Tips /\ prop'.call \in Calls
          /\ prop'.block.time \in head'.time..MaxTime
          BY <1>2, <2>1
    <2>7. Finalizes(prop'.block.baseFee, cost, prop'.tips)
          BY <1>1, <2>1
    <2>8. NextCost(KnownCost(prop.by), prop.block.time)' = cost
          BY <1>18, <2>1, Zenon DEF NextCost, KnownCost
    <2> QED BY <1>1, <1>3, <1>13, <1>17, <2>1, <2>2, <2>5, <2>6, <2>7, <2>8, Zenon DEF ProposalIsChild
  <1>20. ASSUME NEW m \in Nodes, node'[m].seen = "rejected" PROVE FALSE
         BY <1>2, <1>11, <1>12, <1>20 DEF CostInv
  <1>21. ASSUME NEW m \in Up', node'[m].seen = "inserted"
         PROVE  /\ node'[m].propCost = NextCost(KnownCost(m), prop.block.time)'
                /\ node'[m].propDisk = node'[m].propCost
    <2>1. m = n
          BY <1>2, <1>11, <1>16, <1>21 DEF CostInv, Up
    <2> QED BY <1>12, <1>18, <2>1
  <1>22. \A m \in Up' : KnownCost(m)' <= head'.cost /\ (~node'[m].synced => KnownCost(m)' = head'.cost)
         BY <1>2, <1>13, <1>15, <1>16 DEF CostInv, Up
  <1>23. head'.time \in Times /\ head'.cost \in 0..MaxUint64
         BY <1>2 DEF CostInv
  <1> QED BY <1>10, <1>11, <1>14, <1>19, <1>20, <1>21, <1>22, <1>23, Zenon DEF CostInv

\* Accept: who inserted the block has its cost on disk; the others leave.
LEMMA AcceptStep == ASSUME CostInv, Accept PROVE CostInv'
  <1> DEFINE for == {n \in Up : node[n].seen = "inserted"}
             against == {n \in Up : node[n].seen = "rejected"}
             New(n) == IF n \in for
                       THEN [node[n] EXCEPT !.cost = node[n].propCost, !.disk = node[n].propDisk,
                                            !.propCost = Nil, !.propDisk = Nil, !.seen = "none"]
                       ELSE [node[n] EXCEPT !.phase = IF n \in against THEN "gone" ELSE @,
                                            !.propCost = Nil, !.propDisk = Nil, !.seen = "none"]
  <1>1. /\ Proposed /\ Up = for \cup against /\ head' = prop.block /\ prop' = NoBlock
        /\ node' = [n \in Nodes |-> New(n)]
        BY Zenon DEF Accept
  <1>2. \A n \in Nodes : node[n] \in NodeStates
        BY DEF CostInv
  <1>3. \A n \in Nodes : New(n) \in NodeStates
        BY <1>2, ZenonT(40) DEF NodeStates, Costs
  <1>15. \A n \in Nodes :
            /\ n \in for => /\ New(n).cost = node[n].propCost /\ New(n).disk = node[n].propDisk
                            /\ New(n).synced = node[n].synced
            /\ n \notin for => /\ New(n).cost = node[n].cost /\ New(n).disk = node[n].disk
                               /\ New(n).phase = IF n \in against THEN "gone" ELSE node[n].phase
            /\ New(n).seen = "none"
        BY <1>2, ZenonT(40) DEF NodeStates
  <1> HIDE DEF New
  <1>4. node' \in [Nodes -> NodeStates] /\ \A n \in Nodes : node'[n] = New(n)
        BY <1>1, <1>3
  <1>5. ~Proposed'
        BY <1>1 DEF Proposed
  <1>6. \A n \in for : /\ node'[n].cost = node[n].propCost /\ node'[n].disk = node[n].propDisk
                       /\ node'[n].synced = node[n].synced
        BY <1>4, <1>15 DEF Up
  <1>7. \A n \in Nodes \ for :
            /\ node'[n].cost = node[n].cost /\ node'[n].disk = node[n].disk
            /\ node'[n].phase = IF n \in against THEN "gone" ELSE node[n].phase
        BY <1>4, <1>15
  <1>8. \A n \in Nodes : node'[n].seen = "none"
        BY <1>4, <1>15
  <1>9. Up' \subseteq for
        BY <1>1, <1>7 DEF Up
  <1>10. \A n \in for : /\ node[n].propDisk = node[n].propCost
                        /\ node[n].propCost = NextCost(KnownCost(n), prop.block.time)
         BY DEF CostInv
  <1>11. \A n \in Nodes : node'[n].cost \in {Nil, node'[n].disk}
         BY <1>6, <1>7, <1>10 DEF CostInv
  <1>12. \A n \in for : KnownCost(n)' = NextCost(KnownCost(n), prop.block.time)
         BY <1>6, <1>10 DEF KnownCost
  <1>13. ASSUME NEW n \in Up'
         PROVE  KnownCost(n)' <= head'.cost /\ (~node'[n].synced => KnownCost(n)' = head'.cost)
    <2>1. n \in for /\ n \in Up /\ n \in Nodes
          BY <1>9, <1>13 DEF Up
    <2>2. NextCost(KnownCost(n), prop.block.time) <= prop.block.cost
          BY <1>1, <2>1, CostOfProposed
    <2>3. prop.block = Child(head, prop.block.time, prop.block.gasUsed, prop.call)
          BY <1>1, Zenon DEF CostInv, ProposalIsChild
    <2>4. prop.block.cost = NextCost(head.cost, prop.block.time)
          BY <2>3 DEF Child, NextCost
    <2>5. ~node[n].synced => KnownCost(n) = head.cost
          BY <2>1 DEF CostInv
    <2> QED BY <1>1, <1>6, <1>12, <2>1, <2>2, <2>4, <2>5, Zenon
  <1>14. head'.time \in Times /\ head'.cost \in 0..MaxUint64
    <2>1. /\ prop.block.time \in head.time..MaxTime /\ Verify(GetFeeConfigAt(head))
          /\ prop.block = Child(head, prop.block.time, prop.block.gasUsed, prop.call)
          BY <1>1, Zenon DEF CostInv, ProposalIsChild
    <2>2. prop.block.time \in Times
          BY <2>1, ChainRulesAssumption DEF CostInv, Times
    <2>3. head.time \in Nat /\ prop.block.time \in Nat /\ head.cost \in Costs /\ head.cost <= head.cost
          BY <2>2, ChainRulesAssumption DEF CostInv, Times, Costs
    <2>4. NextCost(head.cost, prop.block.time) \in 0..MaxUint64
          BY <2>1, <2>3, NextCostMonotone
    <2>5. prop.block.cost = NextCost(head.cost, prop.block.time)
          BY <2>1 DEF Child, NextCost
    <2> QED BY <1>1, <2>2, <2>4, <2>5
  <1> QED BY <1>4, <1>5, <1>8, <1>11, <1>13, <1>14 DEF CostInv, Up

\* Reject, and a change of the schedule: no block is proposed afterwards, and
\* every node has on disk what it had.
LEMMA NothingProposed ==
    ASSUME CostInv, UNCHANGED head, ~Proposed', node' \in [Nodes -> NodeStates],
           \A n \in Nodes :
               /\ node'[n].phase = node[n].phase /\ node'[n].synced = node[n].synced
               /\ node'[n].disk = node[n].disk /\ node'[n].cost \in {Nil, node[n].cost}
               /\ node'[n].seen # "rejected"
               /\ node[n].phase = "up" => node'[n].seen # "inserted"
    PROVE  CostInv'
  <1>1. \A n \in Nodes : node'[n].cost \in {Nil, node'[n].disk}
        BY DEF CostInv
  <1>2. \A n \in Nodes : KnownCost(n)' = node[n].disk
        BY <1>1 DEF KnownCost
  <1>3. \A n \in Nodes : KnownCost(n) = node[n].disk
        BY KnownIsDisk DEF CostInv
  <1>4. Up' = Up
        BY DEF Up
  <1>5. \A n \in Up' : KnownCost(n)' <= head'.cost /\ (~node'[n].synced => KnownCost(n)' = head'.cost)
        BY <1>2, <1>3, <1>4 DEF CostInv, Up
  <1>6. head'.time \in Times /\ head'.cost \in 0..MaxUint64
        BY DEF CostInv
  <1> QED BY <1>1, <1>5, <1>6 DEF CostInv, Up

\* Reject forgets the proposed block at every node.
LEMMA RejectStep == ASSUME CostInv, Reject PROVE CostInv'
  <1> DEFINE New(n) == [node[n] EXCEPT !.propCost = Nil, !.propDisk = Nil, !.seen = "none"]
  <1>1. UNCHANGED head /\ prop' = NoBlock /\ node' = [n \in Nodes |-> New(n)]
        BY Zenon DEF Reject
  <1>2. \A n \in Nodes : node[n] \in NodeStates
        BY DEF CostInv
  <1>3. \A n \in Nodes :
            /\ New(n) \in NodeStates
            /\ New(n).phase = node[n].phase /\ New(n).synced = node[n].synced
            /\ New(n).disk = node[n].disk /\ New(n).cost = node[n].cost
            /\ New(n).seen = "none"
        BY <1>2, ZenonT(40) DEF NodeStates, Costs
  <1> HIDE DEF New
  <1>4. node' \in [Nodes -> NodeStates] /\ \A n \in Nodes : node'[n] = New(n)
        BY <1>1, <1>3
  <1>5. \A n \in Nodes :
            /\ node'[n].phase = node[n].phase /\ node'[n].synced = node[n].synced
            /\ node'[n].disk = node[n].disk /\ node'[n].cost \in {Nil, node[n].cost}
            /\ node'[n].seen # "rejected" /\ (node[n].phase = "up" => node'[n].seen # "inserted")
        BY <1>3, <1>4
  <1>6. ~Proposed'
        BY <1>1 DEF Proposed
  <1> QED BY <1>1, <1>4, <1>5, <1>6, NothingProposed, Zenon

\* A node that starts with another schedule keeps what it knows of the cost.
LEMMA ChangeStep == ASSUME CostInv, NEW s, ChangeSchedule(s) PROVE CostInv'
  <1>1. /\ ~Proposed /\ UNCHANGED <<head, prop>>
        /\ node' = [n \in Nodes |-> IF n \in Up THEN Restarted(node[n]) ELSE node[n]]
        BY DEF ChangeSchedule
  <1>2. \A n \in Nodes : node[n] \in NodeStates
        BY DEF CostInv
  <1>3. \A n \in Nodes :
            LET r == Restarted(node[n])
            IN /\ r \in NodeStates /\ r.phase = node[n].phase /\ r.synced = node[n].synced
               /\ r.disk = node[n].disk /\ r.cost = Nil /\ r.seen = "none"
        BY <1>2, ZenonT(40) DEF Restarted, NodeStates, Costs
  <1>4. node' \in [Nodes -> NodeStates]
        BY <1>1, <1>2, <1>3
  <1>5. \A n \in Nodes :
            /\ node'[n].phase = node[n].phase /\ node'[n].synced = node[n].synced
            /\ node'[n].disk = node[n].disk /\ node'[n].cost \in {Nil, node[n].cost}
            /\ n \in Up => node'[n].seen = "none"
            /\ n \notin Up => node'[n].seen = node[n].seen
        BY <1>1, <1>3
  <1>6. \A n \in Nodes :
            /\ node'[n].seen # "rejected"
            /\ node[n].phase = "up" => node'[n].seen # "inserted"
        BY <1>1, <1>5 DEF CostInv, Up
  <1>7. UNCHANGED head /\ ~Proposed'
        BY <1>1 DEF Proposed
  <1> QED BY <1>4, <1>5, <1>6, <1>7, NothingProposed, Zenon

\* The invariant holds.
LEMMA CostInvariant == Spec => []CostInv
  <1>1. CostInv /\ [Next]_vars => CostInv'
    <2> SUFFICES ASSUME CostInv, [Next]_vars PROVE CostInv'
        OBVIOUS
    <2>1. CASE UNCHANGED vars
      <3>1. UNCHANGED <<sch, head, prop>> /\ node' = node /\ node' \in [Nodes -> NodeStates]
            BY <2>1 DEF vars, CostInv
      <3>2. \A n \in Nodes : RecordFits(n, node'[n])
            BY <3>1, SameRecordFits
      <3> QED BY <3>1, <3>2, RecordsFit, Zenon
    <2>2. CASE Next
          BY <2>2, BuildStep, ReceiveStep, AcceptStep, RejectStep, FaultStep, ChangeStep, Zenon DEF Next
    <2> QED BY <2>1, <2>2
  <1> QED BY <1>1, InitCost, PTL DEF Spec

\* Whatever nodes restart, leave and come back by state sync, and however the
\* fees are configured: a node that never took its head from state sync knows
\* the head's block gas cost, no node knows more than it, and a block that fails
\* verification at a node was built by another one that did sync.
THEOREM CostIsKnown == Spec => []RejectedIsUndercharged
  <1>1. CostInv => RejectedIsUndercharged
    <2>1. \A n \in Up : n \in Nodes
          BY DEF Up
    <2> QED BY <2>1, Zenon DEF CostInv, RejectedIsUndercharged
  <1> QED BY <1>1, CostInvariant, PTL

----------------------------------------------------------------------------
(* The allow lists *)

\* The state of a precompile has its fields, and a role for every account.
HasRoles(st) ==
    /\ st = [marker |-> st.marker, roles |-> st.roles, value |-> st.value, changed |-> st.changed]
    /\ st.roles = [a \in Accounts |-> st.roles[a]]

\* Admins and managers of st are those of old.
SamePowers(st, old) ==
    \A a \in Accounts, role \in {"admin", "manager"} : st.roles[a] = role <=> old.roles[a] = role

\* Configuring or wiping a precompile leaves such a state.
LEMMA ActivateHasRoles ==
    ASSUME NEW k, NEW st, NEW c, NEW number PROVE HasRoles(Activate(k, st, c, number))
  <1>1. HasRoles(Blank)
        BY DEF Blank, HasRoles
  <1>2. HasRoles(Configure(k, st, c, number))
        BY Zenon DEF Configure, HasRoles
  <1> QED BY <1>1, <1>2 DEF Activate

\* So do the upgrades of a block, which leave a precompile alone when none is for it.
LEMMA UpgradesHaveRoles ==
    ASSUME NEW s, NEW from, NEW to, NEW number, NEW pre, \A k \in Keys : HasRoles(pre[k]),
           NEW k \in Keys
    PROVE  LET up == ApplyPrecompileActivations(s, from, to, number, pre)
           IN /\ HasRoles(up[k])
              /\ GetActivatingPrecompileConfigs(s, k, from, to) = <<>> => up[k] = pre[k]
  <1> DEFINE configs == GetActivatingPrecompileConfigs(s, k, from, to)
             old == ActivateAll(k, pre[k], Front(configs), number)
             up == ApplyPrecompileActivations(s, from, to, number, pre)
  <1>1. up[k] = IF configs = <<>> THEN pre[k] ELSE Activate(k, old, Last(configs), number)
        BY Zenon DEF ApplyPrecompileActivations
  <1>2. HasRoles(Activate(k, old, Last(configs), number))
        BY ActivateHasRoles, Zenon
  <1>3. HasRoles(pre[k])
        OBVIOUS
  <1> HIDE DEF configs, old, up
  <1>4. HasRoles(up[k]) /\ (configs = <<>> => up[k] = pre[k])
        BY <1>1, <1>2, <1>3, Zenon
  <1> QED BY <1>4 DEF configs, up

\* A call keeps that form, and without an admin it makes and unmakes no admin and
\* no manager: managers only change the enabled and those with no role, to one of these.
LEMMA SetRoleKeeps ==
    ASSUME NEW st, HasRoles(st), NEW caller \in Accounts, NEW who, NEW role, NEW time
    PROVE  LET new == SetRole(st, caller, who, role, time)
           IN /\ HasRoles(new)
              /\ (\A a \in Accounts : st.roles[a] # "admin") => SamePowers(new, st)
  <1> DEFINE new == [st EXCEPT !.roles[who] = role]
  <1>1. /\ new = [marker |-> st.marker, roles |-> [st.roles EXCEPT ![who] = role],
                  value |-> st.value, changed |-> st.changed]
        /\ \A a \in Accounts : new.roles[a] = IF a = who THEN role ELSE st.roles[a]
        BY DEF HasRoles
  <1>2. HasRoles(new)
        BY <1>1 DEF HasRoles
  <1>3. ASSUME CanModify(st.roles[caller], st.roles[who], role),
               \A a \in Accounts : st.roles[a] # "admin"
        PROVE  SamePowers(new, st)
    <2>1. st.roles[who] \in {"enabled", "no"} /\ role \in {"enabled", "no"}
          BY <1>3, Zenon DEF CanModify
    <2> QED BY <1>1, <2>1 DEF SamePowers
  <1>4. SamePowers(st, st)
        BY DEF SamePowers
  <1> HIDE DEF new
  <1> QED BY <1>2, <1>3, <1>4, Zenon DEF SetRole, new

\* setFeeConfig and setRewardAddress leave every role as it is.
LEMMA SetValueKeeps ==
    ASSUME NEW st, HasRoles(st), NEW caller, NEW fc, NEW number, NEW to
    PROVE  /\ HasRoles(setFeeConfig(st, caller, fc, number))
           /\ SamePowers(setFeeConfig(st, caller, fc, number), st)
           /\ HasRoles(setReward(st, caller, to))
           /\ SamePowers(setReward(st, caller, to), st)
  <1>4. ASSUME NEW value, NEW changed
        PROVE  LET new == [marker |-> st.marker, roles |-> st.roles, value |-> value,
                           changed |-> changed]
               IN HasRoles(new) /\ new.roles = st.roles
        BY DEF HasRoles
  <1>5. \A s, m, r, v, c, x :
            s = [marker |-> m, roles |-> r, value |-> v, changed |-> c] =>
            [s EXCEPT !.value = x] = [marker |-> m, roles |-> r, value |-> x, changed |-> c]
        OBVIOUS
  <1>6. \A s, m, r, v, c, x :
            s = [marker |-> m, roles |-> r, value |-> v, changed |-> c] =>
            [s EXCEPT !.changed = x] = [marker |-> m, roles |-> r, value |-> v, changed |-> x]
        OBVIOUS
  <1>7. st = [marker |-> st.marker, roles |-> st.roles, value |-> st.value, changed |-> st.changed]
        BY DEF HasRoles
  <1> DEFINE a == [st EXCEPT !.value = <<fc>>]
             b == [a EXCEPT !.changed = number]
             d == [st EXCEPT !.value = <<to>>]
  <1>8. /\ a = [marker |-> st.marker, roles |-> st.roles, value |-> <<fc>>, changed |-> st.changed]
        /\ d = [marker |-> st.marker, roles |-> st.roles, value |-> <<to>>, changed |-> st.changed]
        BY <1>5, <1>7
  <1> HIDE DEF a, d
  <1>9. b = [marker |-> st.marker, roles |-> st.roles, value |-> <<fc>>, changed |-> number]
        BY <1>6, <1>8
  <1> HIDE DEF b
  <1>1. HasRoles(b) /\ b.roles = st.roles
        BY <1>4, <1>9, Zenon
  <1>2. HasRoles(d) /\ d.roles = st.roles
        BY <1>4, <1>8, Zenon
  <1>3. \A x : x.roles = st.roles => SamePowers(x, st)
        BY DEF SamePowers
  <1>10. setFeeConfig(st, caller, fc, number) \in {b, st} /\ setReward(st, caller, to) \in {d, st}
        BY Zenon DEF setFeeConfig, setReward, a, b, d
  <1> QED BY <1>1, <1>2, <1>3, <1>10, Zenon

\* What the block's upgrades and its call leave of the allow list of a precompile.
LEMMA ExecuteKeeps ==
    ASSUME NEW parent, NEW time, NEW call \in Calls, NEW k \in Keys,
           \A j \in Keys : HasRoles(parent.world.pre[j])
    PROVE  LET old == parent.world.pre[k]
               new == Execute(parent, time, call).pre[k]
           IN /\ HasRoles(new)
              /\ /\ GetActivatingPrecompileConfigs(sch, k, parent.time, time) = <<>>
                 /\ \A a \in Accounts : old.roles[a] # "admin"
                 => SamePowers(new, old)
  <1> DEFINE number == parent.number + 1
             pre == ApplyPrecompileActivations(sch, parent.time, time, number, parent.world.pre)
             old == parent.world.pre[k]
             new == Run(call, time, number, pre)[k]
             quiet == GetActivatingPrecompileConfigs(sch, k, parent.time, time) = <<>>
  <1>1. Execute(parent, time, call).pre = Run(call, time, number, pre)
        BY DEF Execute, ApplyUpgrades
  <1>2. HasRoles(pre[k]) /\ (quiet => pre[k] = old)
        BY UpgradesHaveRoles
  <1>3. DOMAIN pre = Keys /\ pre = [j \in Keys |-> pre[j]]
        BY Zenon DEF ApplyPrecompileActivations
  <1>4. \/ call.op = "none"
        \/ call.op \in {"role", "fee", "reward"} /\ call.key \in Keys /\ call.caller \in Accounts
        BY ChainRulesAssumption, Zenon
  <1> DEFINE st == pre[k]
             changed == CASE call.op = "role" -> SetRole(st, call.caller, call.who, call.role, time)
                          [] call.op = "fee" -> setFeeConfig(st, call.caller, call.fc, number)
                          [] call.op = "reward" -> setReward(st, call.caller, call.to)
  <1>5. new = st \/ (call.op # "none" /\ call.key = k /\ new = changed)
        BY <1>3, <1>4 DEF Run
  <1>6. SamePowers(st, st)
        BY DEF SamePowers
  <1> HIDE DEF pre, new
  <1>7. ASSUME call.op # "none"
        PROVE  /\ HasRoles(changed)
               /\ (\A a \in Accounts : st.roles[a] # "admin") => SamePowers(changed, st)
    <2>1. CASE call.op = "role"
          BY <1>2, <1>4, <1>7, <2>1, SetRoleKeeps
    <2>2. CASE call.op = "fee"
          BY <1>2, <2>2, SetValueKeeps
    <2>3. CASE call.op = "reward"
          BY <1>2, <2>3, SetValueKeeps
    <2> QED BY <1>4, <1>7, <2>1, <2>2, <2>3
  <1> HIDE DEF changed
  <1>8. /\ HasRoles(new)
        /\ (\A a \in Accounts : st.roles[a] # "admin") => SamePowers(new, st)
        BY <1>2, <1>5, <1>6, <1>7, Zenon
  <1>9. quiet => st = old
        BY <1>2
  <1> HIDE DEF st, old, quiet
  <1>10. quiet /\ (\A a \in Accounts : old.roles[a] # "admin") => SamePowers(new, old)
         BY <1>8, <1>9, Zenon
  <1> QED BY <1>1, <1>8, <1>10, Zenon DEF new, old, quiet

\* The head's precompiles have their roles.
RolesInv == \A k \in Keys : HasRoles(head.world.pre[k])

\* What a step does to the head: nothing, or it becomes the proposed child.
LEMMA HeadMoves ==
    ASSUME CostInv, [Next]_vars, head' # head
    PROVE  \E call \in Calls : head'.world = Execute(head, head'.time, call)
  <1>1. Accept
        BY Zenon DEF Next, vars, Build, Receive, Reject, Restart, Leave, StartSync, FinishSync,
                     ChangeSchedule
  <1>2. Proposed /\ head' = prop.block
        BY <1>1, Zenon DEF Accept
  <1>3. prop.call \in Calls /\ prop.block = Child(head, prop.block.time, prop.block.gasUsed, prop.call)
        BY <1>2, Zenon DEF CostInv, ProposalIsChild
  <1>4. prop.block.world = Execute(head, prop.block.time, prop.call)
        BY <1>3 DEF Child
  <1> QED BY <1>2, <1>3, <1>4, Zenon

\* Every account has a role in every precompile, at all times.
LEMMA RolesInvariant == Spec => []RolesInv
  <1>1. Init => RolesInv
    <2> SUFFICES ASSUME Init, NEW k \in Keys PROVE HasRoles(head.world.pre[k])
        BY DEF RolesInv
    <2>1. HasRoles(Blank)
          BY DEF Blank, HasRoles
    <2> DEFINE none == [j \in Keys |-> Blank]
    <2>2. \A j \in Keys : HasRoles(none[j])
          BY <2>1
    <2>3. head.world.pre = ApplyPrecompileActivations(sch, Nil, GenesisTime, 0, none)
          BY DEF Init, Genesis
    <2> HIDE DEF none
    <2>4. HasRoles(ApplyPrecompileActivations(sch, Nil, GenesisTime, 0, none)[k])
          BY <2>2, UpgradesHaveRoles, Zenon
    <2> QED BY <2>3, <2>4
  <1>2. CostInv /\ RolesInv /\ [Next]_vars => RolesInv'
    <2> SUFFICES ASSUME CostInv, RolesInv, [Next]_vars PROVE RolesInv'
        OBVIOUS
    <2>1. CASE head' = head
          BY <2>1 DEF RolesInv
    <2>2. CASE head' # head
      <3>1. PICK call \in Calls : head'.world = Execute(head, head'.time, call)
            BY <2>2, HeadMoves, Zenon
      <3>2. \A k \in Keys : HasRoles(Execute(head, head'.time, call).pre[k])
            BY ExecuteKeeps, Zenon DEF RolesInv
      <3> QED BY <3>1, <3>2, Zenon DEF RolesInv
    <2> QED BY <2>1, <2>2
  <1> QED BY <1>1, <1>2, CostInvariant, PTL DEF Spec

\* Over any number of accounts, calls and upgrades: without an admin, and without
\* an upgrade that configures it again, nobody becomes or stops being admin or
\* manager of a precompile (the allow list's CanModify).
THEOREM PromotionNeedsAdmin == Spec => OnlyAdminsPromote
  <1> DEFINE Kept ==
          \A k \in Keys :
              /\ head' # head
              /\ GetActivatingPrecompileConfigs(sch, k, head.time, head'.time) = <<>>
              /\ AllowListHolders(head, k, "admin") = {}
              => \A role \in {"admin", "manager"} :
                     AllowListHolders(head', k, role) = AllowListHolders(head, k, role)
  <1>1. CostInv /\ RolesInv /\ [Next]_vars => Kept
    <2> SUFFICES ASSUME CostInv, RolesInv, [Next]_vars, NEW k \in Keys, head' # head,
                        GetActivatingPrecompileConfigs(sch, k, head.time, head'.time) = <<>>,
                        AllowListHolders(head, k, "admin") = {},
                        NEW role \in {"admin", "manager"}
                 PROVE  AllowListHolders(head', k, role) = AllowListHolders(head, k, role)
        BY Zenon
    <2>1. PICK call \in Calls : head'.world = Execute(head, head'.time, call)
          BY HeadMoves, Zenon
    <2>2. \A a \in Accounts : head.world.pre[k].roles[a] # "admin"
          BY Zenon DEF AllowListHolders
    <2>3. SamePowers(Execute(head, head'.time, call).pre[k], head.world.pre[k])
          BY <2>1, <2>2, ExecuteKeeps, Zenon DEF RolesInv
    <2> QED BY <2>1, <2>3, Zenon DEF SamePowers, AllowListHolders
  <1> QED BY <1>1, CostInvariant, RolesInvariant, PTL DEF Spec, OnlyAdminsPromote
=============================================================================
