------------------------------ MODULE FeeRules ------------------------------
(* The fee arithmetic of a header: the rolling gas window, the base fee, the *)
(* block gas cost and the block fee.  A fee configuration is a record with   *)
(* the fields of commontype.FeeConfig, a header a record with at least       *)
(* number, time, baseFee, gasUsed and window.  The EVM upgrade is active at  *)
(* timestamp 0 (verifyNetworkUpgrades demands it), so "before EVM" is not a  *)
(* case.                                                                     *)
EXTENDS Integers, Functions

CONSTANTS
    WindowLen,   \* feewindow.WindowLen, 10 in the code
    MaxUint64    \* where the window's sums and the block gas cost saturate

ASSUME FeeRulesAssumption == WindowLen \in Nat \ {0} /\ MaxUint64 \in Nat \ {0}

\* "no block gas cost": a nil *big.Int
Nil == -1

Larger(a, b) == IF a > b THEN a ELSE b
Smaller(a, b) == IF a < b THEN a ELSE b

\* big.Int.Uint64: the low 64 bits
Uint64(x) == x % (MaxUint64 + 1)

\* add: 64-bit addition that stops at the largest value
SafeAdd(a, b) == Smaller(a + b, MaxUint64)

EmptyWindow == [i \in 1..WindowLen |-> 0]

Add(w, gas) == [w EXCEPT ![WindowLen] = SafeAdd(@, gas)]

MutShift(w, n) ==
    [i \in 1..WindowLen |-> IF n > 0 /\ i + n - 1 <= WindowLen THEN w[i + n - 1]
                            ELSE IF n = 0 THEN w[i] ELSE 0]

\* the oldest n slots leave, n empty ones follow
Shift(w, n) == [i \in 1..WindowLen |-> IF i + n <= WindowLen THEN w[i + n] ELSE 0]

WindowSum(w) == FoldFunction(SafeAdd, 0, w)

\* a fee configuration with no nil number; the target block rate is a uint64
FeeConfigs ==
    [gasLimit : Int, targetBlockRate : Nat, minBaseFee : Int, targetGas : Int,
     baseFeeChangeDenominator : Int, minBlockGasCost : Int, maxBlockGasCost : Int,
     blockGasCostStep : Int]

\* FeeConfig.Verify
Verify(fc) ==
    /\ fc \in FeeConfigs
    /\ fc.gasLimit > 0
    /\ fc.targetBlockRate > 0
    /\ fc.minBaseFee >= 0
    /\ fc.targetGas > 0
    /\ fc.baseFeeChangeDenominator > 0
    /\ fc.minBlockGasCost >= 0
    /\ fc.minBlockGasCost <= fc.maxBlockGasCost
    /\ fc.blockGasCostStep >= 0
    /\ fc.maxBlockGasCost <= MaxUint64

\* The gas window a child of parent built at time puts in its header.
feeWindow(parent, time) ==
    IF parent.number = 0 THEN EmptyWindow
    ELSE Shift(Add(parent.window, parent.gasUsed), time - parent.time)

\* how far the fee moves when the window is off its target by excess gas
BaseFeeDelta(fc, fee, excess) ==
    Larger(1, ((excess * fee) \div Uint64(fc.targetGas)) \div fc.baseFeeChangeDenominator)

\* The fee moves by a fraction of the target, which the code takes as a uint64:
\* FeeConfig.Verify only asks that the number is positive, so the uint64 may be
\* zero, and the division panics.
BaseFeePanics(fc, parent, time) ==
    /\ parent.number # 0
    /\ Uint64(fc.targetGas) = 0
    /\ WindowSum(feeWindow(parent, time)) > 0

MutBaseFee(fc, parent, time) ==
    IF parent.number = 0 THEN fc.minBaseFee
    ELSE LET total == WindowSum(feeWindow(parent, time)) IN
         IF total = Uint64(fc.targetGas) THEN parent.baseFee
         ELSE IF total > Uint64(fc.targetGas)
         THEN parent.baseFee + BaseFeeDelta(fc, parent.baseFee, total - Uint64(fc.targetGas))
         ELSE parent.baseFee - BaseFeeDelta(fc, parent.baseFee, Uint64(fc.targetGas) - total)

\* Above the target the fee rises, below it falls, more the longer nothing was
\* produced; at the target it stays, below the minimum or not.
BaseFee(fc, parent, time) ==
    IF parent.number = 0 THEN fc.minBaseFee
    ELSE LET total == WindowSum(feeWindow(parent, time))
             target == Uint64(fc.targetGas)
             windows == Larger(1, (time - parent.time) \div WindowLen)
         IN IF total = target THEN parent.baseFee
            ELSE IF total > target
            THEN Larger(fc.minBaseFee, parent.baseFee +
                        BaseFeeDelta(fc, parent.baseFee, total - target))
            ELSE Larger(fc.minBaseFee, parent.baseFee - windows *
                        BaseFeeDelta(fc, parent.baseFee, target - total))

\* blockgascost.BlockGasCost: a block that comes early raises the cost, a late
\* one lowers it
StepBlockGasCost(fc, parentCost, elapsed) ==
    LET deviation == Larger(fc.targetBlockRate - elapsed, elapsed - fc.targetBlockRate)
        change == Smaller(Uint64(fc.blockGasCostStep) * deviation, MaxUint64)
        cost == IF elapsed > fc.targetBlockRate
                THEN IF change > parentCost THEN fc.minBlockGasCost ELSE parentCost - change
                ELSE IF parentCost + change > MaxUint64 THEN fc.maxBlockGasCost
                     ELSE parentCost + change
    IN Smaller(fc.maxBlockGasCost, Larger(fc.minBlockGasCost, cost))

\* parentCost is what the node knows of its parent's cost, Nil for nothing
BlockGasCost(fc, parent, parentCost, time) ==
    IF parentCost = Nil THEN fc.minBlockGasCost
    ELSE StepBlockGasCost(fc, parentCost, Larger(0, time - parent.time))

\* The tips of the block, as gas bought at its base fee, cover its gas cost.
verifyBlockFee(baseFee, cost, tips) ==
    /\ baseFee \in Nat /\ baseFee > 0
    /\ cost \in 0..MaxUint64
    /\ tips \div baseFee >= cost
=============================================================================
