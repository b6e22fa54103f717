------------------------------ MODULE MCRules ------------------------------
(* Fee configurations: the chain's, one with another target and no minimum,  *)
(* one whose target is a multiple of 2^64 (16 here), and one that does not   *)
(* verify.  Schedules: the fee manager from genesis, disabled and enabled    *)
(* again with other accounts; the reward manager by upgrade; state upgrades. *)
EXTENDS RulesProps, TLC

MCFee(min, target, minCost) ==
    [gasLimit |-> 2, targetBlockRate |-> 1, minBaseFee |-> min, targetGas |-> target,
     baseFeeChangeDenominator |-> 1, minBlockGasCost |-> minCost, maxBlockGasCost |-> 2,
     blockGasCostStep |-> 1]
MCChainFee == MCFee(1, 2, 0)

MCConfig(k, t, off, admins, managers, enableds, init) ==
    [key |-> k, time |-> t, disable |-> off, admins |-> admins, managers |-> managers,
     enableds |-> enableds, init |-> init]
MCNone(k) == MCConfig(k, Nil, FALSE, {}, {}, {}, <<>>)
MCOff(k, t) == MCConfig(k, t, TRUE, {}, {}, {}, <<>>)

CONSTANTS a1, a2

MCGenesis ==
    [fee |-> MCConfig("fee", 0, FALSE, {a1}, {}, {}, <<>>), reward |-> MCNone("reward")]

MCSchedules ==
    {[genesis |-> MCGenesis, upgrades |-> <<>>, state |-> <<>>],
     [genesis |-> MCGenesis, state |-> <<2>>,
      upgrades |-> <<MCOff("fee", 1),
                     MCConfig("reward", 2, FALSE, {}, {a1}, {}, <<a2>>),
                     MCConfig("fee", 2, FALSE, {}, {a2}, {}, <<MCFee(1, 1, 1)>>)>>],
     [genesis |-> MCGenesis, state |-> <<1, 3>>,
      upgrades |-> <<MCConfig("reward", 1, FALSE, {a2}, {}, {a1}, <<>>), MCOff("reward", 3)>>],
     [genesis |-> MCGenesis, state |-> <<>>,
      upgrades |-> <<MCOff("fee", 2), MCOff("fee", 3)>>]}

MCCalls ==
    {[op |-> "none"],
     [op |-> "role", key |-> "fee", caller |-> a1, who |-> a1, role |-> "no"],
     [op |-> "role", key |-> "reward", caller |-> a1, who |-> a2, role |-> "manager"],
     [op |-> "fee", key |-> "fee", caller |-> a1, fc |-> MCFee(0, 2, 0)],
     [op |-> "fee", key |-> "fee", caller |-> a1, fc |-> MCFee(1, 16, 0)],
     [op |-> "fee", key |-> "fee", caller |-> a1, fc |-> MCFee(1, 0, 0)],
     [op |-> "reward", key |-> "reward", caller |-> a2, to |-> "allow"]}

MCSymmetry == Permutations(Nodes)
=============================================================================
