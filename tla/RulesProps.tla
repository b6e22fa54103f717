----------------------------- MODULE RulesProps -----------------------------
(* What the chain rules promise. *)
EXTENDS ChainRules

Costs == {Nil} \cup 0..MaxUint64
NodeStates ==
    [phase : {"up", "gone", "syncing"}, cost : Costs, disk : Costs, propCost : Costs,
     propDisk : Costs, synced : BOOLEAN, seen : {"none", "refused", "inserted", "rejected"}]

\* Every variable has its type.
RulesTypeOK ==
    /\ sch \in Schedules
    /\ head.number \in 0..MaxNumber /\ head.time \in Times /\ head.baseFee \in Nat
    /\ head.window \in [1..WindowLen -> 0..MaxUint64]
    /\ Proposed => prop.block.number = head.number + 1 /\ prop.by \in Nodes
    /\ node \in [Nodes -> NodeStates]
    /\ retro \in BOOLEAN /\ faults \in 0..MaxFaults

\* The rules name the configuration that took effect last, but for a precompile
\* of the genesis that was disabled and enabled again: there GetExtrasRules
\* returns the genesis configuration.
RulesUseLastConfig ==
    \A k \in Keys, t \in Times :
        LET last == GetActivatingPrecompileConfigs(sch, k, Nil, t)
        IN RuleConfigs(sch, k, t) # <<>> =>
               \/ RuleConfigs(sch, k, t) = <<Last(last)>>
               \/ RuleConfigs(sch, k, t) = <<sch.genesis[k]>> /\ Len(last) >= 3

\* Unless an operator rewrote what already took effect, a precompile's account
\* is marked in the head's state exactly when the schedule enables it at the
\* head's time (IsPrecompileEnabled, which the fee and coinbase lookups ask),
\* and exactly then the rules dispatch calls to it (GetExtrasRules, which works
\* it out in another way); and each state upgrade after the genesis time was
\* applied once if its time has come.  However far apart the blocks are, nothing
\* is skipped, applied twice, or left behind by a disabling.
\* RulesUseLastConfig holds whatever was rewritten.
UpgradesMatchSchedule ==
    /\ RulesUseLastConfig
    /\ ~retro =>
           /\ \A k \in Keys :
                 /\ head.world.pre[k].marker = IsPrecompileEnabled(sch, k, head.time)
                 /\ head.world.pre[k].marker = (RuleConfigs(sch, k, head.time) # <<>>)
                 /\ ~head.world.pre[k].marker => head.world.pre[k] = Blank
           /\ \A t \in Times :
                 head.world.patched[t] =
                     IF t > GenesisTime /\ t <= head.time /\ \E i \in DOMAIN sch.state : sch.state[i] = t
                     THEN 1 ELSE 0

\* The head can be built upon.  Its fee configuration can be read and verifies,
\* and its coinbase is not the zero address: GetFeeConfigAt's "assumes that a
\* valid configuration is stored when the precompile is activated", for every
\* history that was not rewritten.  A child has a base fee, and a positive one,
\* at every later time, unless the configuration asks for no minimum, or for a
\* target whose low 64 bits are zero: FeeConfig.Verify lets both through, and
\* then verifyBlockFee refuses every block or the base fee divides by zero.
HeadIsUsable ==
    /\ RulesTypeOK
    /\ ~retro => FeeConfigReadable(head) /\ Verify(GetFeeConfigAt(head)) /\ GetCoinbaseAt(head) # "zero"
    /\ FeeConfigReadable(head) =>
           LET fc == GetFeeConfigAt(head)
           IN fc.minBaseFee > 0 /\ Uint64(fc.targetGas) > 0 =>
                  \A t \in head.time..MaxTime :
                      ~BaseFeePanics(fc, head, t) /\ BaseFee(fc, head, t) > 0

\* The window in the head's header holds, second by second, the gas of the
\* ancestors of the last WindowLen seconds: shifting slots block by block loses
\* nothing and keeps nothing, whatever the gaps between blocks.
WindowIsRecentGas ==
    head.number > 0 =>
        \A i \in 1..WindowLen :
            head.window[i] =
                FoldFunction(SafeAdd, 0,
                    [p \in {q \in head.past : q.time = head.time - WindowLen + i} |-> p.gas])

\* The head's header carries on the fees of the chain: its window is right and a
\* child can be built on it.
FeesGoOn == HeadIsUsable /\ WindowIsRecentGas

\* A node that never took its head from state sync knows the block gas cost of
\* the head, through restarts and reparsed blocks; one that did never knows more
\* than the cost.  So what a builder makes of the head passes verification at
\* every other node, unless the builder once took its head from state sync: then
\* it may ask for too small a block fee.
RejectedIsUndercharged ==
    \A n \in Up :
        /\ ~node[n].synced => KnownCost(n) = head.cost
        /\ KnownCost(n) <= head.cost
        /\ node[n].seen = "rejected" => node[prop.by].synced /\ prop.by # n

\* The block gas cost a child of the head at this time has, to one who knows cost.
NextCost(cost, time) == BlockGasCost(GetFeeConfigAt(head), head, cost, time)

\* The proposed block is the child its builder made of the head, whose fee
\* configuration verifies, and its tips cover what the builder still knows of
\* the cost; they cover all of it unless the builder once took its head from
\* state sync.
ProposalIsChild ==
    LET b == prop.block
    IN /\ prop.by \in Nodes /\ prop.tips \in Tips /\ prop.call \in Calls
       /\ b.time \in head.time..MaxTime
       /\ b = Child(head, b.time, b.gasUsed, prop.call)
       /\ b.gasUsed <= Uint64(GetFeeConfigAt(head).gasLimit)
       /\ Verify(GetFeeConfigAt(head))
       /\ Finalizes(b.baseFee, NextCost(KnownCost(prop.by), b.time), prop.tips)
       /\ ~node[prop.by].synced => Finalizes(b.baseFee, b.cost, prop.tips)

\* Why RejectedIsUndercharged holds: what a node has in memory of the head's cost
\* is what it has on disk, no node knows more than the cost, and a node that
\* inserted the proposed block stored the cost it follows from that.
CostInv ==
    /\ head.time \in Times /\ head.cost \in 0..MaxUint64
    /\ node \in [Nodes -> NodeStates]
    /\ \A n \in Nodes : node[n].cost \in {Nil, node[n].disk}
    /\ \A n \in Up : KnownCost(n) <= head.cost /\ (~node[n].synced => KnownCost(n) = head.cost)
    /\ Proposed => ProposalIsChild
    /\ \A n \in Nodes : node[n].seen = "rejected" => Proposed /\ node[prop.by].synced /\ prop.by # n
    /\ \A n \in Up : node[n].seen = "inserted" =>
           /\ Proposed
           /\ node[n].propCost = NextCost(KnownCost(n), prop.block.time)
           /\ node[n].propDisk = node[n].propCost

AllowListHolders(b, k, role) == {a \in Accounts : b.world.pre[k].roles[a] = role}

\* While a precompile has no admin and no upgrade reconfigures it, nobody becomes
\* or stops being admin or manager, whatever the enabled accounts and managers
\* call.
OnlyAdminsPromote ==
    [][\A k \in Keys :
          /\ head' # head
          /\ GetActivatingPrecompileConfigs(sch, k, head.time, head'.time) = <<>>
          /\ AllowListHolders(head, k, "admin") = {}
          => \A role \in {"admin", "manager"} :
                 AllowListHolders(head', k, role) = AllowListHolders(head, k, role)]_vars

\* Every node in the network knows the block gas cost of the head.
ExtrasSurvive == \A n \in Up : KnownCost(n) = head.cost
=============================================================================
