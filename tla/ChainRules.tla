----------------------------- MODULE ChainRules -----------------------------
(* The rules that a block's header and state follow, and the nodes that have *)
(* to agree on them.  The chain is its accepted head and at most one proposed*)
(* child; prop is the proposed block, the tips and the call it contains and  *)
(* its builder.  Everything in a header travels with the block except the block gas*)
(* cost: each node keeps that in a side table in memory, keyed by hash, and  *)
(* writes it beside the block in the database.                               *)
(*                                                                           *)
(* node[n] is what node n holds: the side table's entry for the head (cost)  *)
(* and for the proposed block (propCost), what the database has of them      *)
(* (disk, propDisk), how far it got with the proposed block (seen), and      *)
(* whether it ever took its head from state sync (synced).  retro says that  *)
(* an operator changed upgrades that had taken effect; faults counts restarts*)
(* and changes.                                                              *)
EXTENDS Precompiles, FiniteSets

CONSTANTS
    Nodes,
    Schedules,      \* upgrade schedules an operator may configure
    GenesisTime,
    MaxTime,        \* bound: the last timestamp
    MaxNumber,      \* bound: the last block number
    MaxFaults,      \* bound: restarts, departures and changes of the schedule
    Gas,            \* gas a block may use
    Tips,           \* tips a block may pay, above the base fee
    Calls,          \* calls to precompiles a block may contain
    Etherbase       \* the address the builders would collect fees at

ASSUME ChainRulesAssumption ==
    /\ GenesisTime \in Nat /\ MaxTime \in Nat /\ GenesisTime <= MaxTime
    /\ Tips \subseteq Nat
    /\ \A call \in Calls :
          \/ call.op = "none"
          \/ call.op \in {"role", "fee", "reward"} /\ call.key \in Keys /\ call.caller \in Accounts

VARIABLES sch, head, prop, node, retro, faults

vars == <<sch, head, prop, node, retro, faults>>

NoBlock == <<>>
Proposed == prop # NoBlock
Times == GenesisTime..MaxTime

Up == {n \in Nodes : node[n].phase = "up"}

(***************************************************************************)
(* Reading the chain                                                       *)
(***************************************************************************)
\* GetFeeConfigAt, of a block whose stored configuration verifies
FeeConfigReadable(b) ==
    IsPrecompileEnabled(sch, "fee", b.time) =>
        b.world.pre["fee"].value # <<>> /\ Verify(b.world.pre["fee"].value[1])
GetFeeConfigAt(b) ==
    IF IsPrecompileEnabled(sch, "fee", b.time) THEN b.world.pre["fee"].value[1]
    ELSE ChainFeeConfig

\* GetCoinbaseAt: "allow", "burn" or an address; a reward manager whose state
\* is blank gives the zero address
GetCoinbaseAt(b) ==
    IF IsPrecompileEnabled(sch, "reward", b.time)
    THEN IF b.world.pre["reward"].value = <<>> THEN "zero" ELSE b.world.pre["reward"].value[1]
    ELSE IF AllowFeeRecipients THEN "allow" ELSE "burn"

\* GetHeaderExtra of the head, after restoreHeaderExtra
KnownCost(n) == IF node[n].cost # Nil THEN node[n].cost ELSE node[n].disk

(***************************************************************************)
(* Executing a block: the upgrades of its timestamp, then one call.  A call *)
(* is a record with op "none", "role" (key, caller, who, role), "fee" (key, *)
(* caller, fc) or "reward" (key, caller, to).                               *)
(***************************************************************************)
\* a precompile the rules do not hold has no code that runs
Run(call, time, number, pre) ==
    IF call.op = "none" \/ RuleConfigs(sch, call.key, time) = <<>> THEN pre
    ELSE [pre EXCEPT ![call.key] =
            CASE call.op = "role" -> SetRole(@, call.caller, call.who, call.role, time)
              [] call.op = "fee" -> setFeeConfig(@, call.caller, call.fc, number)
              [] call.op = "reward" -> setReward(@, call.caller, call.to)]

Execute(parent, time, call) ==
    LET up == ApplyUpgrades(sch, parent.time, time, parent.number + 1, parent.world)
    IN [up EXCEPT !.pre = Run(call, time, parent.number + 1, up.pre)]

MutHeaderCoinbase(parent) == Etherbase

\* the builder's own address only where the rules allow it
HeaderCoinbase(parent) ==
    IF GetCoinbaseAt(parent) = "allow" THEN Etherbase ELSE GetCoinbaseAt(parent)

\* The block that commitNewWork and FinalizeAndAssemble make of a parent.  cost
\* is the block gas cost the rules ask for, past the gas of the ancestors in
\* the window: neither is part of the block.
Child(parent, time, gas, call) ==
    LET fc == GetFeeConfigAt(parent)
    IN [number |-> parent.number + 1,
        time |-> time,
        gasLimit |-> Uint64(fc.gasLimit),
        baseFee |-> BaseFee(fc, parent, time),
        window |-> feeWindow(parent, time),
        coinbase |-> HeaderCoinbase(parent),
        gasUsed |-> gas,
        world |-> Execute(parent, time, call),
        cost |-> BlockGasCost(fc, parent, parent.cost, time),
        past |-> {p \in parent.past \cup
                      {[number |-> parent.number, time |-> parent.time, gas |-> parent.gasUsed]} :
                    p.time > time - WindowLen /\ p.number > 0}]

(***************************************************************************)
(* Building, parsing and verifying                                         *)
(***************************************************************************)
\* the check of the block fee, in FinalizeAndAssemble and in Finalize
Finalizes(baseFee, cost, tips) == verifyBlockFee(baseFee, cost, tips)

\* writeBlockWithState: the block goes to the database with its cost
Inserted(n, cost) ==
    [node[n] EXCEPT !.cost = KnownCost(n), !.propCost = cost, !.propDisk = cost, !.seen = "inserted"]

\* buildBlock, and the engine's Verify that follows
Build(n) ==
    /\ n \in Up
    /\ ~Proposed
    /\ head.number < MaxNumber
    /\ FeeConfigReadable(head)
    /\ \E time \in head.time..MaxTime, gas \in Gas, tips \in Tips, call \in Calls :
         LET fc == GetFeeConfigAt(head)
             cost == BlockGasCost(fc, head, KnownCost(n), time)
         IN /\ ~BaseFeePanics(fc, head, time)
            /\ gas <= Uint64(fc.gasLimit)
            /\ LET b == Child(head, time, gas, call)
               IN /\ Finalizes(b.baseFee, cost, tips)
                  /\ prop' = [block |-> b, tips |-> tips, call |-> call, by |-> n]
            /\ node' = [node EXCEPT ![n] = Inserted(n, cost)]
    /\ UNCHANGED <<sch, head, retro, faults>>

\* verifyHeaderGasFields, verifyCoinbase, Finalize and the state root
VerifyHeader(n, cost) ==
    LET b == prop.block
        fc == GetFeeConfigAt(head)
        coinbase == GetCoinbaseAt(head)
        expected == BlockGasCost(fc, head, KnownCost(n), b.time)
    IN /\ b.gasUsed <= Uint64(fc.gasLimit)
       /\ b.gasLimit = Uint64(fc.gasLimit)
       /\ b.window = feeWindow(head, b.time)
       /\ b.baseFee = BaseFee(fc, head, b.time)
       /\ Larger(0, cost) = expected
       /\ coinbase = "allow" \/ b.coinbase = coinbase
       /\ b.time >= head.time
       /\ b.number = head.number + 1
       /\ Finalizes(b.baseFee, cost, prop.tips)
       /\ b.world = Execute(head, b.time, prop.call)

\* UnmarshalBlock works the cost out again from the parent, and Verify checks
\* the block against it.  A node without the parent has no cost, and
\* syntacticVerify refuses the block.
Receive(n) ==
    /\ Proposed
    /\ node[n].seen = "none"
    /\ \/ /\ n \in Up
          /\ FeeConfigReadable(head)
          /\ LET cost == BlockGasCost(GetFeeConfigAt(head), head, KnownCost(n), prop.block.time)
             IN node' = [node EXCEPT ![n] = IF VerifyHeader(n, cost) THEN Inserted(n, cost)
                                            ELSE [@ EXCEPT !.cost = KnownCost(n),
                                                           !.propCost = cost,
                                                           !.seen = "rejected"]]
       \/ /\ node[n].phase = "syncing"
          /\ node' = [node EXCEPT ![n].seen = "refused"]
    /\ UNCHANGED <<sch, head, prop, retro, faults>>

\* The proposed block is accepted when more of the nodes in the network took it
\* than turned it down; those that turned it down cannot follow.
Accept ==
    LET for == {n \in Up : node[n].seen = "inserted"}
        against == {n \in Up : node[n].seen = "rejected"}
    IN /\ Proposed
       /\ Up = for \cup against
       /\ Cardinality(for) > Cardinality(against)
       /\ head' = prop.block
       /\ prop' = NoBlock
       /\ node' = [n \in Nodes |->
                     IF n \in for
                     THEN [node[n] EXCEPT !.cost = node[n].propCost, !.disk = node[n].propDisk,
                                          !.propCost = Nil, !.propDisk = Nil, !.seen = "none"]
                     ELSE [node[n] EXCEPT !.phase = IF n \in against THEN "gone" ELSE @,
                                          !.propCost = Nil, !.propDisk = Nil, !.seen = "none"]]
       /\ UNCHANGED <<sch, retro, faults>>

\* another block wins, or the proposer's was turned down
Reject ==
    /\ Proposed
    /\ prop' = NoBlock
    /\ node' = [n \in Nodes |-> [node[n] EXCEPT !.propCost = Nil, !.propDisk = Nil, !.seen = "none"]]
    /\ UNCHANGED <<sch, head, retro, faults>>

(***************************************************************************)
(* Restarts, state sync and changes of the schedule                        *)
(***************************************************************************)
Fault == faults < MaxFaults /\ faults' = faults + 1

\* the side table is in memory only
Restarted(r) == [r EXCEPT !.cost = Nil, !.propCost = Nil, !.seen = "none"]

Restart(n) ==
    /\ n \in Up
    /\ node' = [node EXCEPT ![n] = Restarted(@)]
    /\ Fault
    /\ UNCHANGED <<sch, head, prop, retro>>

Leave(n) ==
    /\ n \in Up /\ Up # {n}
    /\ node' = [node EXCEPT ![n] = [Restarted(@) EXCEPT !.phase = "gone", !.disk = Nil,
                                                         !.propDisk = Nil]]
    /\ Fault
    /\ UNCHANGED <<sch, head, prop, retro>>

StartSync(n) ==
    /\ node[n].phase = "gone"
    /\ node' = [node EXCEPT ![n].phase = "syncing"]
    /\ UNCHANGED <<sch, head, prop, retro, faults>>

\* syncBlocks and finishSync: the blocks are written without their cost
FinishSync(n) ==
    /\ node[n].phase = "syncing"
    /\ head.number > 0
    /\ node' = [node EXCEPT ![n] = [@ EXCEPT !.phase = "up", !.cost = Nil, !.disk = Nil,
                                             !.seen = "none", !.synced = TRUE]]
    /\ UNCHANGED <<sch, head, prop, retro, faults>>

\* Every node restarts with other upgrade bytes.  The start verifies them, and
\* does not compare them with what already took effect: retro says they differ.
ChangeSchedule(s) ==
    /\ ~Proposed
    /\ s # sch
    /\ s.genesis = sch.genesis
    /\ verifyPrecompileUpgrades(s) /\ verifyStateUpgrades(s)
    /\ sch' = s
    /\ retro' = (retro \/ ~checkConfigCompatible(sch, s, head.time))
    /\ node' = [n \in Nodes |-> IF n \in Up THEN Restarted(node[n]) ELSE node[n]]
    /\ Fault
    /\ UNCHANGED <<head, prop>>

(***************************************************************************)
(* The specification                                                       *)
(***************************************************************************)
\* Genesis.toBlock: precompiles active at the genesis time are configured,
\* state upgrades are not applied.
Genesis(s) ==
    [number |-> 0, time |-> GenesisTime, gasLimit |-> Uint64(ChainFeeConfig.gasLimit),
     baseFee |-> ChainFeeConfig.minBaseFee, window |-> EmptyWindow, coinbase |-> "burn",
     gasUsed |-> 0, cost |-> 0, past |-> {},
     world |-> [pre |-> ApplyPrecompileActivations(s, Nil, GenesisTime, 0, [k \in Keys |-> Blank]),
                patched |-> [t \in Times |-> 0]]]

Init ==
    /\ sch \in {s \in Schedules : verifyPrecompileUpgrades(s) /\ verifyStateUpgrades(s)}
    /\ head = Genesis(sch)
    /\ prop = NoBlock
    /\ node = [n \in Nodes |-> [phase |-> "up", cost |-> 0, disk |-> 0, propCost |-> Nil,
                                propDisk |-> Nil, seen |-> "none", synced |-> FALSE]]
    /\ retro = FALSE
    /\ faults = 0

Next ==
    \/ \E n \in Nodes : Build(n)
    \/ \E n \in Nodes : Receive(n)
    \/ Accept
    \/ Reject
    \/ \E n \in Nodes : Restart(n)
    \/ \E n \in Nodes : Leave(n)
    \/ \E n \in Nodes : StartSync(n)
    \/ \E n \in Nodes : FinishSync(n)
    \/ \E s \in Schedules : ChangeSchedule(s)

Spec == Init /\ [][Next]_vars
=============================================================================
