----------------------------- MODULE Precompiles -----------------------------
(* The stateful precompiles whose state the chain rules read: the fee manager *)
(* and the reward manager, their allow lists, and the schedule of upgrades    *)
(* that enables and disables them.  A schedule has the genesis configuration  *)
(* of each precompile (time Nil when there is none), the precompile upgrades  *)
(* in order and the timestamps of the state upgrades.                         *)
EXTENDS FeeRules, Sequences, SequencesExt

CONSTANTS
    Accounts,            \* addresses that hold roles or receive rewards
    DurangoTime,         \* from here managers exist
    ChainFeeConfig,      \* ChainConfig.FeeConfig
    AllowFeeRecipients   \* ChainConfig.AllowFeeRecipients

ASSUME PrecompilesAssumption ==
    /\ DurangoTime \in Nat
    /\ Verify(ChainFeeConfig)
    /\ AllowFeeRecipients \in BOOLEAN

Keys == {"fee", "reward"}
IsDurango(time) == DurangoTime <= time

(***************************************************************************)
(* The schedule                                                            *)
(***************************************************************************)
isTimestampForked(s, head) == s # Nil /\ head # Nil /\ s <= head
IsForkTransition(fork, parent, current) ==
    ~isTimestampForked(fork, parent) /\ isTimestampForked(fork, current)

OfKey(sch, k) == SelectSeq(sch.upgrades, LAMBDA c : c.key = k)

GetActivatingPrecompileConfigs(sch, k, from, to) ==
    SelectSeq(<<sch.genesis[k]>> \o OfKey(sch, k),
              LAMBDA c : IsForkTransition(c.time, from, to))

IsPrecompileEnabled(sch, k, time) ==
    LET configs == GetActivatingPrecompileConfigs(sch, k, Nil, time)
    IN configs # <<>> /\ ~Last(configs).disable

\* GetExtrasRules: what the rules hold for a precompile, nothing or one
\* configuration.  A genesis configuration that no upgrade keeps disabled wins
\* over the upgrade that enabled the precompile again.
RuleConfigs(sch, k, time) ==
    LET applied == SelectSeq(OfKey(sch, k), LAMBDA c : c.time <= time)
        genesis == sch.genesis[k]
    IN IF applied # <<>> /\ Last(applied).disable THEN <<>>
       ELSE IF isTimestampForked(genesis.time, time) THEN <<genesis>>
       ELSE IF applied # <<>> THEN <<Last(applied)>> ELSE <<>>

GetActivatingStateUpgrades(sch, from, to) ==
    SelectSeq(sch.state, LAMBDA t : IsForkTransition(t, from, to))

\* AllowListConfig.Verify and the precompile's own Verify
VerifyConfig(c) ==
    /\ c.admins \cap c.enableds = {}
    /\ c.managers \cap (c.admins \cup c.enableds) = {}
    /\ c.managers # {} /\ c.time # Nil => IsDurango(c.time)
    /\ c.key = "fee" /\ c.init # <<>> => Verify(c.init[1])

\* The entry of the same precompile before upgrade i, the genesis one included,
\* which counts as enabling whatever it says.
Before(sch, i) ==
    LET earlier == {j \in 1..(i - 1) : sch.upgrades[j].key = sch.upgrades[i].key}
    IN IF earlier # {} THEN sch.upgrades[CHOOSE j \in earlier : \A l \in earlier : l <= j]
       ELSE [sch.genesis[sch.upgrades[i].key] EXCEPT !.disable = FALSE]

verifyPrecompileUpgrades(sch) ==
    /\ \A k \in Keys : VerifyConfig(sch.genesis[k])
    /\ \A i \in DOMAIN sch.upgrades :
         LET c == sch.upgrades[i]
             last == Before(sch, i)
         IN /\ c.time # Nil
            /\ i > 1 => sch.upgrades[i - 1].time <= c.time
            /\ c.disable = (last.time # Nil /\ ~last.disable)
            /\ last.time # Nil => last.time < c.time
            /\ VerifyConfig(c)

verifyStateUpgrades(sch) ==
    \A i \in DOMAIN sch.state :
        /\ sch.state[i] > 0
        /\ i > 1 => sch.state[i - 1] < sch.state[i]

\* Config.Equal.  A reward manager configuration without an initial reward
\* equals one with any.
ConfigEqual(c, d) ==
    /\ [c EXCEPT !.init = <<>>] = [d EXCEPT !.init = <<>>]
    /\ IF c.key = "reward" THEN c.init = <<>> \/ c.init = d.init ELSE c.init = d.init

\* checkConfigCompatible: at time, what took effect under sch took effect under
\* new as well, and nothing else did.
checkConfigCompatible(sch, new, time) ==
    /\ \A k \in Keys :
         LET old == GetActivatingPrecompileConfigs(sch, k, Nil, time)
             now == GetActivatingPrecompileConfigs(new, k, Nil, time)
         IN Len(old) = Len(now) /\ \A i \in DOMAIN old : ConfigEqual(old[i], now[i])
    /\ GetActivatingStateUpgrades(sch, Nil, time) = GetActivatingStateUpgrades(new, Nil, time)

(***************************************************************************)
(* The state of a precompile                                               *)
(***************************************************************************)
Blank == [marker |-> FALSE, roles |-> [a \in Accounts |-> "no"], value |-> <<>>, changed |-> 0]

InitialValue(k, c) ==
    IF c.init # <<>> THEN c.init
    ELSE IF k = "fee" THEN <<ChainFeeConfig>>
    ELSE IF AllowFeeRecipients THEN <<"allow">> ELSE <<"burn">>

\* Configure, on what the account holds already
Configure(k, st, c, number) ==
    [marker |-> TRUE,
     value |-> InitialValue(k, c),
     changed |-> IF k = "fee" THEN number ELSE 0,
     roles |-> [a \in Accounts |->
                   IF a \in c.managers THEN "manager"
                   ELSE IF a \in c.admins THEN "admin"
                   ELSE IF a \in c.enableds THEN "enabled" ELSE st.roles[a]]]

MutActivate(k, st, c, number) ==
    IF c.disable THEN [st EXCEPT !.marker = FALSE] ELSE Configure(k, st, c, number)

\* an upgrade that disables a precompile wipes its account
Activate(k, st, c, number) == IF c.disable THEN Blank ELSE Configure(k, st, c, number)

\* configurations are applied in order, each to what the ones before it left
ActivateAll(k, st, configs, number) ==
    FoldLeft(LAMBDA s, c : Activate(k, s, c, number), st, configs)

ApplyPrecompileActivations(sch, from, to, number, pre) ==
    [k \in Keys |->
        LET configs == GetActivatingPrecompileConfigs(sch, k, from, to)
        IN IF configs = <<>> THEN pre[k]
           ELSE Activate(k, ActivateAll(k, pre[k], Front(configs), number), Last(configs), number)]

\* patched counts how often the state upgrade of each timestamp was applied
applyStateUpgrades(sch, from, to, patched) ==
    [t \in DOMAIN patched |->
        patched[t] + Cardinality({i \in DOMAIN GetActivatingStateUpgrades(sch, from, to) :
                                     GetActivatingStateUpgrades(sch, from, to)[i] = t})]

\* both, in the order of ApplyUpgrades
ApplyUpgrades(sch, from, to, number, world) ==
    [pre |-> ApplyPrecompileActivations(sch, from, to, number, world.pre),
     patched |-> applyStateUpgrades(sch, from, to, world.patched)]

(***************************************************************************)
(* Calls to a precompile.  A call that fails leaves the state alone.       *)
(***************************************************************************)
IsEnabled(role) == role \in {"enabled", "admin", "manager"}

MutCanModify(role, from, target) ==
    \/ role = "admin"
    \/ role = "manager" /\ from \in {"enabled", "no"}

CanModify(role, from, target) ==
    \/ role = "admin"
    \/ role = "manager" /\ from \in {"enabled", "no"} /\ target \in {"enabled", "no"}

\* setAdmin, setManager, setEnabled, setNone
SetRole(st, caller, who, role, time) ==
    IF /\ role = "manager" => IsDurango(time)
       /\ CanModify(st.roles[caller], st.roles[who], role)
    THEN [st EXCEPT !.roles[who] = role] ELSE st

setFeeConfig(st, caller, fc, number) ==
    IF IsEnabled(st.roles[caller]) /\ Verify(fc)
    THEN [st EXCEPT !.value = <<fc>>, !.changed = number] ELSE st

\* setRewardAddress, allowFeeRecipients and disableRewards: reward is an
\* account, "allow" or "burn"
setReward(st, caller, reward) ==
    IF IsEnabled(st.roles[caller]) THEN [st EXCEPT !.value = <<reward>>] ELSE st
=============================================================================
