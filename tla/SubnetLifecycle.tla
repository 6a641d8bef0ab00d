--------------------------- MODULE SubnetLifecycle ---------------------------
(***************************************************************************)
(* One subnet actor (src/subnet-actor/src/lib.rs) and the registry entry  *)
(* its parent gateway (src/gateway/src/lib.rs) keeps for it.  Validators  *)
(* call Join, Leave and Kill on the subnet actor; each of these calls the *)
(* gateway (Register, AddStake, ReleaseStake, Kill) after its state       *)
(* transaction.  A user's Fund at the gateway pays CROSS_MSG_FEE to the   *)
(* subnet through the subnet actor's Reward.                              *)
(*                                                                         *)
(* A top-level call and every send it makes run to completion as one     *)
(* step, and an error in any send reverts the whole call tree: a failing *)
(* call is a step that cannot be taken.  Token transfers that come with a *)
(* call move between the balances vbal, ubal, saBal and gwBal.            *)
(***************************************************************************)
EXTENDS Integers, FiniteSets, Functions

CONSTANTS
    Validators,   \* addresses that may Join the subnet
    User,         \* a signable address calling Fund at the gateway
    MinStake,     \* MIN_COLLATERAL_AMOUNT
    FEE,          \* CROSS_MSG_FEE
    JoinAmounts,  \* values attached to Join
    FundValues,   \* values attached to Fund
    InitBal,      \* initial wallet of every validator and of the user
    NoSubnet      \* model value: no registry entry at the gateway

Statuses == {"Instantiated", "Active", "Inactive", "Terminating", "Killed"}

VARIABLES
    vbal,         \* vbal[v]: wallet of validator v
    ubal,         \* wallet of User
    stakeTable,   \* subnet actor: stake_table
    validatorSet, \* subnet actor: validator_set (its order is never read)
    totalStake,   \* subnet actor: total_stake
    status,       \* subnet actor: status
    saBal,        \* subnet actor's balance (rt.current_balance)
    reg,          \* gateway: the Subnet entry [stake, status, circ], or NoSubnet
    gwBal         \* gateway's balance

vars == <<vbal, ubal, stakeTable, validatorSet, totalStake, status, saBal, reg, gwBal>>

(* State::mutate_state of the subnet actor: the status follows the stake *)
(* except once Terminating or Killed.                                     *)
MutateState(st, total) ==
    CASE st \in {"Instantiated", "Inactive"} /\ total >= MinStake -> "Active"
      [] st = "Active" /\ total < MinStake -> "Inactive"
      [] OTHER -> st

(* Gateway status of a registered subnet with the given stake.            *)
GwStatus(stake) == IF stake >= MinStake THEN "Active" ELSE "Inactive"

(***************************************************************************)
(* The gateway handlers, as called by the subnet actor with value val.    *)
(* Each says what the gateway's registry entry and balance become and     *)
(* fails (is FALSE) where the handler returns an error.                   *)
(***************************************************************************)
GwRegister(val) ==
    /\ reg = NoSubnet
    /\ reg' = [stake |-> val, status |-> GwStatus(val), circ |-> 0]
    /\ gwBal' = gwBal + val

GwAddStake(val) ==
    /\ val > 0
    /\ reg # NoSubnet
    /\ reg' = [reg EXCEPT !.stake = reg.stake + val, !.status = GwStatus(reg.stake + val)]
    /\ gwBal' = gwBal + val

(* ReleaseStake sends val back to the subnet actor, not to a validator.   *)
GwReleaseStake(val) ==
    /\ val > 0
    /\ reg # NoSubnet
    /\ reg.stake >= val
    /\ gwBal >= val
    /\ reg' = [reg EXCEPT !.stake = reg.stake - val, !.status = GwStatus(reg.stake - val)]
    /\ gwBal' = gwBal - val

GwKill ==
    /\ reg # NoSubnet
    /\ gwBal >= reg.stake
    /\ reg.circ = 0
    /\ reg' = NoSubnet
    /\ gwBal' = gwBal - reg.stake

(***************************************************************************)
(* Actor::join by validator v with value amt.  The stake is credited, and *)
(* the message to the gateway is chosen from the status before            *)
(* mutate_state: while Instantiated, Register with the whole stake once   *)
(* it reaches MinStake and nothing before; otherwise AddStake(amt).       *)
(***************************************************************************)
Join(v, amt) ==
    LET total == totalStake + amt IN
    /\ amt # 0
    /\ vbal[v] >= amt
    /\ vbal' = [vbal EXCEPT ![v] = @ - amt]
    /\ stakeTable' = [stakeTable EXCEPT ![v] = @ + amt]
    /\ validatorSet' = validatorSet \cup {v}
    /\ totalStake' = total
    /\ status' = MutateState(status, total)
    /\ IF status = "Instantiated"
         THEN IF total >= MinStake
                THEN GwRegister(total) /\ saBal' = saBal + amt - total
                ELSE UNCHANGED <<reg, gwBal>> /\ saBal' = saBal + amt
         ELSE GwAddStake(amt) /\ saBal' = saBal
    /\ UNCHANGED ubal

(* Mutant: ReleaseStake sent only while the subnet is Active.             *)
LeaveReleasesOnlyWhenActive(v) ==
    LET stake == stakeTable[v] IN
    /\ stake # 0
    /\ IF status = "Active"
         THEN GwReleaseStake(stake) /\ saBal' = saBal + stake
         ELSE UNCHANGED <<reg, gwBal, saBal>>
    /\ stakeTable' = [stakeTable EXCEPT ![v] = 0]
    /\ validatorSet' = validatorSet \ {v}
    /\ totalStake' = totalStake - stake
    /\ status' = MutateState(status, totalStake - stake)
    /\ UNCHANGED <<vbal, ubal>>

(***************************************************************************)
(* Actor::leave by validator v: it must hold stake; unless Terminating,   *)
(* ReleaseStake(stake) goes to the gateway, which pays the stake to the   *)
(* subnet actor; the stake is removed from the table and the validator    *)
(* from the set.                                                          *)
(***************************************************************************)
Leave(v) ==
    LET stake == stakeTable[v] IN
    /\ stake # 0
    /\ IF status # "Terminating"
         THEN GwReleaseStake(stake) /\ saBal' = saBal + stake
         ELSE UNCHANGED <<reg, gwBal, saBal>>
    /\ stakeTable' = [stakeTable EXCEPT ![v] = 0]
    /\ validatorSet' = validatorSet \ {v}
    /\ totalStake' = totalStake - stake
    /\ status' = MutateState(status, totalStake - stake)
    /\ UNCHANGED <<vbal, ubal>>

(***************************************************************************)
(* Actor::kill: the subnet actor's balance must be zero, the subnet not   *)
(* already Terminating or Killed, and every validator gone; it becomes    *)
(* Terminating and the gateway's Kill returns the remaining stake.        *)
(***************************************************************************)
Kill ==
    /\ saBal = 0
    /\ status \notin {"Terminating", "Killed"}
    /\ validatorSet = {} /\ totalStake = 0
    /\ status' = "Terminating"
    /\ GwKill
    /\ saBal' = reg.stake
    /\ UNCHANGED <<vbal, ubal, stakeTable, validatorSet, totalStake>>

(* Mutant: the per-validator share rounded up instead of down.           *)
RewardRoundsUp(fee) ==
    LET n == Cardinality(validatorSet)
        share == (fee + n - 1) \div n IN
    /\ fee # 0
    /\ validatorSet # {}
    /\ vbal' = [v \in Validators |-> IF v \in validatorSet THEN vbal[v] + share ELSE vbal[v]]
    /\ saBal' = saBal + fee - share * n

(***************************************************************************)
(* Actor::reward called by the gateway with fee: every validator gets     *)
(* floor(fee / |validator_set|); the remainder stays with the actor.      *)
(***************************************************************************)
Reward(fee) ==
    LET share == fee \div Cardinality(validatorSet) IN
    /\ fee # 0
    /\ validatorSet # {}
    /\ vbal' = [v \in Validators |-> IF v \in validatorSet THEN vbal[v] + share ELSE vbal[v]]
    /\ saBal' = saBal + fee - share * Cardinality(validatorSet)

(* Mutant: circ_supply counts the value before the fee is taken.        *)
FundCountsGross(val) ==
    /\ val > FEE
    /\ ubal >= val
    /\ reg # NoSubnet
    /\ ubal' = ubal - val
    /\ reg' = [reg EXCEPT !.circ = @ + val]
    /\ gwBal' = gwBal + val - FEE
    /\ Reward(FEE)
    /\ UNCHANGED <<stakeTable, validatorSet, totalStake, status>>

(***************************************************************************)
(* Actor::fund at the gateway by User with value val for this subnet: the *)
(* fee is taken from the value (value must exceed it), the rest is        *)
(* committed top-down and counted in circ_supply, and the fee goes to the *)
(* subnet actor's Reward.                                                 *)
(***************************************************************************)
Fund(val) ==
    /\ val > FEE
    /\ ubal >= val
    /\ reg # NoSubnet
    /\ ubal' = ubal - val
    /\ reg' = [reg EXCEPT !.circ = @ + (val - FEE)]
    /\ gwBal' = gwBal + val - FEE
    /\ Reward(FEE)
    /\ UNCHANGED <<stakeTable, validatorSet, totalStake, status>>

Init ==
    /\ vbal = [v \in Validators |-> InitBal]
    /\ ubal = InitBal
    /\ stakeTable = [v \in Validators |-> 0]
    /\ validatorSet = {}
    /\ totalStake = 0
    /\ status = "Instantiated"
    /\ saBal = 0
    /\ reg = NoSubnet
    /\ gwBal = 0

(***************************************************************************)
(* Kill is not a disjunct: it needs the actor's balance at zero and the   *)
(* subnet registered, but registering needs a Join up to MinStake, and    *)
(* emptying the validator set needs a Leave, which leaves the released    *)
(* stake in the actor's balance for good.  No reachable state enables it  *)
(* (the released stake of run life_stake_lost is what blocks it).        *)
(***************************************************************************)
Next ==
    \/ \E v \in Validators, amt \in JoinAmounts : Join(v, amt)
    \/ \E v \in Validators : Leave(v)
    \/ \E val \in FundValues : Fund(val)

Spec == Init /\ [][Next]_vars

-----------------------------------------------------------------------------
TypeOK ==
    /\ vbal \in [Validators -> Nat] /\ ubal \in Nat
    /\ stakeTable \in [Validators -> Nat]
    /\ validatorSet = {v \in Validators : stakeTable[v] > 0}
    /\ totalStake = SumFunction(stakeTable)
    /\ status \in Statuses
    /\ saBal \in Nat /\ gwBal \in Nat
    /\ reg \in {NoSubnet} \cup [stake : Nat, status : {"Active", "Inactive"}, circ : Nat]

(***************************************************************************)
(* The gateway's registry agrees with the subnet actor: the subnet is     *)
(* registered exactly while the actor is past Instantiated and not yet    *)
(* Terminating, and then the gateway's stake is the actor's total_stake   *)
(* and both call it Active at the same time.  Join, Leave and Kill each   *)
(* change the two sides through a different message (Register with the   *)
(* accumulated stake, AddStake, ReleaseStake, Kill), so a wrong choice of *)
(* message in any one status breaks it several calls later.               *)
(***************************************************************************)
RegistryAgrees ==
    IF reg = NoSubnet
      THEN status \in {"Instantiated", "Terminating"}
      ELSE /\ status \in {"Active", "Inactive"}
           /\ reg.stake = totalStake
           /\ (reg.status = "Active") <=> (status = "Active")

(***************************************************************************)
(* spec.md 4.1: ReleaseStake "returns v to the caller".  A validator's    *)
(* wallet plus the stake it holds in the subnet never falls below what it *)
(* started with: leaving gives the stake back.                            *)
(***************************************************************************)
ValidatorKeepsStake ==
    \A v \in Validators : vbal[v] + stakeTable[v] >= InitBal

(***************************************************************************)
(* A validator with stake can always leave (Actor::leave): whatever the   *)
(* subnet's status, the call succeeds.                                    *)
(***************************************************************************)
LeaveAlwaysPossible ==
    \A v \in Validators : stakeTable[v] > 0 => ENABLED Leave(v)

(***************************************************************************)
(* The gateway's balance is exactly what it holds for this subnet: the    *)
(* collateral the subnet actor moved in with Register and AddStake, less  *)
(* what ReleaseStake paid back, plus the circ_supply that Fund froze      *)
(* (value minus CROSS_MSG_FEE, the fee leaving at once through Reward).   *)
(* Register moves the stake accumulated while Instantiated out of the     *)
(* actor's own balance, so a wrong amount in any transfer breaks it.      *)
(***************************************************************************)
GatewayHoldsStakeAndSupply ==
    gwBal = IF reg = NoSubnet THEN 0 ELSE reg.stake + reg.circ

====
