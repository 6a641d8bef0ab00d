# TLA+ models of ipc-actors

TLA+ models of the two actors in `src/`: the IPC **gateway**
(`src/gateway/src/lib.rs`) and the **subnet actor**
(`src/subnet-actor/src/lib.rs`). Together they move tokens and messages
through a tree of subnets. Each module is written from the handlers in
`src/`. The helpers those handlers call (`state.rs`, `cross.rs`,
`subnet.rs`, the `ipc_sdk` SubnetID code) are not in the repository. They
are modelled from `spec.md` and marked `spec_modelled` in `PROJECT.json`.

## 1. Inventory

### Components and their state

| Component | Code | State it keeps | Operations that change state |
|---|---|---|---|
| Identifier model | ipc_sdk (not in repo) | none: SubnetID is a path from the root | `parent`, `down`, `common_parent`, `apply_type` (pure) |
| Gateway subnet registry | gateway `register`, `add_stake`, `release_stake`, `kill` (lib.rs 84-266) | per child: `stake`, `status`, `circ_supply`, `prev_checkpoint`, `topdown_nonce` | Register, AddStake, ReleaseStake, Kill |
| Gateway checkpoint ledger | `commit_child_check` (268-392) | window checkpoints per epoch (child checks, cross-msg bundle), stored bottom-up messages | CommitChildCheckpoint |
| Gateway cross-message engine | `fund`, `release`, `send_cross`, `apply_msg`, `whitelist_propagator`, `propagate`, `commit_cross_message` (394-872) | per-child top-down queues and nonces, the window's bottom-up bundle, `nonce`, `applied_topdown_nonce`, `applied_bottomup_nonce`, the postbox | Fund, Release, SendCross, ApplyMessage, WhiteListPropagator, Propagate |
| Subnet actor validator book | `join`, `leave`, `kill` (subnet-actor 90-237) | `stake_table`, `validator_set`, `total_stake`, `status` | Join, Leave, Kill (each may call the gateway) |
| Subnet actor vote tally | `submit_checkpoint` (239-319) | votes per checkpoint cid, committed checkpoints | SubmitCheckpoint (may call CommitChildCheckpoint) |
| Subnet actor rewards | `reward` (321-354) | none (sends) | Reward, called by the gateway with a fee |
| Glue | constructors, `actor_dispatch!`, trampoline | initial state only | — |

### How the components interact

- **Calls.** The subnet actor calls the gateway of its parent network:
  Register or AddStake from Join, ReleaseStake from Leave, Kill from Kill,
  and CommitChildCheckpoint when a checkpoint reaches quorum. The gateway
  calls back into the subnet actor with Reward, which carries
  cross-message fees. It calls the reward actor to mint tokens for
  top-down messages and the burnt-funds actor for bottom-up messages.
- **Messages between networks.** A *top-down* message is committed to the
  parent gateway's queue for a child. The child's system actor then applies
  it with ApplyMessage. A *bottom-up* message goes into the bundle of the
  child gateway's current window. The bundle reaches the parent inside the
  child's checkpoint, through SubmitCheckpoint and then
  CommitChildCheckpoint. The parent's system actor then applies each
  message. When a message is only passing through a network, ApplyMessage
  parks it in that gateway's postbox. An owner of the parked item must
  later call Propagate, and pay the fee, to send it on.
- **Atomicity.** The runtime runs one top-level message at a time. An
  error anywhere in the call tree reverts the whole call, including a
  failing `rt.send` made after the `rt.transaction`. So a handler
  together with its sub-calls is one atomic step, and a failing handler
  is a step that cannot be taken.

### What is hard

- **Ordering across networks.** Nonces are assigned at the parent and
  checked at the child. Pass-through messages are parked without a nonce
  step, and the nonce is bumped later in `commit_cross_message`.
- **Supply accounting across networks.** `circ_supply` at the parent must
  track tokens minted, burnt and still in flight below it. Fees are taken
  at one network and paid out at another.
- **Multi-party sequences.** Whitelisting and propagation by several
  owners. Votes from validators whose stake changes between votes.
  Join, Leave and Kill calls that must agree with the gateway registry.
- **Boundaries.** Fee against value. Floor division of rewards. The
  2/3 quorum threshold. The epoch comparison for checkpoints.

### Properties that make each component correct

- Cross-message engine:
  - the parent's `circ_supply` of each child equals the child's supply
    plus the value in flight;
  - no message is delivered twice;
  - messages delivered in order are accepted, and the applied nonce never
    runs ahead of the parent's queue;
  - each gateway's balance covers what it owes.
- Checkpoint ledger: the epochs of committed child checkpoints strictly
  increase, and `circ_supply` never underflows when a bundle is released.
- Registry and validator book:
  - the gateway's `stake` for a subnet equals the subnet actor's
    `total_stake`;
  - a subnet is Active exactly when its stake reaches the minimum;
  - a validator with stake can always leave;
  - a subnet whose validators have all left can be killed;
  - the gateway's balance is exactly the subnet's stake plus its
    `circ_supply`.
- Vote tally:
  - at most one checkpoint is committed per epoch;
  - a checkpoint is committed only with 2/3 of the stake voting for it;
  - no validator's vote counts twice.

The hazards, each tied to the line where it bites, are listed in
`PROJECT.json` under `hazards`.

## 2. Plan

Modules are listed in order of importance. All five items are built.

1. **`CrossNet`** (built): the gateway cross-message engine over a
   hierarchy of gateways. It covers Fund, Release, SendCross,
   ApplyMessage (fed by the system actor from each queue, in order),
   WhiteListPropagator, Propagate, and the cross-message part of
   CommitChildCheckpoint.
2. **`ChildCheckpoint`** (built): the gateway's `commit_child_check` with all its
   checks, for arbitrary checkpoints from a subnet actor. Checks: epochs
   strictly increase (the spec's invariant; a violation is expected at
   lib.rs:315), and `circ_supply` never underflows.
3. **`SubnetLifecycle`** (built): the subnet actor's Join, Leave, Kill and Reward,
   composed with the gateway's Register, AddStake, ReleaseStake and Kill
   that they call. Checks:
   - the gateway's stake equals the actor's `total_stake`;
   - status matches stake;
   - the gateway's balance is its stake plus `circ_supply`;
   - a validator can always leave, and keeps its stake.
4. **`CheckpointVoting`** (built): SubmitCheckpoint with stake-weighted 2/3
   quorum, and Join/Leave interleaved between votes. It composes with
   `SubnetLifecycle` (Join, Leave and the gateway's registry entry).
   The gateway's chain checks stay in `ChildCheckpoint`.
5. **Liveness in `CrossNet`** (built): with weak fairness on the system actor and
   on checkpoint commits only, every queued message should eventually be
   applied or parked. On the chain, a message can be held up forever by
   an unpropagated one (`cross_stuck`).

Not built (see section 4): a joint model of `CrossNet` and
`SubnetLifecycle`, and cross-message bundles in `CheckpointVoting`.

## 3. Modules and how they map to the code

### `CrossNet` (`src/gateway/src/lib.rs`)

The constants fix the hierarchy `Nets`, a set of SubnetIDs written as
sequences. Every non-root subnet is registered and Active at its parent,
holding `StakeAmt` collateral.

State: each gateway's view is spread over functions indexed by network
(`gw`, `appliedTD`, `window`, `windowFee`, `buQueue`, `postbox`) or by
child (`circ`, `tdNonce`, `tdQueue`, which are fields of the registry
entry the parent holds). `bal`, `burnt` and `rewards` track where tokens
are at each network. `tdApplied` and `buApplied` are the system actor's
position in the queues it delivers. `delivered` counts how often each
originated message reached its recipient.

| Action | Code |
|---|---|
| `Fund(n,u,dest,v)` | `fund`: fee from value, `commit_topdown_msg`, fee to validators |
| `Release(n,u,v)` | `release`: fee, `commit_bottomup_msg`, burn of value minus fee |
| `SendCross(n,a,dest,r,v)` | `send_cross`, through `CommitCrossMessage` = `commit_cross_message` + `cross_msg_side_effects` |
| `ApplyMessage(n,m)` via `ApplyTopDown(c)` and `ApplyBottomUp(n)` | `apply_msg`: mint, nonce check and bump, send, or park in the postbox |
| `WhiteListPropagator(n,it,caller,x)` | `whitelist_propagator` |
| `Propagate(n,it,caller)` | `propagate`: fee, `commit_cross_message`, remove from the postbox, side effects, remainder returned |
| `CommitChildCheckpoint(c)` | `commit_child_check`: store the bundle, `release_supply`, fee to the child's validators |

Abstractions:

- Messages carry an id, `from` and `to` as (subnet, raw address), a value
  and a nonce. Method and params are left out, because `apply_msg` hands
  them to the recipient without looking at them. The `wrapped` flag has no
  behaviour in the code.
- `collect_cross_fee` rejects a value that is not above the fee, as the
  spec says.
- Propagate's caller attaches more than the fee and gets the rest back,
  so its net cost is exactly the fee.
- The bottom-up nonce check inside `bottomup_state_transition` is left
  out. The code in `src/` does not say how bottom-up nonces are assigned
  when several children commit to one parent, and the spec does not say
  either. The system actor applies stored bottom-up messages in the order
  they were stored.
- A checkpoint without cross-messages does not change this module's state.
  The checkpoint-chain checks of `commit_child_check` are the subject of
  `ChildCheckpoint`. Here the child's window is cut when its checkpoint is
  committed.
- When an ApplyMessage fails (wrong nonce, or not enough balance for the
  send), the message stays next in line for the system actor.

`ApplyType(m, n)` is `StorableMsg::apply_type`, written from the spec
because `ipc_sdk` is not in the repository. A message is TopDown at `n`
when its destination is strictly below `n` and it did not come up from
below `n`. At the destination itself the spec's tie-break (spec.md 3 and
4.3.1) makes it BottomUp unless it came straight down from an ancestor
of `n`. A Fund arrival, whose `from` is the destination's parent, is
therefore applied TopDown with `applied_topdown_nonce`, as spec.md 8
scenario 2 says. A message from another branch, which turned at a common
parent, is applied BottomUp: `apply_msg` then mints nothing and pays the
value out of the gateway's own balance (lib.rs 628-641). Run
`cross_supply` shows what that does to `circ_supply`.

`Fund`'s fee goes through `distribute_crossmsg_fee` to the address
`subnet_actor()` of the destination. That is an address of the funding
network. For a grandchild destination it is not the subnet actor that
registered the subnet. `rewards[n]` counts the fee as paid out of the
gateway at `n`.

`GoesDown(n, m)` is the branch of `commit_cross_message`: down to the
child on the path, for a TopDown message or a BottomUp one at its nearest
common parent, or up in the window bundle. `RoutesFollowTree` checks the
routing helpers, which are written from the spec because `ipc_sdk` is not
in the repository. From every place a message is held (a child's top-down
queue, a window, a parent's bottom-up store, a postbox), `Route` follows
`GoesDown`, `Down` and `Parent` hop by hop. The route must end at the
destination, visit no network twice, and stay on the tree path between
source and destination. That path is given by an independent reference
definition, `TreePath`, built from the two ancestor sets.

### `ChildCheckpoint` (`src/gateway/src/lib.rs` 270-392)

`commit_child_check` as seen by the checkpoint chain of each child. The
children in `Subnets` are registered and Active. A subnet actor is any
actor implementing the trait, so a child may submit any checkpoint:
- any epoch in `1..MaxEpoch`;
- any content in `Data`;
- a bundle value in `BundleValues`;
- a `prev_check` that is empty or the cid of one of its committed
  checkpoints.

A cid is the checkpoint record itself, because content addressing makes
two cids equal exactly when the contents are equal.

State:

| Variable | What it holds |
|---|---|
| `prevCheck[s]` | `Subnet.prev_checkpoint` |
| `circ[s]` | `circ_supply` |
| `now` | `rt.curr_epoch` |
| `windowSrcs` | the sources already in the current window checkpoint |
| `committed[s]` | the history the properties read |

Actions:

| Action | What it models |
|---|---|
| `CommitChildCheck(caller, ch)` | the whole handler, its checks in code order: source is caller; with a previous checkpoint, epoch not older and `prev_check` equal to its cid; `release_supply` without underflow; `add_child_check` rejecting a second check from one source in a window; then the flushes |
| `AdvanceEpoch` | the parent's epoch moving on, which starts a fresh window |

The bundle's messages and fee are left to `CrossNet`.

### `SubnetLifecycle` (`src/subnet-actor/src/lib.rs`, gateway lib.rs 86-266 and 401-443)

This module covers one subnet actor and the registry entry its parent
gateway keeps for it.

Validators call the subnet actor:
- `Join(v, amt)` is `join`.
- `Leave(v)` is `leave`.
- `Kill` is `kill`.

Each of these ends in a call to the gateway:
- `GwRegister` is `register`.
- `GwAddStake` is `add_stake`.
- `GwReleaseStake` is `release_stake`.
- `GwKill` is `kill`.

Those calls run in the same atomic step. A gateway error, such as "not
registered", therefore makes the actor call impossible.

`Fund(val)` is the gateway's `fund` for this subnet. It adds the value
minus the fee to `circ_supply`, and its fee path calls `Reward(fee)`,
which is `reward`: floor division over the validator set, with the
remainder kept by the actor.

`MutateState` is the actor's status rule, taken from the spec:
- Instantiated or Inactive becomes Active at `MinStake`.
- Active becomes Inactive below `MinStake`.
- Terminating stays Terminating.

The gateway's status is Active exactly when its stake is at least
`MinStake`.

Balances:

| Variable | Whose balance |
|---|---|
| `vbal` | the validators' wallets |
| `ubal` | the user's wallet |
| `saBal` | the subnet actor (`rt.current_balance`) |
| `gwBal` | the gateway |

Every value attached to a call moves between these, so a token that is
lost shows up in one of them.

`GatewayHoldsStakeAndSupply` states the gateway's side of that
bookkeeping: its balance is the subnet's registered stake plus the
`circ_supply` that Fund froze.

`Kill` is defined but is not a disjunct of `Next`. No reachable state
enables it:
- the actor's balance would have to be zero while the subnet is
  registered;
- once anyone has joined, the only way to empty the validator set is a
  Leave, and a Leave parks the released stake in that balance for good.

This was checked with `~ENABLED Kill` as an invariant, up to wallets of
5 and Join amounts 1..3. The finding of run `life_stake_lost` is the
cause.

### `CheckpointVoting` (`src/subnet-actor/src/lib.rs` 244-319)

`CheckpointVoting` declares the variables of `SubnetLifecycle` and
reaches its Join and Leave through `LC == INSTANCE SubnetLifecycle`. To
those it adds:
- `votes[ch]`: the stored voters per checkpoint cid;
- `committed`: the checkpoints the actor flushed;
- `gwChecks`: the checkpoints the gateway accepted.

`SubmitCheckpoint(v, ch)` is `submit_checkpoint`. In order:
1. The caller must be a validator.
2. `VerifyCheckpoint` checks that the checkpoint is for the next epoch.
   It is taken from the spec, and the signature is assumed valid.
3. A repeated vote is rejected.
4. `HasMajorityVote`, taken from the spec, weighs the voters by their
   current stake against two thirds of the current `total_stake`.
5. Either the checkpoint is flushed, its votes dropped and
   `GwCommitChildCheck` called, or the vote is stored.

`GwCommitChildCheck` stands for the gateway's `commit_child_check`. It
requires the registry entry to exist and be Active, and records the
checkpoint. The gateway's epoch and `prev_check` checks are satisfied by
construction here, and `ChildCheckpoint` checks them separately.

### Runs

| Run | cfg | Result | What it shows |
|---|---|---|---|
| `cross_core` | `MC_CrossNet.cfg` | pass, about 142k distinct states | Over the tree /r, /r/a, /r/a/c, /r/b with one user, one actor and up to 3 originated messages, `DeliveredAtMostOnce` and `RoutesFollowTree` hold. The messages include parking, whitelisting, propagation, turning at a common parent, and checkpoint commits in every order. |
| `cross_nonce_ahead` | `MC_CrossNet_nonce_ahead.cfg` | violation | One `send_cross` from /r/a to /r/a/c puts /r/a's `applied_topdown_nonce` ahead of its parent's queue (lib.rs:862). From then on, every message /r queues for /r/a fails the nonce check. |
| `cross_solvency` | `MC_CrossNet_solvency.cfg` | violation | Fund twice, Release at /r/a, commit the checkpoint. /r pays the 1-token fee out of its locked balance (lib.rs:391), so it no longer covers collateral, circ_supply and the stored message. |
| `cross_supply` | `MC_CrossNet_supply.cfg` | violation | Fund /r→/r/b, then the actor sends from /r/a up to /r and from /r/b across to /r/a. /r/b's checkpoint is committed, /r applies the message and parks it, an owner propagates it, and /r turns it down to /r/a, adding 2 to /r/a's `circ_supply`. /r/a applies it as BottomUp: nothing is minted, and its gateway pays the 2 out of its collateral and a kept fee (lib.rs:628-641). `circ_supply` of /r/a now exceeds the tokens in /r/a by 2, and `SupplyTracked` fails. |
| `cross_stuck` | `MC_CrossNet_stuck.cfg` | violation | On the chain, with Fund only: Fund /r→/r/a/c, which /r/a parks, then Fund /r→/r/a. The second message fails the nonce check (lib.rs:667). The system actor retries it forever, and it is released only if an owner of the parked message pays for Propagate. |
| `ckpt_chain` | `MC_ChildCheckpoint.cfg` | pass, about 50k distinct states | Two children, two contents, epochs 1..2, bundle values 0..1, three parent windows: `prev_checkpoint` is always the last committed checkpoint, and `circ_supply` never underflows (`TypeOK`). |
| `ckpt_epoch` | `MC_ChildCheckpoint_epoch.cfg` | violation | A child commits epoch 1, the parent's epoch advances, and the child commits another epoch-1 checkpoint chained to the first. The `>` at lib.rs:315 accepts it, against the spec's strictly increasing epochs. |
| `life_registry` | `MC_SubnetLifecycle.cfg` | pass, about 227k distinct states; `GatewayHoldsStakeAndSupply` besides `RegistryAgrees` | Three validators joining (below, at and above `MinStake`) and leaving in any order, with Funds and rewards between: the gateway entry exists exactly while the actor is past Instantiated and not Terminating, its stake is the actor's `total_stake`, and both call the subnet Active at the same time. |
| `life_stake_lost` | `MC_SubnetLifecycle_stake.cfg` | violation | A validator joins and leaves; the shortest trace is Join 2 then Leave, and TLC may print another order of the same kind, such as two Joins of 1. The gateway releases the stake to the subnet actor, and the validator's wallet stays short of it (subnet-actor lib.rs:161, gateway :215). |
| `life_leave_stuck` | `MC_SubnetLifecycle_leave.cfg` | violation | Join 1 with `MinStake = 2`: the subnet is Instantiated and unregistered, and Leave's ReleaseStake is rejected by the gateway, so the validator cannot leave. |
| `vote_tally` | `MC_CheckpointVoting.cfg` | pass, about 660k distinct states | Three validators joining, leaving and voting on two contents for epochs 1 and 2 in any order: the vote sets, the committed checkpoints (at most one per epoch) and the registry stay well-formed (`TypeOK`). |
| `vote_stranded` | `MC_CheckpointVoting_stranded.cfg` | violation | v1 and v2 hold 1 each. v1 votes (1 of 2), then joins again with 1 (2 of 3). The stored vote now has two thirds, but `has_majority_vote` is evaluated only on a new vote (subnet-actor lib.rs:288). v1 cannot vote again, so the checkpoint waits for another validator. |
Bounds: `FEE = 1` and `Values = {3}`, so the value left after the fee is
non-zero and a second hop can still pay its fee. `MaxMsgs = 3` is enough
for a pass-through message plus a message behind it plus a bottom-up
withdrawal. The chain of three networks is the smallest with a network
that is both a parent and a child, which every pass-through case needs.
`cross_core` adds a sibling /r/b (`MC_TreeNets`): messages between the
branches climb through /r/a, turn at /r and go down to /r/b, so a
pass-through park, a turning point and a second child's queue all occur
in one behaviour. The violation runs keep the chain, where their
counterexamples are shortest.

`SubnetLifecycle` bounds: `MinStake = 2` and Join amounts {1, 2}, so a
Join can land below, at or above the threshold. `life_registry` has
three validators and `FEE = 2`, so Reward pays a share of 2, 1 or 0
with a remainder of 0 or 2, depending on how many validators are left.
Wallets of 6 allow repeated Joins and two Funds of 3. The violation runs
keep two validators, `FEE = 1` and wallets of 3, where their
counterexamples are shortest.

`CheckpointVoting` bounds: three validators, two contents and two
epochs. With three validators of equal stake two votes already make the
quorum, so a commit can leave a third validator's vote unused, and
competing cids of one epoch can each collect votes. Two epochs give a
second epoch after a commit. `vote_stranded` uses `MinStake = 1`, so the subnet stays Active
while stake changes.

`ChildCheckpoint` bounds: two epochs and two windows are the least for a
same-epoch commit in a later window. Two contents give forks of one
epoch, and two children interleave in one window.

Fairness: only `cross_stuck` assumes any, through `FairSpec`, which is
weak fairness on three actions:
- `ApplyTopDown(c)`: the system actor of every child applies what its
  parent queued, one message per block, in order.
- `ApplyBottomUp(n)`: the system actor applies the bottom-up messages
  that child checkpoints stored.
- `CommitChildCheckpoint(c)`: the validators of every child keep
  committing checkpoints. `vote_stranded` shows that a stranded quorum
  can hold this up, so the assumption is that validators keep voting.

Fund, Release, SendCross, WhiteListPropagator and Propagate get no
fairness. They are paid user actions, and nothing in the code makes a
user take them. All other runs check safety only.

`cross_stuck` uses `MC_RootGenesis`, where funds exist only at the root.
The safety runs' `MC_Genesis` gives the actor 3 tokens in every subnet
that are not in the parent's `circ_supply`. A release of those tokens
fails `release_supply` forever, which is a fact about that initial
state and not about the code.

No run checks `NoMessageStuck` as passing. On the fork /r, /r/a, /r/b
with funds only at the root, it held while a message from another branch
was classified TopDown at its destination. Under the spec's
classification it fails there as well: a send_cross from /r/a to /r/b
reaches /r/b as BottomUp, /r/b's gateway holds no balance to pay it, and
the system actor retries it forever, holding back every later message
/r queues for /r/b. This is the `cross_supply` finding seen as liveness.

`CHECK_DEADLOCK FALSE`: in `SubnetLifecycle` and `CheckpointVoting`
behaviours end when wallets are spent and the epochs used up. In
`ChildCheckpoint` behaviours end when the
parent's epoch reaches `MaxTime` and every child has committed in the
last window. In `CrossNet` every behaviour ends once `MaxMsgs` messages are
spent and the system actors have delivered all they can. The stuck
deliveries that matter are stated as properties.

## 4. Not modelled, and why

- Host runtime internals (caller types, address resolution, CBOR, the
  store) and reward minting policy. The mint is modelled only as tokens
  appearing in the gateway.
- Method numbers, dispatch and the wasm trampoline: generated glue.
- Signature checking inside `verify_checkpoint`: cryptography. A
  signature is assumed valid or the call fails.
- A joint model of `CrossNet` and `SubnetLifecycle`. The two meet at
  three points, and each is checked where it lives:
  - Fund's call to Reward, in `SubnetLifecycle` (the `Fund` action);
  - the Active check of `commit_child_check`, in `CheckpointVoting`;
  - the gateway's balance against stake and supply, in `SubnetLifecycle`
    (`GatewayHoldsStakeAndSupply`) and in `CrossNet` (`cross_solvency`).

  A joint model would let a subnet become Inactive while messages are in
  flight. Its checkpoints would then stop, and `NoMessageStuck` would
  fail for that reason alone, since the code lets validators leave. The
  product of the two state spaces is also far beyond the bounds used
  here.
- Cross-message bundles in `CheckpointVoting`. The vote does not look at
  the bundle. The bundle's value and fee are handled in `ChildCheckpoint`
  (`release_supply`) and in `CrossNet` (storage, fee).
- The bottom-up nonce check of `bottomup_state_transition`: its code is
  not in the repository, and the spec does not say how the nonces of
  several children are ordered. A message from another branch arrives
  BottomUp carrying the nonce its last parent stamped from
  `topdown_nonce`, so that check would compare it with the other
  counter; without the code this cannot be modelled faithfully.
- The reward remainder at subnet-actor:349 blocking `kill`. It cannot be
  observed: `kill` is already unreachable, because `leave` leaves the
  released stake in the actor's balance (run `life_stake_lost`).
  `TypeOK` of `SubnetLifecycle` checks the division itself: a share
  rounded up would pay out more than the fee (mutant `RewardRoundsUp`).
- Fund for a registered subnet whose validators have all left
  (subnet-actor:336). Reward then fails, and the runtime reverts the
  whole Fund, so the model's `Fund` is not enabled. The spec says only
  that the fee goes to the subnet's validators, not that Fund must work
  without any, so there is no stated behaviour to check the revert
  against. spec.md 7 says state committed before a failing send remains.
  That is not what the runtime does with a top-level message whose
  method returns an error, so the model follows the runtime.
- A refinement between an abstract and a detailed specification. The
  one candidate, vote tally against "one checkpoint per epoch, handed to
  the gateway in the same step", holds whatever the quorum rule
  computes. It said nothing about the code and was removed. The
  gateway's view of the same promise fails outright (`ckpt_epoch`).
- A passing check of the `prev_check` chain of committed checkpoints.
  It repeats the comparison at lib.rs:322 and the update that follows
  it. `TypeOK` of `ChildCheckpoint` keeps `prev_checkpoint` equal to the
  last committed checkpoint.
