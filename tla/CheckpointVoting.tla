-------------------------- MODULE CheckpointVoting --------------------------
(***************************************************************************)
(* Actor::submit_checkpoint of the subnet actor (src/subnet-actor/src/    *)
(* lib.rs) composed with the validator book of SubnetLifecycle: votes are *)
(* stored per checkpoint cid and weighed by the voters' stake at the time *)
(* of each vote, while validators join and leave between votes.  A        *)
(* checkpoint that reaches the quorum is flushed by the actor and sent to *)
(* the gateway's CommitChildCheckpoint in the same atomic step.           *)
(*                                                                         *)
(* A checkpoint is [epoch, data], its cid the record itself.  Its         *)
(* prev_check is the previous committed checkpoint, so the gateway's      *)
(* epoch and prev_check checks (module ChildCheckpoint) hold for it; the  *)
(* gateway's remaining checks are that the subnet is registered and       *)
(* Active.  Fund and Reward are left out: they do not touch the votes.    *)
(***************************************************************************)
EXTENDS Integers, Sequences, FiniteSets, Functions

CONSTANTS Validators, User, MinStake, FEE, JoinAmounts, FundValues, InitBal, NoSubnet
CONSTANTS
    MaxEpoch,   \* checkpoints carry epochs 1..MaxEpoch
    Data        \* checkpoint contents other than the epoch

VARIABLES vbal, ubal, stakeTable, validatorSet, totalStake, status, saBal, reg, gwBal
VARIABLES
    votes,      \* votes[ch]: validators stored as voting for ch (empty: none stored)
    committed,  \* checkpoints flushed by the subnet actor, in order
    gwChecks    \* checkpoints the gateway accepted from this subnet, in order

lcVars == <<vbal, ubal, stakeTable, validatorSet, totalStake, status, saBal, reg, gwBal>>
voteVars == <<votes, committed, gwChecks>>
vars == <<lcVars, voteVars>>

LC == INSTANCE SubnetLifecycle

Checkpoints == [epoch : 1..MaxEpoch, data : Data]

(* State::has_majority_vote: the voters' current stake is at least two    *)
(* thirds of the current total_stake.                                     *)
HasMajorityVote(voters) ==
    3 * SumFunction(Restrict(stakeTable, voters)) >= 2 * totalStake

(* Mutant: the epoch check accepts the epoch just committed again.        *)
VerifyCheckpointRepeats(ch) == ch.epoch >= Len(committed)

(* State::verify_checkpoint, signature and source assumed valid: the      *)
(* checkpoint is for the next expected epoch.                             *)
VerifyCheckpoint(ch) == ch.epoch = Len(committed) + 1

(* The gateway's commit_child_check for this subnet's checkpoint.         *)
GwCommitChildCheck(ch) ==
    /\ reg # NoSubnet
    /\ reg.status = "Active"
    /\ gwChecks' = Append(gwChecks, ch)

(***************************************************************************)
(* Actor::submit_checkpoint by validator v with checkpoint ch.  The       *)
(* caller must be a validator, ch must verify, and v must not have voted  *)
(* for ch yet.  With v's vote the stored voters either reach the quorum:  *)
(* ch is flushed, its votes removed and CommitChildCheckpoint sent; or    *)
(* they do not, and the vote is stored.                                   *)
(***************************************************************************)
SubmitCheckpoint(v, ch) ==
    LET voters == votes[ch] \cup {v} IN
    /\ v \in validatorSet
    /\ VerifyCheckpoint(ch)
    /\ v \notin votes[ch]
    /\ IF HasMajorityVote(voters)
         THEN /\ committed' = Append(committed, ch)
              /\ votes' = [votes EXCEPT ![ch] = {}]
              /\ GwCommitChildCheck(ch)
         ELSE /\ votes' = [votes EXCEPT ![ch] = voters]
              /\ UNCHANGED <<committed, gwChecks>>
    /\ UNCHANGED lcVars

Init ==
    /\ LC!Init
    /\ votes = [ch \in Checkpoints |-> {}]
    /\ committed = <<>>
    /\ gwChecks = <<>>

Next ==
    \/ \E v \in Validators, amt \in JoinAmounts : LC!Join(v, amt) /\ UNCHANGED voteVars
    \/ \E v \in Validators : LC!Leave(v) /\ UNCHANGED voteVars
    \/ \E v \in Validators, ch \in Checkpoints : SubmitCheckpoint(v, ch)

Spec == Init /\ [][Next]_vars

-----------------------------------------------------------------------------
TypeOK ==
    /\ LC!TypeOK
    /\ votes \in [Checkpoints -> SUBSET Validators]
    /\ committed \in Seq(Checkpoints) /\ Len(committed) <= MaxEpoch
    /\ gwChecks \in Seq(Checkpoints)

(***************************************************************************)
(* spec.md 4.4: the first vote that crosses two thirds of the stake       *)
(* commits.  So a stored vote set for the next checkpoint of an Active    *)
(* subnet never already holds that quorum (has_majority_vote is only      *)
(* evaluated when a new vote arrives, line 288).                          *)
(***************************************************************************)
QuorumNeverStranded ==
    status = "Active" =>
        \A ch \in Checkpoints :
            (VerifyCheckpoint(ch) /\ votes[ch] # {}) => ~HasMajorityVote(votes[ch])
====
