--------------------------- MODULE ChildCheckpoint ---------------------------
(***************************************************************************)
(* The checkpoint ledger of one gateway: Actor::commit_child_check        *)
(* (src/gateway/src/lib.rs) as seen by the checkpoint chain of each       *)
(* registered child.  A subnet actor may be any actor implementing the    *)
(* SubnetActor trait, so the checkpoints it submits are arbitrary: any    *)
(* epoch, any content, and a prev_check that is either empty or the cid   *)
(* of a checkpoint the gateway already committed for it.                  *)
(*                                                                         *)
(* A checkpoint's cid is modelled by the checkpoint record itself:        *)
(* content addressing makes two checkpoints share a cid exactly when     *)
(* their contents are equal.  The cross-message bundle of a checkpoint    *)
(* is reduced to its value, released from the child's circ_supply; the   *)
(* rest of its handling is module CrossNet.                               *)
(***************************************************************************)
EXTENDS Integers, Sequences, FiniteSets, SequencesExt, Functions

CONSTANTS
    Subnets,    \* subnet actor addresses of the registered, Active children
    Data,       \* the content of a checkpoint other than source, epoch, prev
    MaxEpoch,   \* checkpoints carry epochs 1..MaxEpoch
    MaxTime,    \* bound on the gateway's own epoch (rt.curr_epoch)
    BundleValues, \* values of the cross-message bundles checkpoints carry
    CircInit,   \* circ_supply of every child at the start
    NoCheck     \* model value: prev_checkpoint / prev_check is empty

VARIABLES
    prevCheck,  \* prevCheck[s]: Subnet.prev_checkpoint of child s
    circ,       \* circ[s]: Subnet.circ_supply of child s
    now,        \* rt.curr_epoch, which selects the window checkpoint
    windowSrcs, \* sources of the child checks in the current window
    committed   \* committed[s]: checkpoints of s committed so far, in order

vars == <<prevCheck, circ, now, windowSrcs, committed>>

Cid(ch) == ch

(* Checkpoints child s can submit: prev_check is empty or names a         *)
(* checkpoint of s the gateway already holds.                            *)
Candidates(s) ==
    [source : {s}, epoch : 1..MaxEpoch, data : Data, value : BundleValues,
     prev : {NoCheck} \cup {Cid(c) : c \in Range(committed[s])}]

(* Mutant: release_supply subtracts without its underflow error.         *)
CommitChildCheckReleasesUnchecked(caller, ch) ==
    /\ ch.source = caller
    /\ prevCheck[caller] # NoCheck =>
          /\ ~(prevCheck[caller].epoch > ch.epoch)
          /\ ch.prev = Cid(prevCheck[caller])
    /\ caller \notin windowSrcs
    /\ circ' = [circ EXCEPT ![caller] = @ - ch.value]
    /\ windowSrcs' = windowSrcs \cup {caller}
    /\ prevCheck' = [prevCheck EXCEPT ![caller] = ch]
    /\ committed' = [committed EXCEPT ![caller] = Append(@, ch)]
    /\ UNCHANGED now

(***************************************************************************)
(* Actor::commit_child_check called by subnet actor caller with ch.  In   *)
(* order: the source must be the caller; the subnet must be registered    *)
(* and Active (all of Subnets are); with a previous checkpoint, ch must   *)
(* not be older and must name it as prev_check; the bundle's value is     *)
(* released from circ_supply (underflow is an error); add_child_check     *)
(* rejects a second check from the same source in this window; the        *)
(* window and the subnet are flushed with ch as prev_checkpoint.          *)
(***************************************************************************)
CommitChildCheck(caller, ch) ==
    /\ ch.source = caller
    /\ prevCheck[caller] # NoCheck =>
          /\ ~(prevCheck[caller].epoch > ch.epoch)
          /\ ch.prev = Cid(prevCheck[caller])
    /\ circ[caller] >= ch.value
    /\ caller \notin windowSrcs
    /\ circ' = [circ EXCEPT ![caller] = @ - ch.value]
    /\ windowSrcs' = windowSrcs \cup {caller}
    /\ prevCheck' = [prevCheck EXCEPT ![caller] = ch]
    /\ committed' = [committed EXCEPT ![caller] = Append(@, ch)]
    /\ UNCHANGED now

(* The parent's epoch advances; get_window_checkpoint now returns a fresh *)
(* window checkpoint.                                                     *)
AdvanceEpoch ==
    /\ now < MaxTime
    /\ now' = now + 1
    /\ windowSrcs' = {}
    /\ UNCHANGED <<prevCheck, circ, committed>>

Init ==
    /\ prevCheck = [s \in Subnets |-> NoCheck]
    /\ circ = [s \in Subnets |-> CircInit]
    /\ now = 0
    /\ windowSrcs = {}
    /\ committed = [s \in Subnets |-> <<>>]

Next ==
    \/ \E caller, s \in Subnets : \E ch \in Candidates(s) : CommitChildCheck(caller, ch)
    \/ AdvanceEpoch

Spec == Init /\ [][Next]_vars

-----------------------------------------------------------------------------
TypeOK ==
    /\ circ \in [Subnets -> Nat]
    /\ now \in 0..MaxTime
    /\ windowSrcs \subseteq Subnets
    /\ \A s \in Subnets : prevCheck[s] = IF committed[s] = <<>> THEN NoCheck
                                         ELSE Last(committed[s])

(***************************************************************************)
(* spec.md section 3: a committed checkpoint's epoch is greater than that *)
(* of the previous checkpoint of the same subnet (commit_child_check      *)
(* rejects only "checkpoint being committed belongs to the past").        *)
(***************************************************************************)
EpochsStrictlyIncrease ==
    \A s \in Subnets : \A i \in 2..Len(committed[s]) :
        committed[s][i - 1].epoch < committed[s][i].epoch
====
