------------------------------ MODULE CrossNet ------------------------------
(***************************************************************************)
(* The cross-message engine of the IPC gateway actor (src/gateway/src/     *)
(* lib.rs), one gateway per network of a fixed subnet hierarchy.          *)
(*                                                                         *)
(* A network is its SubnetID: the path of names from the root.  Every     *)
(* non-root network is registered, Active, at its parent's gateway; the   *)
(* registry entry of child c held by Parent(c) is spread over the         *)
(* functions circ, tdNonce and tdQueue, all indexed by c.                 *)
(*                                                                         *)
(* Each step is one top-level message: the host runtime runs it to        *)
(* completion, and an error anywhere in its call tree (the transaction or *)
(* a later rt.send) reverts all of it, so a failing call is a step that   *)
(* is not enabled.  Tokens are tracked per network: account balances,     *)
(* the gateway's balance, tokens burnt, and cross-message fees paid out   *)
(* as rewards to a subnet's validators.                                   *)
(***************************************************************************)
EXTENDS Naturals, Sequences, FiniteSets, SequencesExt, FiniteSetsExt, Functions

CONSTANTS
    Root,       \* the root SubnetID, a one-element sequence
    Nets,       \* the SubnetIDs of the hierarchy, closed under Parent
    Users,      \* signable (key) accounts: callers of Fund and Release
    Actors,     \* non-signable accounts: callers of SendCross
    Values,     \* token amounts a caller attaches to a cross-message
    FEE,        \* CROSS_MSG_FEE
    StakeAmt,   \* collateral each child subnet holds at its parent
    Genesis(_, _), \* Genesis(n, a): balance of account a at network n at start
    MaxMsgs     \* bound on the cross-messages callers originate

Accounts == Users \cup Actors
Children(n) == {c \in Nets : Len(c) = Len(n) + 1 /\ IsPrefix(n, c)}
NonRoot == Nets \ {Root}

ASSUME /\ Root \in Nets /\ Len(Root) = 1
       /\ \A n \in NonRoot : Front(n) \in Nets
       /\ Values \subseteq Nat \ {0} /\ FEE \in Nat /\ MaxMsgs \in Nat

VARIABLES
    bal,        \* bal[n][a]: balance of account a at network n
    gw,         \* gw[n]: balance of the gateway actor of n
    burnt,      \* burnt[n]: tokens sent to the burnt-funds actor at n
    rewards,    \* rewards[n]: cross-message fees paid to validators at n
    circ,       \* circ[c]: circ_supply of c in Parent(c)'s registry
    tdNonce,    \* tdNonce[c]: topdown_nonce of c in Parent(c)'s registry
    tdQueue,    \* tdQueue[c]: top-down messages Parent(c) committed for c
    tdApplied,  \* tdApplied[c]: prefix of tdQueue[c] applied at c
    appliedTD,  \* appliedTD[n]: applied_topdown_nonce of n's gateway
    window,     \* window[n]: cross_msgs of n's current window checkpoint
    windowFee,  \* windowFee[n]: fee accumulated in that bundle
    buQueue,    \* buQueue[n]: bottom-up messages stored from children
    buApplied,  \* buApplied[n]: prefix of buQueue[n] applied at n
    postbox,    \* postbox[n]: set of PostBoxItems [msg, owners]
    nextId,     \* identity of the next originated message
    delivered   \* delivered[i]: times message i reached its recipient

vars == <<bal, gw, burnt, rewards, circ, tdNonce, tdQueue, tdApplied,
          appliedTD, window, windowFee, buQueue, buApplied, postbox,
          nextId, delivered>>

Ids == 1..MaxMsgs
Parent(n) == Front(n)

(* SubnetID::common_parent: the longest common prefix of two paths.       *)
CommonParent(s, t) == LongestCommonPrefix({s, t})

(* SubnetID::down: the child of n on the path from n to a descendant d.   *)
Down(n, d) == SubSeq(d, 1, Len(n) + 1)

(***************************************************************************)
(* StorableMsg::apply_type at network n (not under src/; spec.md 3 and    *)
(* 4.3.1): TopDown when the destination is strictly below n and the       *)
(* message did not come up from below n.  At its destination the spec's  *)
(* tie-break makes a message BottomUp unless it came straight down from  *)
(* an ancestor of n: a Fund arrival (sent from Parent(dest)) is applied   *)
(* TopDown, with applied_topdown_nonce (spec.md 8, scenario 2), while a   *)
(* message from another branch that turned at a common parent arrives     *)
(* BottomUp.                                                              *)
(***************************************************************************)
ApplyType(m, n) ==
    IF /\ IsPrefix(n, m.to.sn)
       /\ ~IsStrictPrefix(n, m.from.sn)
       /\ m.to.sn = n => IsPrefix(m.from.sn, n)
    THEN "TopDown" ELSE "BottomUp"

SeqValue(s) == FoldLeft(LAMBDA acc, m : acc + m.value, 0, s)

Credit(f, n, x) == [f EXCEPT ![n] = @ + x]

(***************************************************************************)
(* State::commit_topdown_msg: stamp the next topdown_nonce of the child   *)
(* on the path, queue the message for it, and add its value to the        *)
(* child's circulating supply.                                            *)
(***************************************************************************)
CommitTopDownMsg(n, m) ==
    LET c == Down(n, m.to.sn) IN
    /\ tdQueue' = [tdQueue EXCEPT ![c] = Append(@, [m EXCEPT !.nonce = tdNonce[c]])]
    /\ tdNonce' = Credit(tdNonce, c, 1)
    /\ circ' = Credit(circ, c, m.value)

(* State::commit_bottomup_msg: add the message and its fee to the bundle  *)
(* of n's current window checkpoint.                                      *)
CommitBottomUpMsg(n, m, fee) ==
    /\ window' = [window EXCEPT ![n] = Append(@, m)]
    /\ windowFee' = Credit(windowFee, n, fee)

(* Mutant: the turning point at the nearest common parent is missed.     *)
GoesDownIgnoresTurn(n, m) == ApplyType(m, n) = "TopDown"

(* The branch commit_cross_message takes at n: down to the child on the   *)
(* path (TopDown, or BottomUp at the nearest common parent) or up in the  *)
(* window's bottom-up bundle.                                             *)
GoesDown(n, m) ==
    ApplyType(m, n) = "TopDown" \/ CommonParent(m.to.sn, m.from.sn) = n

(***************************************************************************)
(* Actor::commit_cross_message followed by cross_msg_side_effects, run at *)
(* network n on message m by a handler that received gwIn tokens.  A     *)
(* TopDown message bumps applied_topdown_nonce and is queued down; a      *)
(* BottomUp one turns down at the common parent and otherwise joins the   *)
(* window bundle and has its value burnt.  The top-down fee goes to the   *)
(* validators of the child it is queued for.                              *)
(***************************************************************************)
CommitCrossMessage(n, m, gwIn) ==
    LET td   == ApplyType(m, n) = "TopDown"
        down == GoesDown(n, m)
        burn == IF ~down /\ m.value > 0 THEN m.value ELSE 0
        tdFee == IF down THEN FEE ELSE 0
    IN
    /\ m.to.sn # n
    /\ appliedTD' = IF td THEN Credit(appliedTD, n, 1) ELSE appliedTD
    /\ \/ down /\ CommitTopDownMsg(n, m) /\ UNCHANGED <<window, windowFee>>
       \/ ~down /\ CommitBottomUpMsg(n, m, FEE) /\ UNCHANGED <<tdQueue, tdNonce, circ>>
    /\ burnt' = Credit(burnt, n, burn)
    /\ rewards' = Credit(rewards, n, tdFee)
    /\ gw' = Credit(gw, n, gwIn - burn - tdFee)

NewMsg(fromSn, fromRaw, toSn, toRaw, v) ==
    [id |-> nextId, from |-> [sn |-> fromSn, raw |-> fromRaw],
     to |-> [sn |-> toSn, raw |-> toRaw], value |-> v, nonce |-> 0]

Pay(n, a, x) == bal' = [bal EXCEPT ![n][a] = @ - x]

(***************************************************************************)
(* Actor::fund: user u at n sends v to its own address in descendant dest.*)
(* The fee is taken from v (collect_cross_fee), the message is committed  *)
(* top-down, and distribute_crossmsg_fee sends the fee to the address     *)
(* SubnetID::subnet_actor of dest, an address of n's own network (for a  *)
(* grandchild dest not the actor that registered it); rewards[n] counts   *)
(* it as paid out of the gateway at n.                                    *)
(***************************************************************************)
Fund(n, u, dest, v) ==
    LET m == NewMsg(Parent(dest), u, dest, u, v - FEE) IN
    /\ nextId \in Ids
    /\ IsStrictPrefix(n, dest)
    /\ bal[n][u] >= v
    /\ v > FEE
    /\ CommitTopDownMsg(n, m)
    /\ rewards' = Credit(rewards, n, FEE)
    /\ gw' = Credit(gw, n, v - FEE)
    /\ Pay(n, u, v)
    /\ nextId' = nextId + 1
    /\ UNCHANGED <<burnt, tdApplied, appliedTD, window, windowFee, buQueue,
                   buApplied, postbox, delivered>>

(***************************************************************************)
(* Actor::release: user u at non-root n sends v to its own address in the *)
(* parent; after the fee the value joins the window bundle and is burnt.  *)
(***************************************************************************)
Release(n, u, v) ==
    LET m == NewMsg(n, u, Parent(n), u, v - FEE) IN
    /\ nextId \in Ids
    /\ n # Root
    /\ bal[n][u] >= v
    /\ v > FEE
    /\ CommitBottomUpMsg(n, m, FEE)
    /\ burnt' = Credit(burnt, n, v - FEE)
    /\ gw' = Credit(gw, n, FEE)
    /\ Pay(n, u, v)
    /\ nextId' = nextId + 1
    /\ UNCHANGED <<rewards, circ, tdNonce, tdQueue, tdApplied, appliedTD,
                   buQueue, buApplied, postbox, delivered>>

(***************************************************************************)
(* Actor::send_cross: actor a at n sends v to raw address r in dest.  The *)
(* attached value must equal the message value; the fee is taken from it *)
(* and the message goes through commit_cross_message.                     *)
(***************************************************************************)
SendCross(n, a, dest, r, v) ==
    /\ nextId \in Ids
    /\ dest # n
    /\ bal[n][a] >= v
    /\ v > FEE
    /\ CommitCrossMessage(n, NewMsg(n, a, dest, r, v - FEE), v)
    /\ Pay(n, a, v)
    /\ nextId' = nextId + 1
    /\ UNCHANGED <<tdApplied, buQueue, buApplied, postbox, delivered>>

(***************************************************************************)
(* Actor::apply_msg at network n, called by the system actor with m.      *)
(* TopDown: the value is minted into the gateway; addressed to n it must  *)
(* carry applied_topdown_nonce, which is bumped, and is sent on to its    *)
(* raw address.  BottomUp addressed to n: bottomup_state_transition, then *)
(* the gateway sends the value.  Anything else is parked in the postbox   *)
(* with its sender as the only owner.                                     *)
(***************************************************************************)
ApplyMessage(n, m) ==
    LET td   == ApplyType(m, n) = "TopDown"
        mint == IF td THEN m.value ELSE 0
    IN
    \/ /\ m.to.sn = n
       /\ td => m.nonce = appliedTD[n]
       /\ gw[n] + mint >= m.value
       /\ appliedTD' = IF td THEN Credit(appliedTD, n, 1) ELSE appliedTD
       /\ gw' = Credit(gw, n, mint - m.value)
       /\ bal' = [bal EXCEPT ![n][m.to.raw] = @ + m.value]
       /\ delivered' = Credit(delivered, m.id, 1)
       /\ UNCHANGED postbox
    \/ /\ m.to.sn # n
       /\ gw' = Credit(gw, n, mint)
       /\ postbox' = [postbox EXCEPT ![n] = @ \cup {[msg |-> m, owners |-> {m.from.raw}]}]
       /\ UNCHANGED <<bal, appliedTD, delivered>>

(* The system actor of c applies the next message Parent(c) queued for c; *)
(* a message whose application fails stays next in line.                 *)
ApplyTopDown(c) ==
    /\ tdApplied[c] < Len(tdQueue[c])
    /\ ApplyMessage(c, tdQueue[c][tdApplied[c] + 1])
    /\ tdApplied' = Credit(tdApplied, c, 1)
    /\ UNCHANGED <<burnt, rewards, circ, tdNonce, tdQueue, window, windowFee,
                   buQueue, buApplied, nextId>>

(* The system actor of n applies the next stored bottom-up message.       *)
ApplyBottomUp(n) ==
    /\ buApplied[n] < Len(buQueue[n])
    /\ ApplyMessage(n, buQueue[n][buApplied[n] + 1])
    /\ buApplied' = Credit(buApplied, n, 1)
    /\ UNCHANGED <<burnt, rewards, circ, tdNonce, tdQueue, tdApplied, window,
                   windowFee, buQueue, nextId>>

(* Actor::whitelist_propagator: an owner of a postbox item adds x.        *)
WhiteListPropagator(n, it, caller, x) ==
    /\ caller \in it.owners
    /\ postbox' = [postbox EXCEPT ![n] = (@ \ {it}) \cup {[it EXCEPT !.owners = @ \cup {x}]}]
    /\ UNCHANGED <<bal, gw, burnt, rewards, circ, tdNonce, tdQueue, tdApplied,
                   appliedTD, window, windowFee, buQueue, buApplied, nextId, delivered>>

(* Variant of Propagate without collect_cross_fee's check that the        *)
(* attached value covers the fee.                                          *)
PropagateSkipsFeeCheck(n, it, caller) ==
    /\ caller \in it.owners
    /\ CommitCrossMessage(n, it.msg, FEE)
    /\ postbox' = [postbox EXCEPT ![n] = @ \ {it}]
    /\ Pay(n, caller, FEE)
    /\ UNCHANGED <<tdApplied, buQueue, buApplied, nextId, delivered>>

(* Variant of Propagate that leaves the item in the postbox, as if         *)
(* remove_from_postbox were skipped.                                       *)
PropagateKeepsItem(n, it, caller) ==
    /\ caller \in it.owners
    /\ bal[n][caller] > FEE
    /\ CommitCrossMessage(n, it.msg, FEE)
    /\ UNCHANGED postbox
    /\ Pay(n, caller, FEE)
    /\ UNCHANGED <<tdApplied, buQueue, buApplied, nextId, delivered>>

(***************************************************************************)
(* Actor::propagate: an owner of a postbox item pays the fee out of the   *)
(* value it attaches (the rest is returned), the stored message goes      *)
(* through commit_cross_message, and the item is removed.                 *)
(***************************************************************************)
Propagate(n, it, caller) ==
    /\ caller \in it.owners
    /\ bal[n][caller] > FEE
    /\ CommitCrossMessage(n, it.msg, FEE)
    /\ postbox' = [postbox EXCEPT ![n] = @ \ {it}]
    /\ Pay(n, caller, FEE)
    /\ UNCHANGED <<tdApplied, buQueue, buApplied, nextId, delivered>>

(***************************************************************************)
(* Actor::commit_child_check, cross-message part: the child c's subnet    *)
(* actor commits a checkpoint carrying c's window bundle.  The parent      *)
(* stores the messages, releases their value from c's circ_supply (an     *)
(* underflow is an error) and, after the transaction, distributes the     *)
(* bundle's fee from its own balance to c's validators.  The checkpoint   *)
(* chain checks are those of module ChildCheckpoint; a checkpoint without *)
(* cross-messages leaves this module's state as it is.                    *)
(***************************************************************************)
CommitChildCheckpoint(c) ==
    LET p == Parent(c)
        v == SeqValue(window[c])
        fee == windowFee[c]
    IN
    /\ window[c] # <<>>
    /\ circ[c] >= v
    /\ gw[p] >= fee
    /\ buQueue' = [buQueue EXCEPT ![p] = @ \o window[c]]
    /\ circ' = [circ EXCEPT ![c] = @ - v]
    /\ gw' = Credit(gw, p, -fee)
    /\ rewards' = Credit(rewards, p, fee)
    /\ window' = [window EXCEPT ![c] = <<>>]
    /\ windowFee' = [windowFee EXCEPT ![c] = 0]
    /\ UNCHANGED <<bal, burnt, tdNonce, tdQueue, tdApplied, appliedTD,
                   buApplied, postbox, nextId, delivered>>

Init ==
    /\ bal = [n \in Nets |-> [a \in Accounts |-> Genesis(n, a)]]
    /\ gw = [n \in Nets |-> StakeAmt * Cardinality(Children(n))]
    /\ burnt = [n \in Nets |-> 0]
    /\ rewards = [n \in Nets |-> 0]
    /\ circ = [c \in NonRoot |-> 0]
    /\ tdNonce = [c \in NonRoot |-> 0]
    /\ tdQueue = [c \in NonRoot |-> <<>>]
    /\ tdApplied = [c \in NonRoot |-> 0]
    /\ appliedTD = [n \in Nets |-> 0]
    /\ window = [n \in Nets |-> <<>>]
    /\ windowFee = [n \in Nets |-> 0]
    /\ buQueue = [n \in Nets |-> <<>>]
    /\ buApplied = [n \in Nets |-> 0]
    /\ postbox = [n \in Nets |-> {}]
    /\ nextId = 1
    /\ delivered = [i \in Ids |-> 0]

Next ==
    \/ \E n, d \in Nets, u \in Users, v \in Values : Fund(n, u, d, v)
    \/ \E n \in Nets, u \in Users, v \in Values : Release(n, u, v)
    \/ \E n, d \in Nets, a \in Actors, r \in Accounts, v \in Values :
          SendCross(n, a, d, r, v)
    \/ \E c \in NonRoot : ApplyTopDown(c)
    \/ \E n \in Nets : ApplyBottomUp(n)
    \/ \E n \in Nets : \E it \in postbox[n], a \in Accounts :
          \/ Propagate(n, it, a)
          \/ \E x \in Accounts : WhiteListPropagator(n, it, a, x)
    \/ \E c \in NonRoot : CommitChildCheckpoint(c)

Spec == Init /\ [][Next]_vars

(***************************************************************************)
(* Fairness of the parts of the system that are not user choices: the     *)
(* system actor of every network applies the cross-messages its parent    *)
(* queued and the bottom-up messages its children's checkpoints stored,   *)
(* and the validators of every child keep committing checkpoints.  No     *)
(* fairness for Fund, Release, SendCross, WhiteListPropagator or          *)
(* Propagate: those are paid for by users who may never call them.       *)
(***************************************************************************)
FairSpec ==
    /\ Spec
    /\ \A c \in NonRoot : WF_vars(ApplyTopDown(c)) /\ WF_vars(CommitChildCheckpoint(c))
    /\ \A n \in Nets : WF_vars(ApplyBottomUp(n))

-----------------------------------------------------------------------------
(* Properties *)

TypeOK ==
    /\ \A n \in Nets : bal[n] \in [Accounts -> Nat]
    /\ gw \in [Nets -> Int] /\ burnt \in [Nets -> Nat] /\ rewards \in [Nets -> Nat]
    /\ circ \in [NonRoot -> Int] /\ tdNonce \in [NonRoot -> Nat]
    /\ tdApplied \in [NonRoot -> Nat] /\ appliedTD \in [Nets -> Nat]
    /\ \A c \in NonRoot : tdApplied[c] <= Len(tdQueue[c])
    /\ \A n \in Nets : buApplied[n] <= Len(buQueue[n])
    /\ nextId \in 1..MaxMsgs + 1 /\ delivered \in [Ids -> Nat]

(* Tokens held at network n: accounts, the gateway, and validator rewards. *)
Held(n) == SumFunction(bal[n]) + gw[n] + rewards[n]
Held0(n) == MapThenSumSet(LAMBDA a : Genesis(n, a), Accounts)
              + StakeAmt * Cardinality(Children(n))
PendingTD(c) == SeqValue(SubSeq(tdQueue[c], tdApplied[c] + 1, Len(tdQueue[c])))

(***************************************************************************)
(* Circulating-supply bookkeeping (spec.md 8, P3, R1, R2): the            *)
(* circ_supply the parent records for child c equals the tokens that      *)
(* entered c since genesis, plus the value of top-down messages queued    *)
(* for c and not yet minted there, plus the value burnt at c in bottom-up *)
(* messages whose checkpoint the parent has not yet committed.  It ties   *)
(* commit_topdown_msg, the mint in apply_msg, the burn in                 *)
(* release/commit_cross_message and release_supply in commit_child_check  *)
(* together across the gateways a message passes.                         *)
(***************************************************************************)
SupplyTracked ==
    \A c \in NonRoot :
        circ[c] + Held0(c) = Held(c) + PendingTD(c) + SeqValue(window[c])

(***************************************************************************)
(* Exactly-once delivery: no cross-message reaches its recipient twice,   *)
(* whatever order parking in the postbox, whitelisting, propagation and   *)
(* checkpoint commits happen in along its route.                          *)
(***************************************************************************)
DeliveredAtMostOnce == \A i \in Ids : delivered[i] <= 1

(***************************************************************************)
(* applied_topdown_nonce of c never runs ahead of the top-down messages c *)
(* has taken from its parent's queue (lib.rs line 862 bumps it in         *)
(* commit_cross_message for every TopDown commit, including send_cross    *)
(* from c to its own descendants).                                        *)
(***************************************************************************)
TopDownNonceNeverAhead == \A c \in NonRoot : appliedTD[c] <= tdApplied[c]

(***************************************************************************)
(* Gateway solvency: the gateway's balance covers the collateral and      *)
(* circulating supply of its children plus the value it owes to stored    *)
(* bottom-up messages and parked postbox items (release_stake and kill    *)
(* assert "the actor doesn't have enough balance" cannot happen).         *)
(***************************************************************************)
Owed(n) ==
    MapThenSumSet(LAMBDA c : circ[c] + StakeAmt, Children(n))
    + SeqValue(SubSeq(buQueue[n], buApplied[n] + 1, Len(buQueue[n])))
    + MapThenSumSet(LAMBDA it : it.msg.value, postbox[n])
GatewaySolvent == \A n \in Nets : gw[n] >= Owed(n)

(* Message i is in a postbox, waiting for an owner to propagate it.       *)
Parked(i) == \E n \in Nets : \E it \in postbox[n] : it.msg.id = i

(* Message i was originated and is neither delivered nor parked.          *)
InFlight(i) == i < nextId /\ delivered[i] = 0 /\ ~Parked(i)

(***************************************************************************)
(* No message is stuck in the machinery: every originated message is      *)
(* eventually delivered or parked for its owners, under fairness of the   *)
(* system actors and of checkpoint commits only.  It needs a message to   *)
(* pass through a window, a checkpoint, the parent's stored bottom-up     *)
(* messages, a turn at the common parent and a child's top-down queue,    *)
(* each applied in order (apply_msg fails a message whose nonce is not    *)
(* applied_topdown_nonce, and the system actor then retries it forever).  *)
(***************************************************************************)
NoMessageStuck == \A i \in Ids : InFlight(i) ~> ~InFlight(i)

(* The networks a message from f to t passes through, one hop per         *)
(* commit_cross_message: down to Down(n, t) or up to Parent(n).  k bounds *)
(* the hops.                                                              *)
NextHop(n, m) == IF GoesDown(n, m) THEN Down(n, m.to.sn) ELSE Parent(n)
RECURSIVE Route(_, _, _)
Route(n, m, k) ==
    IF n = m.to.sn \/ k = 0 THEN <<n>> ELSE <<n>> \o Route(NextHop(n, m), m, k - 1)

(* Reference: the path between f and t in the tree of SubnetIDs is their  *)
(* ancestors that are not shared, plus the deepest shared one.            *)
Ancestors(x) == {SubSeq(x, 1, k) : k \in 1..Len(x)}
TreePath(f, t) ==
    LET shared == Ancestors(f) \cap Ancestors(t) IN
    (Ancestors(f) \ shared) \cup (Ancestors(t) \ shared)
      \cup {CHOOSE c \in shared : \A d \in shared : Len(d) <= Len(c)}

(* Every message held somewhere, with the network that acts on it next:  *)
(* a child's unapplied top-down queue, a window bundle, a parent's        *)
(* unapplied bottom-up store, a postbox.                                  *)
Unapplied(s, k) == {s[j] : j \in k + 1..Len(s)}
Holdings ==
    UNION {{<<c, m>> : m \in Unapplied(tdQueue[c], tdApplied[c])} : c \in NonRoot}
    \cup UNION {{<<n, m>> : m \in Range(window[n])} : n \in Nets}
    \cup UNION {{<<n, m>> : m \in Unapplied(buQueue[n], buApplied[n])} : n \in Nets}
    \cup UNION {{<<n, it.msg>> : it \in postbox[n]} : n \in Nets}

(***************************************************************************)
(* Routing: from wherever a message is held, classification by            *)
(* apply_type, the turn at common_parent and the step by SubnetID::down,  *)
(* applied hop by hop as apply_msg and propagate re-enter                 *)
(* commit_cross_message, take it to its destination along the tree path  *)
(* between its source and destination, no network twice.                  *)
(***************************************************************************)
RoutesFollowTree ==
    \A h \in Holdings :
        LET m == h[2]
            r == Route(h[1], m, Cardinality(Nets))
        IN /\ r[Len(r)] = m.to.sn
           /\ Range(r) \subseteq TreePath(m.from.sn, m.to.sn)
           /\ Cardinality(Range(r)) = Len(r)
====
