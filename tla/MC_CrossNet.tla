---------------------------- MODULE MC_CrossNet ----------------------------
(* A chain of three networks /r, /r/a, /r/a/c: enough for pass-through    *)
(* hops (a message parked at /r/a on its way to /r/a/c or /r), a turning  *)
(* point, and a gateway that is both a parent and a child.                *)
EXTENDS CrossNet

MC_Root == <<"r">>
MC_Nets == {<<"r">>, <<"r", "a">>, <<"r", "a", "c">>}

(* The chain plus a sibling /r/b of /r/a: a message between the two      *)
(* branches climbs through /r/a, turns at /r, and may be parked at /r/a   *)
(* on the way up from /r/a/c, so every kind of hop meets every other.     *)
MC_TreeNets == MC_Nets \cup {<<"r", "b">>}

(* the user starts with funds at the root only; the actor account has a   *)
(* genesis balance in every network so that it can originate send_cross   *)
(* from any of them.                                                      *)
MC_Genesis(n, a) ==
    IF a \in Users THEN (IF n = MC_Root THEN 6 ELSE 0) ELSE 3

(* Funds only at the root: every token in a child came down through Fund  *)
(* or send_cross and is counted in that child's circ_supply, so a         *)
(* bottom-up message from a child is always backed.                       *)
MC_RootGenesis(n, a) == IF n = MC_Root THEN 6 ELSE 0
====
