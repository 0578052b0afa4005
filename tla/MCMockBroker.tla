---------------------------- MODULE MCMockBroker ----------------------------
(* MockBroker for TLC, in three shapes.  A publisher fans out to two       *)
(* subscribers, the second of which filters out the first sample and asks  *)
(* for DropNewest; two publishers compete for the one slot of a subscriber *)
(* that asks for any policy; or the second subscriber, with room for two   *)
(* and any policy, joins a publisher late, so that the last sample may be  *)
(* handed over before, after or besides the same sample and a newer one.   *)
EXTENDS MockBroker, TLC

CONSTANTS p1, p2, s1, s2

VARIABLE shape   \* "fan out", "writers" or "late"

MCAccepts == s1 :> 1..MaxWrites @@ s2 :> 2..MaxWrites
MCAsked == s1 :> Policies @@ s2 :> Policies
MCDepth == s1 :> 1 @@ s2 :> 2

MCInit == Init /\ shape \in {"fan out", "writers", "late"}

Users == CASE shape = "fan out" -> {p1, s1, s2}
           [] shape = "writers" -> {p1, p2, s1}
           [] shape = "late"    -> {p1, s2}

(* The publishers and subscribers that a shape lacks never call anything;  *)
(* the third sample is written for a late joiner only.                     *)
MCNext ==
    /\ Next /\ UNCHANGED shape
    /\ \A p \in Pubs \ Users : pub'[p].pc = "idle"
    /\ \A s \in Subs \ Users : sub'[s] = "none"
    /\ shape = "fan out" => /\ policy'[s1] = "Block" \/ sub'[s1] = "none"
                            /\ policy'[s2] = "DropNewest"
    /\ shape # "late" => Len(sent') <= 2

MCSpec == MCInit /\ [][MCNext]_<<vars, shape>> /\ Fairness
=============================================================================
