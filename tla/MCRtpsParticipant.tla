-------------------------- MODULE MCRtpsParticipant --------------------------
(* RtpsParticipant for TLC: a reader r1 that may ask for any policy but    *)
(* DropOldest, which differs from DropNewest only in which sample it       *)
(* keeps.  In one shape it is alone and there are three samples; in the    *)
(* others r1 blocks, and a reader r2 that does not gets the same two       *)
(* samples, which come from the network, or are written here.              *)
EXTENDS RtpsParticipant

CONSTANTS r1, r2, w1

VARIABLE shape   \* "three samples", "two from the net" or "two written"

MCAsked == [r \in Readers |-> IF r = r1 THEN {"Block", "DropNewest"}
                                        ELSE {"DropNewest"}]

MCInit == Init /\ shape \in {"three samples", "two from the net", "two written"}

MCNext ==
    /\ Next /\ UNCHANGED shape
    /\ shape = "three samples" \/ policy'[r1] = "Block" \/ rd'[r1] = "none"
    /\ CASE shape = "three samples"    -> rd'[r2] = "none"
         [] shape = "two from the net" -> samples' <= 2 /\ wr'[w1] = "none"
         [] shape = "two written"      -> samples' <= 2 /\ data' # "deliver"

MCSpec == MCInit /\ [][MCNext]_<<vars, shape>> /\ Fairness
=============================================================================
