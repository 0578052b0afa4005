----------------------------- MODULE MCDiscovery -----------------------------
(* Discovery for TLC: a registers two writers, of different topics, and b  *)
(* a reader of one of the topics.                                          *)
EXTENDS Discovery

CONSTANTS a, b, w1, w2, r1

MCHome == [e \in Endpoints |-> IF e \in Writers THEN a ELSE b]
MCTopic == [e \in Endpoints |-> IF e = w2 THEN "other" ELSE "speed"]
=============================================================================
