----------------------------- MODULE MCSessions -----------------------------
(***************************************************************************)
(* Instances of Sessions: one process with every shard, and two processes  *)
(* with one each.                                                          *)
(***************************************************************************)
EXTENDS Sessions

CONSTANTS p1, p2, s1, s2

OneProcess == [s \in Shards |-> p1]
Apart == [s \in Shards |-> IF s = s1 THEN p1 ELSE p2]
=============================================================================
