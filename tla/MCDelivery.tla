----------------------------- MODULE MCDelivery -----------------------------
(***************************************************************************)
(* Instances of Delivery.                                                  *)
(***************************************************************************)
EXTENDS Delivery

CONSTANTS p1, p2, s1, s2

\* A command of each kind for shard s1, and one for s2.
SomeCommands == {c \in Command : c.shard = s1 \/ c.op = "Send"}

OneProcess == [s \in Shards |-> p1]
Apart == [s \in Shards |-> IF s = s1 THEN p1 ELSE p2]
=============================================================================
