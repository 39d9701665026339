----------------------------- MODULE EventFeed ------------------------------
(***************************************************************************)
(* What the service promises the clients that read the queue: each         *)
(* dispatch event of the gateway is published once, or was given up for a  *)
(* failure; nothing else is published, and no event is forgotten.  It      *)
(* promises nothing about the order.                                       *)
(***************************************************************************)
EXTENDS Naturals, Sequences

CONSTANTS Faults      \* whether an event may be given up

VARIABLES
    received,     \* number of messages received, of which some are dispatch events
    due,          \* events received and neither published nor given up
    queue,        \* events published, in order
    lost          \* events given up

feed == <<received, due, queue, lost>>

Init == received = 0 /\ due = {} /\ queue = <<>> /\ lost = {}

\* A message that is a dispatch event is due from then on.
Receive ==
    /\ received' = received + 1
    /\ due' \in {due, due \cup {received + 1}}
    /\ UNCHANGED <<queue, lost>>

Publish(n) ==
    /\ n \in due
    /\ due' = due \ {n}
    /\ queue' = Append(queue, n)
    /\ UNCHANGED <<received, lost>>

GiveUp(n) ==
    /\ Faults /\ n \in due
    /\ due' = due \ {n}
    /\ lost' = lost \cup {n}
    /\ UNCHANGED <<received, queue>>

Next == Receive \/ \E n \in due : Publish(n) \/ GiveUp(n)

Spec == Init /\ [][Next]_feed
=============================================================================
