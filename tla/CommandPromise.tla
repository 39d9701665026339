--------------------------- MODULE CommandPromise ---------------------------
(***************************************************************************)
(* What the service promises the clients that publish to gateway.send: a   *)
(* command is handled at most once, unless the connection of a process to  *)
(* the broker broke while it held the command unacknowledged.  It promises *)
(* no more: a process that ends takes with it the commands it has          *)
(* acknowledged and not handled.                                           *)
(***************************************************************************)
EXTENDS Naturals

CONSTANTS
    Ids,          \* the commands, by order of publication
    Processes     \* the processes that consume them

VARIABLES
    submitted,    \* number of commands published
    queued,       \* commands the broker answers for: ready, or unacknowledged
    owed,         \* commands each process has yet to handle, the broker asking no longer
    times,        \* how often each command has been handled
    again         \* commands a broken connection has given back to the broker

promise == <<submitted, queued, owed, times, again>>

Init ==
    /\ submitted = 0 /\ queued = {} /\ again = {}
    /\ owed = [p \in Processes |-> {}]
    /\ times = [n \in Ids |-> 0]

Submit ==
    /\ submitted + 1 \in Ids
    /\ submitted' = submitted + 1
    /\ queued' = queued \cup {submitted + 1}
    /\ UNCHANGED <<owed, times, again>>

Acknowledge(p, n) ==
    /\ n \in queued
    /\ queued' = queued \ {n}
    /\ owed' = [owed EXCEPT ![p] = @ \cup {n}]
    /\ UNCHANGED <<submitted, times, again>>

\* The broker will deliver again what p holds, and p handles it all the same.
GiveBack(p, held) ==
    /\ owed' = [owed EXCEPT ![p] = @ \cup held]
    /\ again' = again \cup held
    /\ UNCHANGED <<submitted, queued, times>>

Handle(p, n) ==
    /\ n \in owed[p]
    /\ owed' = [owed EXCEPT ![p] = @ \ {n}]
    /\ times' = [times EXCEPT ![n] = @ + 1]
    /\ UNCHANGED <<submitted, queued, again>>

\* Process p ends.
Forget(p) ==
    /\ owed' = [owed EXCEPT ![p] = {}]
    /\ UNCHANGED <<submitted, queued, times, again>>

Next ==
    \/ Submit
    \/ \E p \in Processes :
          \/ \E n \in Ids : Acknowledge(p, n) \/ Handle(p, n)
          \/ \E held \in SUBSET queued : GiveBack(p, held)
          \/ Forget(p)

Spec == Init /\ [][Next]_promise
=============================================================================
