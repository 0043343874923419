----------------------------- MODULE AtLeastOnce ----------------------------
(***************************************************************************)
(* What the outbox promises to the rest of the system: an event, once its  *)
(* command has committed, is delivered to the bus one or more times, then  *)
(* acknowledged, and then never delivered again.                           *)
(***************************************************************************)
EXTENDS Naturals

CONSTANT Event

VARIABLES
    stage,      \* "absent", "committed" or "acknowledged", for each event
    delivered   \* how many times each event was delivered

vars == <<stage, delivered>>

Init ==
    /\ stage = [e \in Event |-> "absent"]
    /\ delivered = [e \in Event |-> 0]

\* The events of one command become durable together.
Commit(E) ==
    /\ \A e \in E : stage[e] = "absent"
    /\ stage' = [e \in Event |-> IF e \in E THEN "committed" ELSE stage[e]]
    /\ UNCHANGED delivered

Deliver(e) ==
    /\ stage[e] = "committed"
    /\ delivered' = [delivered EXCEPT ![e] = @ + 1]
    /\ UNCHANGED stage

\* Only what was delivered is acknowledged.
Acknowledge(E) ==
    /\ \A e \in E : stage[e] = "committed" /\ delivered[e] > 0
    /\ stage' = [e \in Event |-> IF e \in E THEN "acknowledged" ELSE stage[e]]
    /\ UNCHANGED delivered

Next ==
    \/ \E E \in SUBSET Event : Commit(E) \/ Acknowledge(E)
    \/ \E e \in Event : Deliver(e)

Spec == Init /\ [][Next]_vars
=============================================================================
