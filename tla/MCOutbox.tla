------------------------------ MODULE MCOutbox ------------------------------
(***************************************************************************)
(* Small instances of EventFlow: three rows of two aggregates, where rows  *)
(* 1 and 2 belong to the same one.                                         *)
(***************************************************************************)
EXTENDS EventFlow

CONSTANTS r1, r2

TwoRelays == {r1, r2}
OneRelay == {r1}

ThreeEvents == 1..3
AggregateOf == [e \in ThreeEvents |-> IF e = 3 THEN "b" ELSE "a"]

\* Each row has a timestamp of its own; row 3 is the oldest event, written by
\* a command that may commit last.
DistinctTimes == [e \in ThreeEvents |-> IF e = 3 THEN 0 ELSE e]

\* Rows 1 and 2 were raised within the same microsecond.
TiedTimes == [e \in ThreeEvents |-> IF e = 3 THEN 0 ELSE 1]
=============================================================================
