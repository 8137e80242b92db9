------------------------------ MODULE MCMission -----------------------------
(* Instances of Mission for TLC. *)
EXTENDS Mission

CONSTANTS o1, o2

TwoWaits == [o \in Orders |-> 2]
OneWait == [o \in Orders |-> 1]

\* One disturbance of each kind, and as many releases as the plan has waits.
BudgetSafe == [k \in Kinds |-> IF k = "release" THEN 2 ELSE 1]
\* A robot that faults, and nothing else that goes wrong.
BudgetFault == [k \in Kinds |-> IF k = "fault" THEN 1 ELSE 0]
=============================================================================
