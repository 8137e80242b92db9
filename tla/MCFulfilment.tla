---------------------------- MODULE MCFulfilment ----------------------------
(* Instances of Fulfilment for TLC.                                        *)
EXTENDS Fulfilment, TLC

CONSTANTS o1, o2, l1, b1, b2, s1, s2

\* Both orders go to one slot, or each to its own.
SameDest == o1 :> s1 @@ o2 :> s1
OwnDest == o1 :> s1 @@ o2 :> s2
OneDest == o1 :> s1

\* Bins are interchangeable; so are orders that share a delivery node.
SymSame == Permutations({o1, o2}) \cup Permutations({b1, b2})

\* The disturbances of a run: each listed kind happens at most once.
Once(ks) == [k \in Kinds |-> IF k \in ks THEN 1 ELSE 0]
BudgetSafe == Once({"cancel", "crash", "dig", "fault", "lock", "refuse"})
BudgetLive == Once({"cancel", "lane", "lock"})
BudgetRefuse == Once({"refuse"})
BudgetRestart == Once({"crash"})
BudgetLock == Once({"lock"})
BudgetCancel == Once({"cancel"})
=============================================================================
