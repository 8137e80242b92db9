------------------------------ MODULE Waybill -------------------------------
(***************************************************************************)
(* What Core's tracking and releasing of a fleet job promises, whoever     *)
(* polls, releases, cancels or restarts: a plan is handed to the robot one *)
(* segment at a time and none is skipped, the job ends once, and the order *)
(* is booked as delivered only for a job that ran its whole plan.          *)
(***************************************************************************)
EXTENDS Integers

CONSTANTS Orders, Waits

VARIABLES
    given,      \* the last segment of the plan the robot has
    run,        \* the job on the floor
    book        \* the order in Core's books

vars == <<given, run, book>>

Init ==
    /\ given = [o \in Orders |-> 0]
    /\ run = [o \in Orders |-> "live"]
    /\ book = [o \in Orders |-> "open"]

Give(o) ==
    /\ run[o] = "live" /\ given[o] < Waits[o]
    /\ given' = [given EXCEPT ![o] = @ + 1]
    /\ UNCHANGED <<run, book>>

Finish(o) ==
    /\ run[o] = "live" /\ given[o] = Waits[o]
    /\ run' = [run EXCEPT ![o] = "finished"]
    /\ UNCHANGED <<given, book>>

Stop(o) ==
    /\ run[o] = "live"
    /\ run' = [run EXCEPT ![o] = "stopped"]
    /\ UNCHANGED <<given, book>>

Deliver(o) ==
    /\ run[o] = "finished" /\ book[o] = "open"
    /\ book' = [book EXCEPT ![o] = "delivered"]
    /\ UNCHANGED <<given, run>>

Confirm(o) ==
    /\ book[o] = "delivered"
    /\ book' = [book EXCEPT ![o] = "confirmed"]
    /\ UNCHANGED <<given, run>>

End(o) ==
    /\ book[o] \in {"open", "delivered"}
    /\ book' = [book EXCEPT ![o] = "ended"]
    /\ UNCHANGED <<given, run>>

Next == \E o \in Orders : \/ Give(o) \/ Finish(o) \/ Stop(o)
                          \/ Deliver(o) \/ Confirm(o) \/ End(o)

Spec == Init /\ [][Next]_vars
=============================================================================
