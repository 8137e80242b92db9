---------------------------- MODULE OrderStatus ----------------------------
(***************************************************************************)
(* The order status table of protocol/types.go and the status predicates   *)
(* of protocol/status.go that the other modules share.                     *)
(***************************************************************************)

Terminal == {"confirmed", "failed", "cancelled", "skipped"}

Live == {"pending", "sourcing", "submitted", "queued", "acknowledged",
         "dispatched", "in_transit", "staged", "faulted", "delivered",
         "reshuffling"}

Status == Live \cup Terminal

\* Mutant: a faulted order cannot be delivered, only recover first.
ValidTransitionsFaultSticks ==
    [pending      |-> {"queued", "cancelled", "failed"},
     sourcing     |-> {"queued", "dispatched", "cancelled", "failed"},
     submitted    |-> {"queued", "cancelled", "failed"},
     queued       |-> {"dispatched", "sourcing", "cancelled", "failed"},
     acknowledged |-> {"sourcing", "cancelled", "failed"},
     dispatched   |-> {"in_transit", "delivered", "sourcing", "cancelled",
                       "faulted", "failed"},
     in_transit   |-> {"delivered", "staged", "cancelled", "faulted", "failed"},
     staged       |-> {"in_transit", "delivered", "cancelled", "faulted", "failed"},
     faulted      |-> {"in_transit", "failed", "cancelled"},
     delivered    |-> {"confirmed", "cancelled", "failed"},
     reshuffling  |-> {"confirmed", "queued", "cancelled", "failed"}]

\* validTransitions: the statuses one legal step away.
ValidTransitions ==
    [pending      |-> {"sourcing", "submitted", "queued", "reshuffling",
                       "cancelled", "failed", "skipped"},
     sourcing     |-> {"queued", "submitted", "dispatched", "reshuffling",
                       "cancelled", "failed", "skipped"},
     submitted    |-> {"acknowledged", "queued", "cancelled", "failed", "skipped"},
     queued       |-> {"acknowledged", "dispatched", "in_transit", "sourcing",
                       "reshuffling", "cancelled", "failed", "skipped"},
     acknowledged |-> {"dispatched", "in_transit", "sourcing", "cancelled",
                       "faulted", "failed"},
     dispatched   |-> {"in_transit", "delivered", "sourcing", "cancelled",
                       "faulted", "failed"},
     in_transit   |-> {"delivered", "staged", "cancelled", "faulted", "failed"},
     staged       |-> {"in_transit", "delivered", "cancelled", "faulted", "failed"},
     faulted      |-> {"in_transit", "delivered", "failed", "cancelled"},
     delivered    |-> {"confirmed", "cancelled", "failed"},
     reshuffling  |-> {"confirmed", "queued", "cancelled", "failed"}]

IsTerminal(s) == s \in Terminal
IsValidTransition(s, t) == s \in Live /\ t \in ValidTransitions[s]

\* The scanner's retry set.
IsAcquiring(s) == s \in {"queued", "sourcing"}

\* The orders whose fleet job Core polls, and re-tracks after a restart.
IsVendorTracked(s) == s \in {"dispatched", "in_transit", "staged", "faulted"}

\* CountInFlightByDeliveryNode: neither terminal nor queued.
IsInFlight(s) == s \in Live \ {"queued"}
=============================================================================
