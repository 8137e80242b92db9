-------------------------- MODULE FulfilmentProofs --------------------------
(***************************************************************************)
(* Proofs about the plain order path, for any number of orders, legs, bins *)
(* and slots and any number of disturbances of every kind.                 *)
(***************************************************************************)
EXTENDS Fulfilment, TLAPS

\* Only a plain order is ever handed to the fleet.
VendorPlain == \A o \in Orders : vendor[o] => o \in Plain

TypeInv == TypeOK /\ VendorPlain

\* The tables are typed at the start.
LEMMA InitTyped == Init => TypeInv
<1> SUFFICES ASSUME Init PROVE TypeInv
  OBVIOUS
<1>1. OrdersOK /\ VendorPlain
  BY Zenon DEF Init, OrdersOK, VendorPlain, Orders, Status, Live, Terminal, Jobs
<1>2. LedgerOK /\ FloorOK
  BY Zenon DEF Init, LedgerOK, FloorOK, Places
<1>3. ScannerOK /\ PollerOK /\ BookkeepingOK
  BY Zenon DEF Init, ScannerOK, PollerOK, BookkeepingOK, ScannerSteps, PollerSteps
<1> QED
  BY <1>1, <1>2, <1>3, Zenon DEF TypeInv, TypeOK

\* The steps of Next by who takes them.
FleetStep == \E o \in Orders : FleetEvent(o)
CancelStep == \E o \in Orders : CancelOrder(o) \/ AbandonStuckOrder(o) \/ CancelEnd(o)
OrderStep == \E o \in Orders : Admit(o) \/ Load(o) \/ ConfirmReceipt(o)
SideStep ==
    \/ ReapOrphaned \/ ReleaseOrphanedClaims \/ Restart
    \/ \E l \in Legs : LegEnds(l) \/ \E b \in Bins : DigClaims(l, b)
    \/ \E b \in Bins : Lock(b) \/ Unlock(b)

\* Every step is the scanner's, the delivery's, the fleet's, a cancel's, an order's or a side step.
LEMMA NextCases ==
    Next => ScannerStep \/ DeliveryStep \/ FleetStep \/ CancelStep \/ OrderStep \/ SideStep
BY Zenon DEF Next, FleetStep, CancelStep, OrderStep, SideStep

-----------------------------------------------------------------------------
(* Types.                                                                  *)

\* What a release of an order's holdings does to the ledger and the claims.
LEMMA ReleaseTyped == ASSUME LedgerOK, NEW o, ReleaseHoldings(o) PROVE LedgerOK'
BY Zenon DEF LedgerOK, ReleaseHoldings

\* Tables of the ledger.
LEMMA LedgerTyped == TypeInv /\ Next => LedgerOK'
<1> SUFFICES ASSUME TypeInv, Next PROVE LedgerOK'
  OBVIOUS
<1> USE DEF TypeInv, TypeOK
<1>1. CASE ScannerStep
  <2>1. CASE Slot \/ HeldSlot
    BY <2>1, FulfilmentAssumption, ZenonT(30)
       DEF Slot, HeldSlot, ReserveStorageDropoff, claims, LedgerOK, ScannerOK, At, Orders
  <2>2. CASE ReserveForDispatch
    BY <2>2, Zenon DEF ReserveForDispatch, claims, LedgerOK, ScannerOK, At, Orders
  <2>3. CASE ConfirmSlot \/ ConfirmBin
    BY <2>3, FulfilmentAssumption DEF ConfirmSlot, ConfirmBin, LedgerOK, ScannerOK, At, Orders
  <2>4. CASE ReleaseClaimByOrder
    BY <2>4, ReleaseTyped, Zenon DEF ReleaseClaimByOrder
  <2>5. CASE UNCHANGED <<ledger, claims>>
    BY <2>5, Zenon DEF ledger, claims, LedgerOK
  <2> QED
    BY <1>1, <2>1, <2>2, <2>3, <2>4, <2>5, Zenon
       DEF ScannerStep, CheckDropoffCapacity, FindSource, Source, HeldSource, MoveToSourcing,
       UpdateOrderBinID, AdmitLanes, Dispatch, CreateOrder, Reread, UpdateOrderVendor, Rollback,
       BooksUnchanged
<1>2. CASE DeliveryStep
  BY <1>2, ReleaseTyped
     DEF DeliveryStep, UnclaimOrderSlots, ArrivalGuard, FailArrival, ApplyArrival,
     MarkDelivered, GraceStop, Terminalize, ledger, claims, LedgerOK
<1>3. CASE FleetStep
  BY <1>3, ReleaseTyped, ZenonT(30)
     DEF FleetStep, FleetEvent, MarkInTransit, MarkFaulted, GraceExpired, FleetOrderCancelled,
     PickupBlockCompleted, Delivered, Terminalize, ledger, claims, LedgerOK
<1>4. CASE CancelStep
  BY <1>4, ReleaseTyped, Zenon
     DEF CancelStep, CancelOrder, AbandonStuckOrder, CancelBegin, CancelEnd, Terminalize,
     ledger, claims, LedgerOK
<1>5. CASE OrderStep
  BY <1>5, ReleaseTyped, Zenon
     DEF OrderStep, Admit, Load, ConfirmReceipt, Terminalize, BooksUnchanged, ledger, claims,
     LedgerOK
<1>6. CASE SideStep
  <2>1. CASE ReapOrphaned \/ ReleaseOrphanedClaims
    BY <2>1, Zenon DEF ReapOrphaned, ReleaseOrphanedClaims, ledger, claims, LedgerOK
  <2>2. CASE \E l \in Legs : LegEnds(l)
    BY <2>2, ReleaseTyped, Zenon DEF LegEnds, Terminalize, LedgerOK, Orders
  <2>3. CASE \E l \in Legs, b \in Bins : DigClaims(l, b)
    BY <2>3 DEF DigClaims, LedgerOK, Orders
  <2> QED
    BY <1>6, <2>1, <2>2, <2>3, Zenon DEF SideStep, Restart, Lock, Unlock, ledger, claims, LedgerOK
<1> QED
  BY <1>1, <1>2, <1>3, <1>4, <1>5, <1>6, NextCases, Zenon

\* The order rows and the fleet's jobs.
LEMMA OrdersTyped == TypeInv /\ Next => OrdersOK' /\ VendorPlain'
<1> SUFFICES ASSUME TypeInv, Next PROVE OrdersOK' /\ VendorPlain'
  OBVIOUS
<1> USE DEF TypeInv, TypeOK, OrdersOK, VendorPlain
<1>1. CASE ScannerStep
  <2>1. CASE Source \/ HeldSource \/ Dispatch \/ Rollback
    BY <2>1, Zenon DEF Source, HeldSource, MoveToSourcing, Dispatch, Rollback, Status, Live
  <2>2. CASE UpdateOrderBinID
    BY <2>2, Zenon DEF UpdateOrderBinID, ScannerOK, At
  <2>3. CASE CreateOrder \/ Reread
    BY <2>3, Zenon DEF CreateOrder, Reread, orders, Jobs
  <2>4. CASE UpdateOrderVendor
    BY <2>4, Zenon DEF UpdateOrderVendor, ScannerOK, At, Jobs
  <2>5. CASE UNCHANGED <<orders, job>>
    BY <2>5, Zenon DEF orders
  <2> QED
    BY <1>1, <2>1, <2>2, <2>3, <2>4, <2>5, Zenon
       DEF ScannerStep, CheckDropoffCapacity, FindSource, Slot, HeldSlot, ReserveStorageDropoff,
       ReserveForDispatch, AdmitLanes, ConfirmSlot, ConfirmBin, ReleaseClaimByOrder,
       BooksUnchanged
<1>2. CASE DeliveryStep
  BY <1>2, Zenon DEF DeliveryStep, UnclaimOrderSlots, ArrivalGuard, FailArrival, ApplyArrival,
     MarkDelivered, GraceStop, StopJob, Terminalize, orders, Jobs, Status, Live, Terminal
<1>3. CASE FleetStep
  BY <1>3, ZenonT(40) DEF FleetStep, FleetEvent, MarkInTransit, MarkFaulted, GraceExpired,
     FleetOrderCancelled, PickupBlockCompleted, Delivered, Terminalize, orders, Jobs, Status,
     Live, Terminal
<1>4. CASE CancelStep
  BY <1>4, ZenonT(30) DEF CancelStep, CancelOrder, AbandonStuckOrder, CancelBegin, CancelEnd, StopJob,
     Terminalize, orders, Jobs, Status, Live, Terminal
<1>5. CASE OrderStep
  BY <1>5, Zenon DEF OrderStep, Admit, Load, ConfirmReceipt, Terminalize, BooksUnchanged, orders,
     Status, Live, Terminal
<1>6. CASE SideStep
  <2>1. CASE \E l \in Legs, b \in Bins : DigClaims(l, b)
    BY <2>1 DEF DigClaims, StealSoftHold, Status, Live, Orders
  <2>2. CASE \E l \in Legs : LegEnds(l)
    BY <2>2, Zenon DEF LegEnds, Terminalize, Status, Live, Terminal
  <2>3. CASE Restart
    BY <2>3, Zenon DEF Restart, Heard, orders, Jobs
  <2>4. CASE UNCHANGED <<orders, job>>
    BY <2>4, Zenon DEF orders
  <2> QED
    BY <1>6, <2>1, <2>2, <2>3, <2>4, Zenon DEF SideStep, ReapOrphaned, ReleaseOrphanedClaims, Lock,
       Unlock
<1> QED
  BY <1>1, <1>2, <1>3, <1>4, <1>5, <1>6, NextCases, Zenon

\* Where bins stand.
LEMMA FloorTyped == TypeInv /\ Next => FloorOK'
<1> SUFFICES ASSUME TypeInv, Next PROVE FloorOK'
  OBVIOUS
<1> USE DEF TypeInv, TypeOK, FloorOK, Places
<1>1. CASE ApplyArrival
  BY <1>1, FulfilmentAssumption, Zenon DEF ApplyArrival, PollerOK
<1>2. CASE \E o \in Orders : PickupBlockCompleted(o)
  BY <1>2, Zenon DEF PickupBlockCompleted
<1>3. CASE SideStep
  BY <1>3, Zenon DEF SideStep, ReapOrphaned, ReleaseOrphanedClaims, Restart, LegEnds, DigClaims, Lock,
     Unlock, floor
<1>4. CASE UNCHANGED floor
  BY <1>4, Zenon DEF floor
<1>5. ScannerStep => UNCHANGED floor
  BY Zenon DEF ScannerStep, CheckDropoffCapacity, FindSource, Source, HeldSource, MoveToSourcing,
     Slot, HeldSlot, ReserveStorageDropoff, ReserveForDispatch, UpdateOrderBinID, AdmitLanes,
     ConfirmSlot, ConfirmBin, Dispatch, CreateOrder, Reread, UpdateOrderVendor, Rollback,
     ReleaseClaimByOrder, BooksUnchanged
<1>6. FleetStep \/ CancelStep \/ OrderStep
      => UNCHANGED floor \/ \E o \in Orders : PickupBlockCompleted(o)
  BY Zenon DEF FleetStep, FleetEvent, MarkInTransit, MarkFaulted, GraceExpired, FleetOrderCancelled,
     Delivered, CancelStep, CancelOrder, AbandonStuckOrder, CancelBegin, CancelEnd, OrderStep,
     Admit, Load, ConfirmReceipt, BooksUnchanged
<1> QED
  BY <1>1, <1>2, <1>3, <1>4, <1>5, <1>6, NextCases, Zenon
     DEF DeliveryStep, UnclaimOrderSlots, ArrivalGuard, FailArrival, MarkDelivered, GraceStop

\* The two program counters, and the bookkeeping of the model.
LEMMA ControlTyped == TypeInv /\ Next => ScannerOK' /\ PollerOK' /\ BookkeepingOK'
<1> SUFFICES ASSUME TypeInv, Next PROVE ScannerOK' /\ PollerOK' /\ BookkeepingOK'
  OBVIOUS
<1> USE DEF TypeInv, TypeOK
<1>1. ASSUME NEW k \in Kinds, Spend(k) PROVE used' \in [Kinds -> Nat]
  BY <1>1 DEF Spend, BookkeepingOK
<1>2. CASE ScannerStep
  <2>1. ScannerOK'
    BY <1>2, Zenon DEF ScannerStep, CheckDropoffCapacity, FindSource, Source, HeldSource,
       MoveToSourcing, Slot, HeldSlot, ReserveStorageDropoff, ReserveForDispatch,
       UpdateOrderBinID, AdmitLanes, ConfirmSlot, ConfirmBin, Dispatch, CreateOrder, Reread,
       UpdateOrderVendor, Rollback, ReleaseClaimByOrder, At, Goto, Park, ScannerOK,
       ScannerSteps, Status, Live
  <2>2. PollerOK' /\ BookkeepingOK'
    BY <1>1, <1>2, Zenon DEF ScannerStep, CheckDropoffCapacity, FindSource, Source, HeldSource,
       MoveToSourcing, Slot, HeldSlot, ReserveStorageDropoff, ReserveForDispatch,
       UpdateOrderBinID, AdmitLanes, ConfirmSlot, ConfirmBin, Dispatch, CreateOrder, Reread,
       UpdateOrderVendor, Rollback, ReleaseClaimByOrder, BooksUnchanged, poller, PollerOK,
       BookkeepingOK, Kinds
  <2> QED
    BY <2>1, <2>2, Zenon
<1>3. CASE DeliveryStep
  BY <1>3, Zenon DEF DeliveryStep, UnclaimOrderSlots, ArrivalGuard, FailArrival, ApplyArrival,
     MarkDelivered, GraceStop, scanner, ScannerOK, PollerOK, PollerSteps, BookkeepingOK, Step,
     Handled, Orders
<1>4. CASE FleetStep
  BY <1>1, <1>4 DEF FleetStep, FleetEvent, MarkInTransit, MarkFaulted, GraceExpired,
     FleetOrderCancelled, PickupBlockCompleted, Delivered, VendorPlain, OrdersOK, scanner,
     poller, ScannerOK, PollerOK, PollerSteps, BookkeepingOK, Status, Terminal, Kinds
<1>5. CASE CancelStep
  BY <1>1, <1>5, Zenon DEF CancelStep, CancelOrder, AbandonStuckOrder, CancelBegin, CancelEnd,
     scanner, poller, ScannerOK, PollerOK, BookkeepingOK, Kinds
<1>6. CASE OrderStep
  BY <1>6, ZenonT(30) DEF OrderStep, Admit, Load, ConfirmReceipt, BooksUnchanged, OrdersOK, scanner,
     poller, ScannerOK, PollerOK, BookkeepingOK, ScannerSteps
<1>7. CASE SideStep
  <2>1. CASE Restart
    BY <1>1, <2>1, Zenon DEF Restart, ScannerOK, PollerOK, BookkeepingOK, ScannerSteps, PollerSteps, Kinds
  <2>2. CASE \E l \in Legs : LegEnds(l) \/ \E b \in Bins : DigClaims(l, b)
    BY <1>1, <2>2, Zenon DEF LegEnds, DigClaims, scanner, poller, ScannerOK, PollerOK, BookkeepingOK, Kinds
  <2>3. CASE UNCHANGED <<scanner, poller, cancelling, landed>>
             /\ (used' = used \/ \E b \in Bins : Lock(b) \/ Unlock(b))
    BY <1>1, <2>3, Zenon DEF Lock, Unlock, scanner, poller, ScannerOK, PollerOK, BookkeepingOK, Kinds
  <2> QED
    BY <1>7, <2>1, <2>2, <2>3, Zenon DEF SideStep, ReapOrphaned, ReleaseOrphanedClaims, Lock, Unlock
<1> QED
  BY <1>2, <1>3, <1>4, <1>5, <1>6, <1>7, NextCases, Zenon

\* The typing is inductive once it says that only plain orders reach the fleet.
LEMMA AlwaysTyped == Spec => []TypeInv
<1>1. TypeInv /\ Next => TypeInv'
  BY LedgerTyped, OrdersTyped, FloorTyped, ControlTyped, Zenon DEF TypeInv, TypeOK
<1>2. TypeInv /\ UNCHANGED vars => TypeInv'
  BY Zenon DEF vars, orders, ledger, claims, floor, scanner, poller, TypeInv, TypeOK, VendorPlain,
     OrdersOK, LedgerOK, FloorOK, ScannerOK, PollerOK, BookkeepingOK
<1> QED
  BY InitTyped, <1>1, <1>2, PTL DEF Spec

\* Every behaviour of the order path keeps its tables typed, and no step goes on
\* without the order or the bin it needs in hand, whatever cancels, digs, locks,
\* refusals and restarts interleave with it.
THEOREM TypeCorrect == Spec => []TypeOK
<1>1. TypeInv => TypeOK
  BY Zenon DEF TypeInv
<1> QED
  BY AlwaysTyped, <1>1, PTL

-----------------------------------------------------------------------------
(* Statuses: every step that changes one.                                  *)

\* A status moves by the intake, by the scanner's three compare-and-swaps, by
\* the fleet's events for a job Core knows, by the creation of a leg, or to its
\* end; and never from its end.
StatusMove(o) ==
    \/ status'[o] = status[o]
    \/ LiveOrder(o) /\ Dead(o)'
    \/ o \in Plain /\ status[o] = "pending" /\ status'[o] = "queued"
    \/ /\ o = cur /\ pc \in {"source", "heldSource"} /\ pc' \in {"slot", "lanes"} /\ cur' = cur
       /\ status[o] = snap /\ snap # "sourcing" /\ LiveOrder(o) /\ status'[o] = "sourcing"
    \/ /\ o = cur /\ pc = "dispatch" /\ pc' = "create" /\ cur' = cur
       /\ status[o] = "sourcing" /\ status'[o] = "dispatched"
    \/ /\ o = cur /\ pc = "rollback" /\ pc' = "release" /\ cur' = cur
       /\ status[o] = "dispatched" /\ status'[o] = "sourcing"
    \/ /\ vendor[o] /\ LiveOrder(o) /\ status[o] # "delivered"
       /\ status'[o] \in {"in_transit", "faulted"}
    \/ o = arr /\ apc = "mark" /\ LiveOrder(o) /\ status'[o] = "delivered"
    \/ o \in Legs /\ status[o] = "none" /\ status'[o] = "pending"

\* What a step may do to the status and the bin of an order.
LEMMA StatusMoves == TypeInv /\ Next => \A o \in Orders : StatusMove(o)
<1> SUFFICES ASSUME TypeInv, Next, NEW o \in Orders PROVE StatusMove(o)
  OBVIOUS
<1> USE DEF TypeInv, TypeOK, OrdersOK, StatusMove
<1>1. CASE ScannerStep
  <2>1. CASE Source \/ HeldSource
    BY <2>1, Zenon DEF Source, HeldSource, MoveToSourcing, CanSwap, IsValidTransition, At, LiveOrder
  <2>2. CASE Dispatch \/ Rollback
    BY <2>2, Zenon DEF Dispatch, Rollback, CanSwap, At, Goto
  <2>3. CASE UNCHANGED status
    BY <2>3, Zenon
  <2> QED
    BY <1>1, <2>1, <2>2, <2>3, Zenon
       DEF ScannerStep, CheckDropoffCapacity, FindSource, Slot, HeldSlot, ReserveStorageDropoff,
       ReserveForDispatch, UpdateOrderBinID, AdmitLanes, ConfirmSlot, ConfirmBin, CreateOrder,
       Reread, UpdateOrderVendor, ReleaseClaimByOrder, BooksUnchanged, orders
<1>2. CASE DeliveryStep
  BY <1>2, Zenon DEF DeliveryStep, UnclaimOrderSlots, ArrivalGuard, FailArrival, ApplyArrival,
     MarkDelivered, GraceStop, Terminalize, CanSwap, IsValidTransition, LiveOrder, Dead,
     IsTerminal, Terminal, orders
<1>3. CASE FleetStep
  <2>1. PICK q \in Orders : FleetEvent(q)
    BY <1>3, Zenon DEF FleetStep
  <2>2. CASE MarkInTransit(q) \/ MarkFaulted(q)
    <3>1. PICK to \in {"in_transit", "faulted"} :
            status' = [status EXCEPT ![q] = to] /\ vendor[q] /\ IsValidTransition(status[q], to)
      BY <2>2, Zenon DEF MarkInTransit, MarkFaulted, CanSwap
    <3>2. LiveOrder(q) /\ status[q] # "delivered"
      BY <3>1 DEF IsValidTransition, ValidTransitions, LiveOrder, IsTerminal, Terminal
    <3> QED
      BY <3>1, <3>2, Zenon
  <2>3. CASE GraceExpired(q) \/ FleetOrderCancelled(q)
    BY <2>3, Zenon DEF GraceExpired, FleetOrderCancelled, Terminalize, LiveOrder, Dead, IsTerminal,
       Terminal
  <2>4. CASE PickupBlockCompleted(q) \/ Delivered(q)
    BY <2>4, Zenon DEF PickupBlockCompleted, Delivered, orders
  <2> QED
    BY <2>1, <2>2, <2>3, <2>4, Zenon DEF FleetEvent
<1>4. CASE CancelStep
  BY <1>4, Zenon DEF CancelStep, CancelOrder, AbandonStuckOrder, CancelBegin, CancelEnd, Terminalize,
     LiveOrder, Dead, IsTerminal, Terminal, orders
<1>5. CASE OrderStep
  BY <1>5, Zenon DEF OrderStep, Admit, Load, ConfirmReceipt, Terminalize, LiveOrder, Dead, IsTerminal,
     Terminal, BooksUnchanged, orders
<1>6. CASE SideStep
  BY <1>6, Zenon DEF SideStep, ReapOrphaned, ReleaseOrphanedClaims, Restart, LegEnds, DigClaims, Lock,
     Unlock, Terminalize, LiveOrder, Dead, IsTerminal, Terminal, orders
<1> QED
  BY <1>1, <1>2, <1>3, <1>4, <1>5, <1>6, NextCases, Zenon

\* Whatever races it, no step of the scanner, the poller, a cancel or a sweep
\* changes the status of an order that has ended: the compare-and-swaps of
\* transition and the first-wins rule of TerminalizeOrderWithReason are enough.
THEOREM EndedForGood == Spec => TerminalIsForever
<1> DEFINE Kept == \A o \in Orders : Dead(o) => status'[o] = status[o]
<1>1. TypeInv /\ [Next]_vars => [Kept]_vars
  <2> SUFFICES ASSUME TypeInv, Next PROVE Kept
    OBVIOUS
  <2> SUFFICES ASSUME NEW o \in Orders, Dead(o) PROVE status'[o] = status[o]
    OBVIOUS
  <2>1. StatusMove(o)
    BY StatusMoves, Zenon
  <2>2. status[o] \in Terminal /\ status[o] \notin Live
    BY Zenon DEF Dead, IsTerminal, Terminal, Live
  <2> QED
    BY <2>1, <2>2, Zenon DEF StatusMove, LiveOrder, Terminal, Live
<1> QED
  BY AlwaysTyped, <1>1, PTL DEF Spec, TerminalIsForever

-----------------------------------------------------------------------------
(* Where the scanner and the poller stand, and what that says of the order *)
(* each has in hand.                                                       *)

Acquiring == {"capacity", "find", "source", "slot", "bin", "stamp", "heldSlot",
              "heldSource", "lanes", "confirmSlot", "confirmBin", "dispatch", "release"}
HandingOver == {"create", "reread", "name", "rollback"}

\* An order in the scanner's hands is none the fleet's events are about: the two
\* goroutines never work on one order.
StageInv ==
    /\ pc \in Acquiring => status[cur] \in {"queued", "sourcing"} \cup Terminal
    /\ pc \in HandingOver => status[cur] \in {"dispatched"} \cup Terminal
    /\ pc # "idle" => ~vendor[cur]
    /\ \A o \in Orders : vendor[o] =>
         status[o] \in {"dispatched", "in_transit", "staged", "faulted", "delivered"} \cup Terminal
    /\ \A o \in Plain : status[o] # "none"
    /\ apc # "idle" => vendor[arr]
    /\ apc \in {"unclaim", "guard", "fail", "place", "mark"} => job[arr] = "reported"

\* How the scanner's position moves.
ScannerMove ==
    \/ pc' = pc /\ cur' = cur
    \/ pc' = "idle"
    \/ pc = "idle" /\ pc' = "capacity" /\ cur' \in Plain /\ IsAcquiring(status[cur'])
    \/ cur' = cur /\ pc \in Acquiring \ {"dispatch", "release"} /\ pc' \in Acquiring \ {"release"}
    \/ cur' = cur /\ pc = "dispatch" /\ pc' = "create" /\ status'[cur] = "dispatched"
    \/ cur' = cur /\ pc = "dispatch" /\ pc' = "release"
    \/ cur' = cur /\ pc \in HandingOver \ {"rollback"} /\ pc' \in HandingOver
    \/ cur' = cur /\ pc = "rollback" /\ pc' = "release" /\ status'[cur] # "dispatched"

\* How the scanner may change the order it works on (tryFulfill is sequential).
LEMMA ScannerMoves == TypeInv /\ Next => ScannerMove
<1> SUFFICES ASSUME TypeInv, Next PROVE ScannerMove
  OBVIOUS
<1> USE DEF TypeInv, TypeOK, ScannerMove, Acquiring, HandingOver
<1>1. CASE ScannerStep
  <2>1. CASE Source \/ HeldSource
    BY <2>1, Zenon DEF Source, HeldSource, MoveToSourcing, At, Park
  <2>2. CASE Slot \/ HeldSlot \/ ReserveForDispatch \/ UpdateOrderBinID
    BY <2>2, Zenon DEF Slot, HeldSlot, ReserveStorageDropoff, ReserveForDispatch, UpdateOrderBinID,
       At, Goto, Park
  <2>3. CASE CheckDropoffCapacity \/ FindSource \/ AdmitLanes \/ ConfirmSlot \/ ConfirmBin
    BY <2>3, Zenon DEF CheckDropoffCapacity, FindSource, AdmitLanes, ConfirmSlot, ConfirmBin, At, Goto,
       Park
  <2>4. CASE Dispatch \/ Rollback
    BY <2>4, Zenon DEF Dispatch, Rollback, CanSwap, IsValidTransition, ValidTransitions, Live, OrdersOK,
       ScannerOK, Orders, At, Goto
  <2>5. CASE CreateOrder \/ Reread \/ UpdateOrderVendor \/ ReleaseClaimByOrder
    BY <2>5, Zenon DEF CreateOrder, Reread, UpdateOrderVendor, ReleaseClaimByOrder, At, Goto, Park
  <2> QED
    BY <1>1, <2>1, <2>2, <2>3, <2>4, <2>5, Zenon DEF ScannerStep
<1>2. CASE \E o \in Orders : Load(o)
  BY <1>2, Zenon DEF Load, At
<1>3. CASE UNCHANGED scanner
  BY <1>3, Zenon DEF scanner
<1>4. CASE Restart
  BY <1>4, Zenon DEF Restart
<1> QED
  BY <1>1, <1>2, <1>3, <1>4, NextCases, Zenon
     DEF DeliveryStep, UnclaimOrderSlots, ArrivalGuard, FailArrival, ApplyArrival, MarkDelivered,
     GraceStop, FleetStep, FleetEvent, MarkInTransit, MarkFaulted, GraceExpired,
     FleetOrderCancelled, PickupBlockCompleted, Delivered, CancelStep, CancelOrder,
     AbandonStuckOrder, CancelBegin, CancelEnd, OrderStep, Admit, ConfirmReceipt, SideStep,
     ReapOrphaned, ReleaseOrphanedClaims, LegEnds, DigClaims, Lock, Unlock

\* The vendor id is written in one place.
LEMMA VendorMoves ==
    TypeInv /\ Next => \A o \in Orders :
        \/ vendor'[o] = vendor[o]
        \/ o = cur /\ pc = "name" /\ pc' = "idle"
<1> SUFFICES ASSUME TypeInv, Next, NEW o \in Orders
             PROVE \/ vendor'[o] = vendor[o]
                   \/ o = cur /\ pc = "name" /\ pc' = "idle"
  OBVIOUS
<1>1. CASE UpdateOrderVendor
  BY <1>1, Zenon DEF UpdateOrderVendor, TypeInv, TypeOK, OrdersOK, At, Park
<1>2. CASE vendor' = vendor
  BY <1>2, Zenon
<1>3. ScannerStep => vendor' = vendor \/ UpdateOrderVendor
  BY Zenon DEF ScannerStep, CheckDropoffCapacity, FindSource, Source, HeldSource, MoveToSourcing,
     Slot, HeldSlot, ReserveStorageDropoff, ReserveForDispatch, UpdateOrderBinID, AdmitLanes,
     ConfirmSlot, ConfirmBin, Dispatch, CreateOrder, Reread, Rollback, ReleaseClaimByOrder,
     BooksUnchanged, orders
<1> QED
  BY <1>1, <1>2, <1>3, NextCases, Zenon
     DEF DeliveryStep, UnclaimOrderSlots, ArrivalGuard, FailArrival, ApplyArrival, MarkDelivered,
     GraceStop, FleetStep, FleetEvent, MarkInTransit, MarkFaulted, GraceExpired,
     FleetOrderCancelled, PickupBlockCompleted, Delivered, CancelStep, CancelOrder,
     AbandonStuckOrder, CancelBegin, CancelEnd, OrderStep, Admit, Load, ConfirmReceipt, SideStep,
     ReapOrphaned, ReleaseOrphanedClaims, LegEnds, DigClaims, Lock, Unlock, Restart,
     BooksUnchanged, orders

\* How the poller's position moves.
PollerMove ==
    \/ apc' = apc /\ arr' = arr
    \/ apc' = "idle"
    \/ apc = "idle" /\ apc' = "stop" /\ arr' \in Orders /\ vendor[arr']
    \/ apc = "idle" /\ apc' = "unclaim" /\ arr' \in Orders /\ vendor[arr'] /\ job'[arr'] = "reported"
    \/ apc \in {"unclaim", "guard", "place"} /\ apc' \in {"guard", "fail", "place", "mark"} /\ arr' = arr

\* What happens to the fleet's job of an order.
JobMove(o) ==
    \/ job'[o] = job[o]
    \/ o = cur /\ pc = "create" /\ pc' = "reread" /\ cur' = cur /\ job'[o] = "live"
    \/ o = cur /\ pc \in {"reread", "name"} /\ job'[o] = "stopped"
    \/ job[o] \in {"live", "carrying"} /\ job'[o] \in {"live", "carrying", "lost", "stopped", "reported"}
    \/ job[o] \in {"again", "done"} /\ job'[o] \in {"again", "done", "reported"}
    \/ apc' = "idle" /\ job[o] = "reported" /\ job'[o] = "again"

\* How the poller may change the order it works on, and a step an order's job.
LEMMA PollerMoves == TypeInv /\ Next => PollerMove /\ \A o \in Orders : JobMove(o)
<1> SUFFICES ASSUME TypeInv, Next PROVE PollerMove /\ \A o \in Orders : JobMove(o)
  OBVIOUS
<1> USE DEF TypeInv, TypeOK, OrdersOK, PollerMove, JobMove
<1>1. CASE ScannerStep
  <2>1. CASE CreateOrder \/ Reread \/ UpdateOrderVendor
    BY <2>1, Zenon DEF CreateOrder, Reread, UpdateOrderVendor, At, Goto, poller
  <2>2. CASE UNCHANGED <<job, poller>>
    BY <2>2, Zenon DEF poller
  <2> QED
    BY <1>1, <2>1, <2>2, Zenon
       DEF ScannerStep, CheckDropoffCapacity, FindSource, Source, HeldSource, MoveToSourcing,
       Slot, HeldSlot, ReserveStorageDropoff, ReserveForDispatch, UpdateOrderBinID, AdmitLanes,
       ConfirmSlot, ConfirmBin, Dispatch, Rollback, ReleaseClaimByOrder, BooksUnchanged
<1>2. CASE DeliveryStep
  BY <1>2, Zenon DEF DeliveryStep, UnclaimOrderSlots, ArrivalGuard, FailArrival, ApplyArrival,
     MarkDelivered, GraceStop, StopJob, Step, Handled
<1>3. CASE FleetStep
  BY <1>3, Zenon DEF FleetStep, FleetEvent, MarkInTransit, MarkFaulted, GraceExpired,
     FleetOrderCancelled, PickupBlockCompleted, Delivered, PollerIdle, poller
<1>4. CASE CancelStep
  BY <1>4, Zenon DEF CancelStep, CancelOrder, AbandonStuckOrder, CancelBegin, CancelEnd, StopJob, poller
<1>5. CASE OrderStep
  BY <1>5, Zenon DEF OrderStep, Admit, Load, ConfirmReceipt, BooksUnchanged, poller
<1>6. CASE SideStep
  <2>1. CASE Restart
    BY <2>1, Zenon DEF Restart, Heard, Jobs
  <2>2. CASE UNCHANGED <<job, poller>>
    BY <2>2, Zenon DEF poller
  <2> QED
    BY <1>6, <2>1, <2>2, Zenon DEF SideStep, ReapOrphaned, ReleaseOrphanedClaims, LegEnds, DigClaims,
       Lock, Unlock
<1> QED
  BY <1>1, <1>2, <1>3, <1>4, <1>5, <1>6, NextCases, Zenon

\* The scanner and the poller keep to orders in the stage their position implies.
LEMMA StageKept == TypeInv /\ StageInv /\ Next => StageInv'
<1> SUFFICES ASSUME TypeInv, StageInv, Next PROVE StageInv'
  OBVIOUS
<1>1. /\ ScannerMove /\ PollerMove
      /\ \A o \in Orders : /\ StatusMove(o) /\ JobMove(o)
                           /\ \/ vendor'[o] = vendor[o]
                              \/ o = cur /\ pc = "name" /\ pc' = "idle"
  BY StatusMoves, ScannerMoves, PollerMoves, VendorMoves, Zenon
<1>2. TypeOK /\ TypeOK' /\ VendorPlain
  BY LedgerTyped, OrdersTyped, FloorTyped, ControlTyped, Zenon DEF TypeInv, TypeOK
<1>3. /\ pc # "idle" => cur \in Plain /\ cur \in Orders
      /\ pc' # "idle" => cur' \in Plain /\ cur' \in Orders
      /\ apc # "idle" => arr \in Plain /\ arr \in Orders
      /\ Plain \cap Legs = {} /\ Plain \subseteq Orders
  BY <1>2, FulfilmentAssumption, Zenon DEF TypeOK, ScannerOK, PollerOK, Orders
<1>4. apc = "mark" => arr # cur \/ pc = "idle"
  BY <1>3, Zenon DEF StageInv
<1>5. (pc # "idle" => ~vendor[cur])'
  BY <1>1, <1>3, Zenon DEF ScannerMove, StageInv, IsAcquiring, Acquiring, HandingOver, Terminal
<1>6. (pc \in Acquiring => status[cur] \in {"queued", "sourcing"} \cup Terminal)'
  BY <1>1, <1>3, <1>4, ZenonT(40) DEF ScannerMove, StatusMove, StageInv, IsAcquiring, Acquiring, HandingOver,
     Terminal, LiveOrder, Live, Dead, IsTerminal
<1>7. (pc \in HandingOver => status[cur] \in {"dispatched"} \cup Terminal)'
  BY <1>1, <1>3, <1>4, ZenonT(30) DEF ScannerMove, StatusMove, StageInv, Acquiring, HandingOver, Terminal,
     LiveOrder, Live, Dead, IsTerminal
<1>8. ASSUME NEW o \in Orders, vendor'[o]
      PROVE status'[o] \in {"dispatched", "in_transit", "staged", "faulted", "delivered"} \cup Terminal
  BY <1>1, <1>3, <1>8, ZenonT(40) DEF StatusMove, StageInv, HandingOver, Terminal, LiveOrder, Live, Dead,
     IsTerminal
<1>9. \A o \in Plain : status'[o] # "none"
  BY <1>1, <1>3, Zenon DEF StatusMove, StageInv, Terminal, Dead, IsTerminal
<1>10. (apc # "idle" => vendor[arr])'
  BY <1>1, <1>3, Zenon DEF PollerMove, StageInv
<1>11. (apc \in {"unclaim", "guard", "fail", "place", "mark"} => job[arr] = "reported")'
  BY <1>1, <1>3, Zenon DEF PollerMove, JobMove, StageInv, HandingOver
<1> QED
  BY <1>5, <1>6, <1>7, <1>8, <1>9, <1>10, <1>11, Zenon DEF StageInv

-----------------------------------------------------------------------------
(* One order on its way to each delivery node.                             *)

OnItsWay(o) == IsInFlight(status[o]) /\ status[o] # "pending"

\* Past the capacity check the scanner has its order's node to itself: only the
\* scanner puts an order on its way, and it has this one in hand.
NodeInv ==
    pc \notin {"idle", "capacity"} =>
        \A p \in Plain \ {cur} : Dest[p] = Dest[cur] => ~OnItsWay(p)

\* Only the scanner's own order starts on its way.
LEMMA StartsOnItsWay ==
    ASSUME TypeInv, StageInv, Next, NEW o \in Plain, OnItsWay(o)'
    PROVE OnItsWay(o) \/ (o = cur /\ pc \in {"source", "heldSource"})
<1>1. StatusMove(o) /\ o \in Orders
  BY StatusMoves, Zenon DEF Orders
<1>2. o \notin Legs
  BY FulfilmentAssumption, Zenon
<1>3. apc = "mark" /\ o = arr => vendor[o]
  BY Zenon DEF StageInv
<1>4. vendor[o] /\ LiveOrder(o) => OnItsWay(o)
  BY <1>1, Zenon DEF StageInv, LiveOrder, OnItsWay, IsInFlight, Live, Terminal
<1> QED
  BY <1>1, <1>2, <1>3, <1>4, Zenon DEF StatusMove, OnItsWay, IsInFlight, Live, Terminal, Dead, IsTerminal

\* An order past the capacity gate keeps the delivery node to itself while the
\* scanner works on it.
LEMMA NodeKept == TypeInv /\ StageInv /\ NodeInv /\ Next => NodeInv'
<1> SUFFICES ASSUME TypeInv, StageInv, NodeInv, Next,
                    pc' \notin {"idle", "capacity"},
                    NEW p \in Plain, p # cur', Dest[p] = Dest[cur']
             PROVE ~OnItsWay(p)'
  BY Zenon DEF NodeInv, OnItsWay
<1>1. cur' = cur /\ pc # "idle"
  BY ScannerMoves, Zenon DEF ScannerMove, Acquiring, HandingOver
<1>2. ~OnItsWay(p)
  <2>1. CASE pc = "capacity"
    <3>1. ScannerStep => CheckDropoffCapacity
      BY <2>1, Zenon DEF ScannerStep, FindSource, Source, HeldSource, Slot, HeldSlot,
         ReserveForDispatch, UpdateOrderBinID, AdmitLanes, ConfirmSlot, ConfirmBin, Dispatch,
         CreateOrder, Reread, UpdateOrderVendor, Rollback, ReleaseClaimByOrder, At
    <3>2. ScannerStep
      BY <2>1, NextCases, Zenon
         DEF DeliveryStep, UnclaimOrderSlots, ArrivalGuard, FailArrival, ApplyArrival,
         MarkDelivered, GraceStop, FleetStep, FleetEvent, MarkInTransit, MarkFaulted,
         GraceExpired, FleetOrderCancelled, PickupBlockCompleted, Delivered, CancelStep,
         CancelOrder, AbandonStuckOrder, CancelBegin, CancelEnd, OrderStep, Admit, Load,
         ConfirmReceipt, SideStep, ReapOrphaned, ReleaseOrphanedClaims, LegEnds, DigClaims, Lock,
         Unlock, Restart, At, scanner
    <3>3. ~DropoffBlocked(cur)
      BY <3>1, <3>2, Zenon DEF CheckDropoffCapacity, Park
    <3> QED
      BY <1>1, <3>3, Zenon DEF DropoffBlocked, OnItsWay
  <2>2. CASE pc # "capacity"
    BY <1>1, <2>2, Zenon DEF NodeInv
  <2> QED
    BY <2>1, <2>2, Zenon
<1> QED
  BY <1>1, <1>2, StartsOnItsWay, Zenon

\* The capacity gate of tryFulfill admits no second order to a node.
LEMMA OnePerNodeKept ==
    TypeInv /\ StageInv /\ NodeInv /\ OneInFlightPerNode /\ Next => OneInFlightPerNode'
<1> SUFFICES ASSUME TypeInv, StageInv, NodeInv, OneInFlightPerNode, Next,
                    NEW o \in Plain, NEW p \in Plain,
                    OnItsWay(o)', OnItsWay(p)', Dest[o] = Dest[p]
             PROVE o = p
  BY Zenon DEF OneInFlightPerNode, OnItsWay
<1>1. OnItsWay(o) \/ (o = cur /\ pc \in {"source", "heldSource"})
  BY StartsOnItsWay, Zenon
<1>2. OnItsWay(p) \/ (p = cur /\ pc \in {"source", "heldSource"})
  BY StartsOnItsWay, Zenon
<1> QED
  BY <1>1, <1>2, Zenon DEF NodeInv, OneInFlightPerNode, OnItsWay

-----------------------------------------------------------------------------
(* The bin of an order in the fleet's hands.                               *)

\* The order points at a bin, hard-claims it, and does so under its own
\* confirmed reservation.
Holding(o) ==
    /\ binId[o] \in Bins
    /\ binClaim[binId[o]] = o /\ binRow[binId[o]] = o /\ binId[o] \in binFirm

\* While the reservation of the bin in hand is the order's, the order points at
\* the bin: a dig that takes the row takes the pointer with it.
SoftInv ==
    /\ pc \in {"capacity", "heldSlot", "heldSource", "lanes", "confirmSlot", "confirmBin"}
    /\ pick \in Bins /\ binRow[pick] = cur
    => binId[cur] = pick

\* From the confirmed claim to the vendor id the order holds its bin, unless it
\* has ended meanwhile.
HardInv ==
    pc \in {"dispatch", "create", "reread", "name"} /\ ~Dead(cur) => Holding(cur)

\* A plain order that holds its bin keeps it through every step but its own end,
\* its own arrival, and its own scanner tick's release.
LEMMA HoldingKept ==
    ASSUME TypeInv, StageInv, Next, NEW o \in Plain, Holding(o)
    PROVE Holding(o)' \/ Dead(o)' \/ (o = arr /\ apc = "place") \/ (o = cur /\ pc \in {"release", "stamp"})
<1> USE DEF Holding
<1> DEFINE Kept == Holding(o)' \/ Dead(o)' \/ (o = arr /\ apc = "place")
                   \/ (o = cur /\ pc \in {"release", "stamp"})
<1>1. o \in Orders /\ o # None /\ o \notin Legs /\ status[o] # "none"
  BY FulfilmentAssumption, Zenon DEF Orders, StageInv
<1>2. ASSUME NEW q \in Orders, NEW to \in Terminal, Terminalize(q, to), UNCHANGED binId
      PROVE Holding(o)' \/ Dead(o)'
  BY <1>1, <1>2, Zenon DEF Terminalize, ReleaseHoldings, LiveOrder, Dead, IsTerminal, TypeInv, TypeOK,
     OrdersOK, LedgerOK, Status
<1>3. CASE UNCHANGED <<binId, binRow, binFirm, binClaim>>
  BY <1>3, Zenon
<1>4. CASE ScannerStep
  <2>1. CASE ReserveForDispatch
    BY <2>1, <1>1, Zenon DEF ReserveForDispatch, orders, claims, TypeInv, TypeOK, LedgerOK
  <2>2. CASE UpdateOrderBinID
    BY <2>2, <1>1, Zenon DEF UpdateOrderBinID, ledger, claims, At, TypeInv, TypeOK, OrdersOK
  <2>3. CASE ConfirmBin
    BY <2>3, <1>1, Zenon DEF ConfirmBin, CanClaimBin, orders, TypeInv, TypeOK, LedgerOK
  <2>4. CASE ReleaseClaimByOrder
    BY <2>4, <1>1, Zenon DEF ReleaseClaimByOrder, ReleaseHoldings, orders, At, TypeInv, TypeOK, LedgerOK
  <2> QED
    BY <1>3, <1>4, <2>1, <2>2, <2>3, <2>4, Zenon
       DEF ScannerStep, CheckDropoffCapacity, FindSource, Source, HeldSource, MoveToSourcing,
       Slot, HeldSlot, ReserveStorageDropoff, AdmitLanes, ConfirmSlot, Dispatch, CreateOrder,
       Reread, UpdateOrderVendor, Rollback, BooksUnchanged, orders, ledger, claims
<1>5. CASE ApplyArrival
  BY <1>1, <1>5, Zenon DEF ApplyArrival, orders, TypeInv, TypeOK, LedgerOK
<1>6. CASE DeliveryStep
  BY <1>2, <1>3, <1>5, <1>6, Zenon
     DEF DeliveryStep, UnclaimOrderSlots, ArrivalGuard, FailArrival, MarkDelivered, GraceStop,
     orders, ledger, claims, TypeInv, TypeOK, PollerOK, Orders, Terminal
<1>7. CASE FleetStep \/ CancelStep \/ OrderStep
  BY <1>2, <1>3, <1>7, Zenon
     DEF FleetStep, FleetEvent, MarkInTransit, MarkFaulted, GraceExpired, FleetOrderCancelled,
     PickupBlockCompleted, Delivered, CancelStep, CancelOrder, AbandonStuckOrder, CancelBegin,
     CancelEnd, OrderStep, Admit, Load, ConfirmReceipt, BooksUnchanged, orders, ledger, claims,
     Terminal
<1>8. CASE \E l \in Legs, b \in Bins : DigClaims(l, b)
  <2>1. PICK l \in Legs, b \in Bins : DigClaims(l, b)
    BY <1>8, Zenon
  <2>2. b # binId[o] /\ l # o
    BY <1>1, <2>1, Zenon DEF DigClaims
  <2>3. binId'[o] = binId[o]
    <3>1. binId \in [Orders -> Bins \cup {None}]
      BY Zenon DEF TypeInv, TypeOK, OrdersOK
    <3>2. StealSoftHold(b)[o] = binId[o] /\ DOMAIN StealSoftHold(b) = Orders
      BY <1>1, <2>2, <3>1, Zenon DEF StealSoftHold
    <3>3. binId' = [StealSoftHold(b) EXCEPT ![l] = b]
      BY <2>1, Zenon DEF DigClaims
    <3> QED
      BY <1>1, <2>2, <3>2, <3>3, Zenon
  <2>4. /\ binClaim'[binId[o]] = binClaim[binId[o]]
        /\ binRow'[binId[o]] = binRow[binId[o]] /\ binFirm \subseteq binFirm'
    BY <2>1, <2>2, Zenon DEF DigClaims, TypeInv, TypeOK, LedgerOK
  <2> QED
    BY <2>3, <2>4, Zenon
<1>9. CASE ReapOrphaned \/ ReleaseOrphanedClaims
  <2>1. UNCHANGED <<status, binId>>
    BY <1>9, Zenon DEF ReapOrphaned, ReleaseOrphanedClaims, orders
  <2>2. CASE Dead(o)
    BY <2>1, <2>2, Zenon DEF Dead
  <2>3. CASE ~Dead(o) /\ ReapOrphaned
    <3>1. ~DeadOwner(binRow[binId[o]]) /\ binClaim' = binClaim
      BY <2>3, Zenon DEF ReapOrphaned, DeadOwner, claims
    <3>2. binRow'[binId[o]] = o /\ binId[o] \in binFirm'
      BY <2>3, <3>1, Zenon DEF ReapOrphaned
    <3> QED
      BY <2>1, <3>1, <3>2, Zenon
  <2>4. CASE ~Dead(o) /\ ReleaseOrphanedClaims
    <3>1. ~DeadOwner(binClaim[binId[o]]) /\ binRow' = binRow /\ binFirm' = binFirm
      BY <2>4, Zenon DEF ReleaseOrphanedClaims, DeadOwner, ledger
    <3>2. binClaim'[binId[o]] = o
      BY <2>4, <3>1, Zenon DEF ReleaseOrphanedClaims
    <3> QED
      BY <2>1, <3>1, <3>2, Zenon
  <2> QED
    BY <1>9, <2>2, <2>3, <2>4, Zenon
<1>10. CASE \E l \in Legs : LegEnds(l)
  BY <1>2, <1>10, Zenon DEF LegEnds, Orders, Terminal
<1> QED
  BY <1>3, <1>4, <1>6, <1>7, <1>8, <1>9, <1>10, NextCases, Zenon
     DEF SideStep, Restart, Lock, Unlock, orders, ledger, claims

\* A pending reservation and what the scanner has picked stay in agreement.
LEMMA SoftKept == TypeInv /\ SoftInv /\ Next => SoftInv'
<1> SUFFICES ASSUME TypeInv, SoftInv, Next PROVE SoftInv'
  OBVIOUS
<1> USE DEF SoftInv
<1>1. CASE UNCHANGED <<scanner, binId>> /\ \A b \in Bins : binRow'[b] \in {binRow[b], None}
  <2> SUFFICES ASSUME pc # "idle", binRow'[pick] = cur, pick \in Bins
               PROVE binRow[pick] = cur
    BY <1>1, Zenon DEF scanner
  <2> QED
    BY <1>1, FulfilmentAssumption, Zenon DEF TypeInv, TypeOK, ScannerOK, Orders
<1>2. CASE ScannerStep
  <2>1. CASE UpdateOrderBinID
    BY <2>1, Zenon DEF UpdateOrderBinID, At, Goto, TypeInv, TypeOK, OrdersOK, ScannerOK, Orders
  <2>2. CASE CheckDropoffCapacity \/ FindSource \/ HeldSource \/ AdmitLanes \/ HeldSlot \/ ConfirmSlot
    BY <2>2, Zenon DEF CheckDropoffCapacity, FindSource, HeldSource, MoveToSourcing, AdmitLanes,
       HeldSlot, ReserveStorageDropoff, ConfirmSlot, At, Goto, Park, BooksUnchanged, orders, ledger
  <2>3. CASE Source \/ Slot \/ ReserveForDispatch \/ ConfirmBin
    BY <2>3, Zenon DEF Source, MoveToSourcing, Slot, ReserveStorageDropoff, ReserveForDispatch,
       ConfirmBin, Goto, Park
  <2> QED
    BY <1>2, <2>1, <2>2, <2>3, Zenon
       DEF ScannerStep, Dispatch, CreateOrder, Reread, UpdateOrderVendor, Rollback,
       ReleaseClaimByOrder, At, Goto, Park
<1>3. CASE \E o \in Orders : Load(o)
  BY <1>3, Zenon DEF Load, BooksUnchanged, orders
<1>4. CASE Restart
  BY <1>4, Zenon DEF Restart
<1>5. CASE \E l \in Legs, b \in Bins : DigClaims(l, b)
  <2> PICK l \in Legs, b \in Bins : DigClaims(l, b)
    BY <1>5, Zenon
  <2> SUFFICES ASSUME pc # "idle", pick \in Bins, binRow'[pick] = cur,
                      binRow[pick] = cur => binId[cur] = pick
               PROVE binId'[cur] = pick
    BY Zenon DEF DigClaims, scanner
  <2>1. cur \in Plain /\ cur \in Orders /\ cur \notin Legs /\ cur # None
    BY FulfilmentAssumption, Zenon DEF TypeInv, TypeOK, ScannerOK, Orders
  <2>2. pick # b /\ binRow[pick] = cur
    BY <2>1, Zenon DEF DigClaims, TypeInv, TypeOK, LedgerOK
  <2> QED
    BY <2>1, <2>2, Zenon DEF DigClaims, StealSoftHold, TypeInv, TypeOK, OrdersOK
<1>6. ASSUME NEW o, ReleaseHoldings(o)
      PROVE \A b \in Bins : binRow'[b] \in {binRow[b], None}
  BY <1>6, Zenon DEF ReleaseHoldings
<1>7. CASE DeliveryStep
  BY <1>1, <1>6, <1>7, Zenon
     DEF DeliveryStep, UnclaimOrderSlots, ArrivalGuard, FailArrival, ApplyArrival, MarkDelivered,
     GraceStop, Terminalize, orders, ledger, TypeInv, TypeOK, LedgerOK
<1>8. CASE FleetStep \/ CancelStep \/ OrderStep
  BY <1>1, <1>3, <1>6, <1>8, Zenon
     DEF FleetStep, FleetEvent, MarkInTransit, MarkFaulted, GraceExpired, FleetOrderCancelled,
     PickupBlockCompleted, Delivered, CancelStep, CancelOrder, AbandonStuckOrder, CancelBegin,
     CancelEnd, OrderStep, Admit, ConfirmReceipt, Terminalize, orders, ledger
<1>9. CASE SideStep
  BY <1>1, <1>4, <1>5, <1>6, <1>9, Zenon
     DEF SideStep, ReapOrphaned, ReleaseOrphanedClaims, LegEnds, Lock, Unlock, Terminalize,
     orders, ledger
<1> QED
  BY <1>2, <1>7, <1>8, <1>9, NextCases, Zenon

\* No ended order comes back, for one step.
LEMMA DeadStays == ASSUME TypeInv, Next, NEW o \in Orders, Dead(o) PROVE Dead(o)'
BY StatusMoves, Zenon DEF StatusMove, Dead, IsTerminal, LiveOrder, Live, Terminal

\* A hard claim stays with the confirmed reservation of the same order, through
\* digs, releases and sweeps.
LEMMA HardKept == TypeInv /\ StageInv /\ SoftInv /\ HardInv /\ Next => HardInv'
<1> SUFFICES ASSUME TypeInv, StageInv, SoftInv, HardInv, Next,
                    pc' \in {"dispatch", "create", "reread", "name"}, ~Dead(cur)'
             PROVE Holding(cur)'
  BY Zenon DEF HardInv
<1>1. CASE ConfirmBin
  <2>1. pc = "confirmBin" /\ cur' = cur /\ pick \in Bins /\ CanClaimBin(cur, pick)
    BY <1>1, Zenon DEF ConfirmBin, At, Goto, Park, TypeInv, TypeOK, ScannerOK
  <2> QED
    BY <1>1, <2>1, Zenon DEF SoftInv, ConfirmBin, CanClaimBin, Goto, Park, Holding, orders, TypeInv,
       TypeOK, LedgerOK
<1>2. CASE ~ConfirmBin
  <2>1. pc \in {"dispatch", "create", "reread", "name"} /\ cur' = cur
    <3>1. CASE pc' # "dispatch"
      BY <3>1, ScannerMoves, Zenon DEF ScannerMove, Acquiring, HandingOver
    <3>2. CASE ScannerStep /\ pc' = "dispatch"
      BY <1>2, <3>2, Zenon
         DEF ScannerStep, CheckDropoffCapacity, FindSource, Source, HeldSource, MoveToSourcing,
         Slot, HeldSlot, ReserveStorageDropoff, ReserveForDispatch, UpdateOrderBinID, AdmitLanes,
         ConfirmSlot, Dispatch, CreateOrder, Reread, UpdateOrderVendor, Rollback,
         ReleaseClaimByOrder, Goto, Park
    <3>3. CASE ~ScannerStep /\ pc' = "dispatch"
      BY <3>3, NextCases, Zenon
         DEF DeliveryStep, UnclaimOrderSlots, ArrivalGuard, FailArrival, ApplyArrival,
         MarkDelivered, GraceStop, FleetStep, FleetEvent, MarkInTransit, MarkFaulted,
         GraceExpired, FleetOrderCancelled, PickupBlockCompleted, Delivered, CancelStep,
         CancelOrder, AbandonStuckOrder, CancelBegin, CancelEnd, OrderStep, Admit, Load,
         ConfirmReceipt, SideStep, ReapOrphaned, ReleaseOrphanedClaims, LegEnds, DigClaims, Lock,
         Unlock, Restart, scanner
    <3> QED
      BY <3>1, <3>2, <3>3, Zenon
  <2>2. cur \in Plain /\ cur \in Orders
    BY <2>1, Zenon DEF TypeInv, TypeOK, ScannerOK, Orders
  <2>3. ~Dead(cur)
    BY <2>1, <2>2, DeadStays, Zenon DEF Dead
  <2>4. Holding(cur)
    BY <2>1, <2>3, Zenon DEF HardInv
  <2>5. ~(cur = arr /\ apc = "place")
    BY <2>1, Zenon DEF StageInv
  <2> QED
    BY <2>1, <2>2, <2>4, <2>5, HoldingKept, Zenon DEF Holding, Dead
<1> QED
  BY <1>1, <1>2, Zenon

\* No step takes the bin of an order that is in the fleet's hands.
LEMMA HoldsBinKept ==
    TypeInv /\ StageInv /\ HardInv /\ DispatchedHoldsBin /\ Next => DispatchedHoldsBin'
<1> SUFFICES ASSUME TypeInv, StageInv, HardInv, DispatchedHoldsBin, Next,
                    NEW o \in Plain, UnderWay(o)'
             PROVE Holding(o)'
  BY FulfilmentAssumption, Zenon DEF DispatchedHoldsBin, Holding
<1>1. o \in Orders /\ StatusMove(o) /\ JobMove(o) /\ o \notin Legs
  BY StatusMoves, PollerMoves, FulfilmentAssumption, Zenon DEF Orders
<1>2. ~Dead(o)' /\ ~Dead(o)
  BY <1>1, DeadStays, Zenon DEF UnderWay, IsVendorTracked, Dead, IsTerminal, Terminal
<1>3. UnderWay(o) \/ (o = cur /\ pc \in {"dispatch", "create"})
  BY <1>1, <1>2, Zenon DEF UnderWay, IsVendorTracked, StatusMove, JobMove, StageInv, Dead, IsTerminal,
     Terminal, LiveOrder, HandingOver
<1>4. CASE o = cur /\ pc \in {"dispatch", "create"}
  BY <1>1, <1>2, <1>4, HoldingKept, Zenon DEF HardInv, StageInv
<1>5. CASE UnderWay(o)
  <2>1. Holding(o)
    BY <1>1, <1>5, Zenon DEF DispatchedHoldsBin, Holding, TypeInv, TypeOK, OrdersOK
  <2>2. ~(o = arr /\ apc = "place")
    BY <1>5, Zenon DEF UnderWay, StageInv
  <2>3. ~(o = cur /\ pc \in {"release", "stamp"})
    BY <1>5, Zenon DEF UnderWay, IsVendorTracked, StageInv, Acquiring, Terminal
  <2> QED
    BY <1>2, <2>1, <2>2, <2>3, HoldingKept, Zenon
<1> QED
  BY <1>3, <1>4, <1>5, Zenon

-----------------------------------------------------------------------------
(* The inductive invariant and what follows from it.                       *)

IInv ==
    /\ TypeInv /\ StageInv /\ NodeInv /\ SoftInv /\ HardInv
    /\ OneInFlightPerNode /\ DispatchedHoldsBin

\* The conjunction holds at the start.
LEMMA InitIInv == Init => IInv
<1> SUFFICES ASSUME Init PROVE IInv
  OBVIOUS
<1>1. StageInv /\ NodeInv /\ SoftInv /\ HardInv
  BY Zenon DEF Init, StageInv, NodeInv, SoftInv, HardInv, Acquiring, HandingOver, Orders
<1>2. OneInFlightPerNode /\ DispatchedHoldsBin
  BY Zenon DEF Init, OneInFlightPerNode, DispatchedHoldsBin, UnderWay, IsVendorTracked, Orders
<1> QED
  BY <1>1, <1>2, InitTyped, Zenon DEF IInv

\* The conjunction is an inductive invariant.
LEMMA AlwaysIInv == Spec => []IInv
<1>1. Init => IInv
  BY InitIInv, Zenon
<1>2. IInv /\ Next => IInv'
  <2>1. TypeInv /\ Next => TypeInv'
    BY LedgerTyped, OrdersTyped, FloorTyped, ControlTyped, Zenon DEF TypeInv, TypeOK
  <2> QED
    BY <2>1, StageKept, NodeKept, SoftKept, HardKept, OnePerNodeKept, HoldsBinKept, Zenon DEF IInv
<1>3. IInv /\ UNCHANGED vars => IInv'
  <2> SUFFICES ASSUME IInv, UNCHANGED vars PROVE IInv'
    OBVIOUS
  <2> USE DEF vars, orders, ledger, claims, floor, scanner, poller, IInv
  <2>1. TypeInv'
    BY Zenon DEF TypeInv, TypeOK, VendorPlain, OrdersOK, LedgerOK, FloorOK, ScannerOK, PollerOK,
       BookkeepingOK
  <2>2. StageInv'
    BY Zenon DEF StageInv
  <2>3. NodeInv'
    BY Zenon DEF NodeInv, OnItsWay
  <2>4. SoftInv' /\ HardInv'
    BY Zenon DEF SoftInv, HardInv, Holding, Dead
  <2>5. OneInFlightPerNode' /\ DispatchedHoldsBin'
    BY Zenon DEF OneInFlightPerNode, DispatchedHoldsBin, UnderWay
  <2> QED
    BY <2>1, <2>2, <2>3, <2>4, <2>5, Zenon
<1> QED
  BY <1>1, <1>2, <1>3, PTL DEF Spec

\* Whatever is cancelled, dug, locked, refused or restarted around it, an order
\* in the fleet's hands hard-claims the bin it points at, under its own
\* confirmed reservation, until its own arrival or its own end.
THEOREM FleetOrderHoldsBin == Spec => []DispatchedHoldsBin
<1>1. IInv => DispatchedHoldsBin
  BY Zenon DEF IInv
<1> QED
  BY AlwaysIInv, <1>1, PTL

\* No two robots are ever sent after one bin.
THEOREM NoTwoRobotsOneBin == Spec => []OneRobotPerBin
<1>1. IInv => OneRobotPerBin
  BY Zenon DEF IInv, DispatchedHoldsBin, OneRobotPerBin
<1> QED
  BY AlwaysIInv, <1>1, PTL

\* The capacity check of tryFulfill, made before the order is written as
\* sourcing, is still good when it is: one order at most is on its way to each
\* delivery node.
THEOREM NodeToItself == Spec => []OneInFlightPerNode
<1>1. IInv => OneInFlightPerNode
  BY Zenon DEF IInv
<1> QED
  BY AlwaysIInv, <1>1, PTL

-----------------------------------------------------------------------------
(* The slot of an order in the fleet's hands, and what becomes of one whose *)
(* bin has been put down.                                                  *)

\* The order hard-claims the bin it points at.
Claims(o) == binId[o] \in Bins /\ binClaim[binId[o]] = o

\* The fleet's orders with a claim are under way: an end and an arrival take the
\* claim in the transaction that writes them.
ClaimInv ==
    /\ \A o \in Plain : vendor[o] /\ Claims(o) => IsVendorTracked(status[o])
    /\ pc \in {"create", "reread", "name"} /\ Claims(cur) => ~Dead(cur)
    /\ apc = "mark" => ~Claims(arr)

\* The arrival the guard let through: only a cancel ends its order.
PlaceInv ==
    /\ apc = "place" => IsVendorTracked(status[arr]) \/ status[arr] = "cancelled"
    /\ apc \in {"unclaim", "guard", "fail", "place", "mark"}
         => status[arr] = asnap \/ Dead(arr)

\* Without a cancel by Edge or an operator, only orders the fleet never
\* confirmed are being cancelled.
CancelInv ==
    used["cancel"] = 0 =>
        /\ \A o \in cancelling : /\ ~vendor[o] /\ o # cur
                                 /\ status[o] \in {"dispatched"} \cup Terminal
        /\ apc = "place" => IsVendorTracked(status[arr])

\* From the confirmed slot to the vendor id the order holds its slot.
SlotInv ==
    /\ used["cancel"] = 0
    /\ pc \in {"confirmBin", "dispatch", "create", "reread", "name"} /\ ~Dead(cur)
    => slotClaim[Dest[cur]] = cur

\* Without a restart an order that landed is about to be marked delivered, or was,
\* or was cancelled; its job is never heard of again.
LandedInv ==
    used["crash"] = 0 =>
        \A o \in landed :
            /\ o \in Plain /\ vendor[o] /\ job[o] = "reported"
            /\ o = arr => apc = "mark"
            /\ \/ status[o] \in {"delivered", "confirmed", "cancelled"}
               \/ o = arr /\ status[o] = asnap /\ IsVendorTracked(asnap)

\* How the status of an order the fleet knows may move: the poller changes it
\* while idle or at the end of the arrival in hand, and a cancel at any time.
VendorMove(o) ==
    \/ status'[o] = status[o]
    \/ LiveOrder(o) /\ status'[o] = "cancelled" /\ (o \in cancelling \/ apc = "idle")
    \/ apc = "idle" /\ status[o] = "faulted" /\ status'[o] = "failed"
    \/ apc = "idle" /\ job[o] \in {"live", "carrying"} /\ status'[o] \in {"in_transit", "faulted"}
    \/ o = arr /\ apc = "fail" /\ status'[o] = "failed"
    \/ o = arr /\ apc = "mark" /\ apc' = "idle" /\ status'[o] = "delivered"
    \/ status[o] = "delivered" /\ status'[o] = "confirmed"

\* No other handler writes the status of an order the fleet knows.
LEMMA VendorStatus ==
    ASSUME TypeInv, StageInv, Next, NEW o \in Plain, vendor[o] PROVE VendorMove(o)
<1> USE DEF VendorMove
<1>1. /\ o \in Orders /\ o \notin Legs /\ (pc # "idle" => o # cur)
      /\ status \in [Orders -> Status \cup {"none"}]
  BY FulfilmentAssumption, Zenon DEF Orders, StageInv, TypeInv, TypeOK, OrdersOK
<1>2. ASSUME NEW q, NEW to, Terminalize(q, to)
      PROVE status'[o] = status[o] \/ (q = o /\ LiveOrder(o) /\ status'[o] = to)
  BY <1>1, <1>2, Zenon DEF Terminalize, LiveOrder
<1>3. ASSUME NEW q \in Orders, NEW to, status' = [status EXCEPT ![q] = to]
      PROVE status'[o] = status[o] \/ (q = o /\ status'[o] = to)
  BY <1>1, <1>3, Zenon
<1>4. CASE ScannerStep
  <2>1. CASE status' = status
    BY <2>1, Zenon
  <2>2. CASE Source \/ HeldSource \/ Dispatch \/ Rollback
    BY <1>1, <2>2, Zenon DEF Source, HeldSource, Dispatch, Rollback, MoveToSourcing, At
  <2> QED
    BY <1>4, <2>1, <2>2, Zenon
       DEF ScannerStep, CheckDropoffCapacity, FindSource, Slot, HeldSlot, ReserveStorageDropoff,
       ReserveForDispatch, UpdateOrderBinID, AdmitLanes, ConfirmSlot, ConfirmBin, CreateOrder,
       Reread, UpdateOrderVendor, ReleaseClaimByOrder, BooksUnchanged, orders
<1>5. CASE DeliveryStep
  BY <1>1, <1>2, <1>5, Zenon
     DEF DeliveryStep, UnclaimOrderSlots, ArrivalGuard, FailArrival, ApplyArrival,
     MarkDelivered, GraceStop, Handled, orders
<1>6. CASE FleetStep
  BY <1>1, <1>2, <1>3, <1>6, Zenon
     DEF FleetStep, FleetEvent, MarkInTransit, MarkFaulted, GraceExpired, FleetOrderCancelled,
     PickupBlockCompleted, Delivered, PollerIdle, orders
<1>7. CASE CancelStep
  <2>1. ASSUME NEW q \in Orders, CancelEnd(q) PROVE VendorMove(o)
    BY <1>2, <2>1, Zenon DEF CancelEnd
  <2> QED
    BY <1>7, <2>1, Zenon DEF CancelStep, CancelOrder, AbandonStuckOrder, CancelBegin, orders
<1>8. CASE OrderStep
  <2>1. \A q \in Orders : Admit(q) => q # o \/ status[o] = "pending"
    BY Zenon DEF Admit
  <2>2. status[o] # "pending"
    BY <1>1, Zenon DEF StageInv, Terminal
  <2> QED
    BY <1>1, <1>2, <1>3, <1>8, <2>1, <2>2, Zenon
       DEF OrderStep, Admit, Load, ConfirmReceipt, BooksUnchanged, orders
<1>9. CASE SideStep
  <2>1. ASSUME NEW l \in Legs, LegEnds(l) \/ \E b \in Bins : DigClaims(l, b)
        PROVE status'[o] = status[o]
    <3>1. l # o /\ l \in Orders
      BY <1>1, Zenon DEF Orders
    <3>2. CASE LegEnds(l)
      BY <1>2, <3>1, <3>2, Zenon DEF LegEnds
    <3> QED
      BY <1>3, <2>1, <3>1, <3>2, Zenon DEF DigClaims
  <2> QED
    BY <1>9, <2>1, Zenon
       DEF SideStep, ReapOrphaned, ReleaseOrphanedClaims, Restart, Lock, Unlock, orders
<1> QED
  BY <1>4, <1>5, <1>6, <1>7, <1>8, <1>9, NextCases, Zenon

\* How an order comes to claim the bin it points at: by its own tick.  What ends
\* it takes the claim.
LEMMA ClaimMoves ==
    ASSUME TypeInv, StageInv, Next, NEW o \in Plain, Claims(o)'
    PROVE  /\ Claims(o) \/ (o = cur /\ pc \in {"confirmBin", "stamp"})
           /\ Dead(o)' => Dead(o)
           /\ ~(apc = "place" /\ apc' = "mark" /\ o = arr)
<1> DEFINE Kept == /\ Claims(o) \/ (o = cur /\ pc \in {"confirmBin", "stamp"})
                   /\ Dead(o)' => Dead(o)
                   /\ ~(apc = "place" /\ apc' = "mark" /\ o = arr)
<1>1. /\ o \in Orders /\ o \notin Legs /\ o # None
      /\ status \in [Orders -> Status \cup {"none"}]
      /\ binId \in [Orders -> Bins \cup {None}] /\ binClaim \in [Bins -> Orders \cup {None}]
      /\ binId'[o] \in Bins /\ binClaim'[binId'[o]] = o
  BY FulfilmentAssumption, Zenon DEF Orders, TypeInv, TypeOK, OrdersOK, LedgerOK, Claims
<1>2. ASSUME NEW q, NEW to, Terminalize(q, to), UNCHANGED binId
      PROVE Claims(o) /\ (Dead(o)' => Dead(o))
  BY <1>1, <1>2, Zenon DEF Terminalize, ReleaseHoldings, Claims, Dead, LiveOrder
<1>3. ASSUME status'[o] = status[o] \/ ~Dead(o)' PROVE Dead(o)' => Dead(o)
  BY <1>3, Zenon DEF Dead
<1>4. ASSUME UNCHANGED <<binId, binClaim>> PROVE Claims(o)
  BY <1>1, <1>4, Zenon DEF Claims
<1>5. CASE ScannerStep
  <2>1. UNCHANGED <<arr, apc>>
    BY <1>5, Zenon
       DEF ScannerStep, CheckDropoffCapacity, FindSource, Source, HeldSource, MoveToSourcing,
       Slot, HeldSlot, ReserveStorageDropoff, ReserveForDispatch, UpdateOrderBinID, AdmitLanes,
       ConfirmSlot, ConfirmBin, Dispatch, CreateOrder, Reread, UpdateOrderVendor, Rollback,
       ReleaseClaimByOrder, BooksUnchanged, poller
  <2>2. Dead(o)' => Dead(o)
    BY <1>1, <1>5, Zenon
       DEF ScannerStep, CheckDropoffCapacity, FindSource, Source, HeldSource, MoveToSourcing,
       Slot, HeldSlot, ReserveStorageDropoff, ReserveForDispatch, UpdateOrderBinID, AdmitLanes,
       ConfirmSlot, ConfirmBin, Dispatch, CreateOrder, Reread, UpdateOrderVendor, Rollback,
       ReleaseClaimByOrder, BooksUnchanged, orders, Dead, IsTerminal, Terminal
  <2>3. CASE UpdateOrderBinID
    BY <1>1, <2>1, <2>2, <2>3, Zenon DEF UpdateOrderBinID, At, claims, Claims
  <2>4. CASE ConfirmBin
    BY <1>1, <2>1, <2>2, <2>4, Zenon DEF ConfirmBin, At, orders, Claims
  <2>5. CASE ReleaseClaimByOrder
    BY <1>1, <2>1, <2>2, <2>5, Zenon DEF ReleaseClaimByOrder, ReleaseHoldings, orders, Claims
  <2>6. CASE UNCHANGED <<binId, binClaim>>
    BY <1>4, <2>1, <2>2, <2>6, Zenon
  <2>7. Claims(o) \/ (o = cur /\ pc \in {"confirmBin", "stamp"})
    BY <1>5, <2>3, <2>4, <2>5, <2>6, Zenon
       DEF ScannerStep, CheckDropoffCapacity, FindSource, Source, HeldSource, MoveToSourcing,
       Slot, HeldSlot, ReserveStorageDropoff, ReserveForDispatch, AdmitLanes, ConfirmSlot,
       Dispatch, CreateOrder, Reread, UpdateOrderVendor, Rollback, BooksUnchanged, orders, claims
  <2> QED
    BY <2>1, <2>2, <2>7, Zenon
<1>6. CASE ApplyArrival
  <2>1. o # arr \/ ~Claims(o)'
    BY <1>1, <1>6, Zenon DEF ApplyArrival, orders, Claims
  <2>2. Claims(o) /\ status' = status
    BY <1>1, <1>6, Zenon DEF ApplyArrival, orders, Claims
  <2> QED
    BY <2>1, <2>2, Zenon DEF Dead
<1>7. CASE DeliveryStep /\ ~ApplyArrival
  <2>1. CASE FailArrival
    BY <1>2, <2>1, Zenon DEF FailArrival, Handled
  <2>2. CASE UnclaimOrderSlots \/ ArrivalGuard \/ MarkDelivered \/ GraceStop
    <3>1. UNCHANGED <<binId, binClaim>>
      BY <2>2, Zenon DEF UnclaimOrderSlots, ArrivalGuard, MarkDelivered, GraceStop, orders, claims
    <3>2. Dead(o)' => Dead(o)
      BY <1>1, <2>2, Zenon DEF UnclaimOrderSlots, ArrivalGuard, MarkDelivered, GraceStop, orders,
         Dead, IsTerminal, Terminal
    <3>3. apc # "place"
      BY <2>2, Zenon DEF UnclaimOrderSlots, ArrivalGuard, MarkDelivered, GraceStop
    <3> QED
      BY <1>4, <3>1, <3>2, <3>3, Zenon
  <2> QED
    BY <1>7, <2>1, <2>2, Zenon DEF DeliveryStep
<1>8. CASE FleetStep
  <2>1. apc = "idle"
    BY <1>8, Zenon DEF FleetStep, FleetEvent, MarkInTransit, MarkFaulted, GraceExpired,
       FleetOrderCancelled, PickupBlockCompleted, Delivered, PollerIdle
  <2>2. PICK q \in Orders : FleetEvent(q)
    BY <1>8, Zenon DEF FleetStep
  <2>3. CASE GraceExpired(q) \/ FleetOrderCancelled(q)
    BY <1>2, <2>1, <2>3, Zenon DEF GraceExpired, FleetOrderCancelled
  <2>4. CASE MarkInTransit(q) \/ MarkFaulted(q) \/ PickupBlockCompleted(q) \/ Delivered(q)
    <3>1. UNCHANGED <<binId, binClaim>>
      BY <2>4, Zenon DEF MarkInTransit, MarkFaulted, PickupBlockCompleted, Delivered, orders, claims
    <3>2. Dead(o)' => Dead(o)
      BY <1>1, <2>4, ZenonT(40) DEF MarkInTransit, MarkFaulted, PickupBlockCompleted, Delivered, orders,
         Dead, IsTerminal, Terminal
    <3> QED
      BY <1>4, <2>1, <3>1, <3>2, Zenon
  <2> QED
    BY <2>2, <2>3, <2>4, Zenon DEF FleetEvent
<1>9. CASE CancelStep \/ OrderStep
  <2>1. UNCHANGED <<arr, apc>>
    BY <1>9, Zenon DEF CancelStep, CancelOrder, AbandonStuckOrder, CancelBegin, CancelEnd,
       OrderStep, Admit, Load, ConfirmReceipt, BooksUnchanged, poller
  <2>2. \/ \E q, to : Terminalize(q, to) /\ UNCHANGED binId
        \/ UNCHANGED <<binId, binClaim>> /\ (status' = status \/ \E q \in Orders : Admit(q))
    BY <1>9, Zenon DEF CancelStep, CancelOrder, AbandonStuckOrder, CancelBegin, CancelEnd,
       OrderStep, Admit, Load, ConfirmReceipt, BooksUnchanged, orders, claims
  <2>3. ASSUME NEW q \in Orders, Admit(q) PROVE Dead(o)' => Dead(o)
    BY <1>1, <2>3, Zenon DEF Admit, Dead, IsTerminal, Terminal
  <2> QED
    BY <1>2, <1>3, <1>4, <2>1, <2>2, <2>3, Zenon
<1>10. CASE \E l \in Legs, b \in Bins : DigClaims(l, b)
  <2>1. PICK l \in Legs, b \in Bins : DigClaims(l, b)
    BY <1>10, Zenon
  <2>2. l # o /\ l \in Orders /\ status'[o] = status[o] /\ UNCHANGED <<arr, apc>>
    BY <1>1, <2>1, Zenon DEF DigClaims, Orders, poller
  <2>3. /\ binId' = [StealSoftHold(b) EXCEPT ![l] = b]
        /\ binClaim' = [binClaim EXCEPT ![b] = l]
    BY <2>1, Zenon DEF DigClaims
  <2>4. StealSoftHold(b)[o] \in {binId[o], None} /\ DOMAIN StealSoftHold(b) = Orders
    BY <1>1, Zenon DEF StealSoftHold
  <2>5. binId'[o] \in {binId[o], None}
    BY <1>1, <2>2, <2>3, <2>4, Zenon
  <2>6. binId'[o] = binId[o] /\ binClaim[binId[o]] = o
    BY <1>1, <2>2, <2>3, <2>5, FulfilmentAssumption, Zenon
  <2> QED
    BY <1>1, <2>2, <2>6, Zenon DEF Claims, Dead
<1>11. CASE SideStep
  <2>1. CASE \E l \in Legs : LegEnds(l)
    BY <1>2, <2>1, Zenon DEF LegEnds, poller
  <2>2. CASE ReapOrphaned \/ ReleaseOrphanedClaims \/ Restart \/ \E b \in Bins : Lock(b) \/ Unlock(b)
    <3>1. UNCHANGED <<binId, status>> /\ (apc' = apc \/ apc' = "idle")
      BY <2>2, Zenon DEF ReapOrphaned, ReleaseOrphanedClaims, Restart, Lock, Unlock, orders, poller
    <3>2. apc' = "mark" => apc = "mark"
      BY <2>2, <3>1, Zenon
    <3>3. binClaim[binId[o]] = o
      BY <1>1, <2>2, <3>1, Zenon DEF ReapOrphaned, ReleaseOrphanedClaims, Restart, Lock, Unlock, claims
    <3> QED
      BY <1>1, <3>1, <3>2, <3>3, Zenon DEF Claims, Dead
  <2> QED
    BY <1>10, <1>11, <2>1, <2>2, Zenon DEF SideStep
<1> QED
  BY <1>5, <1>6, <1>7, <1>8, <1>9, <1>11, NextCases, Zenon

\* A slot an order claims stays its own but for its end, its tick's release, its
\* arrival, and an arrival at the same node.
LEMMA SlotMoves ==
    ASSUME TypeInv, StageInv, Next, NEW o \in Plain, slotClaim[Dest[o]] = o
    PROVE  \/ slotClaim'[Dest[o]] = o \/ Dead(o)'
           \/ o = cur /\ pc = "release"
           \/ o = arr /\ apc = "unclaim"
           \/ apc = "place" /\ Dest[arr] = Dest[o]
<1>1. /\ o \in Orders /\ o # None /\ o \notin Legs /\ Dest[o] \in Slots
      /\ status[o] \in Live \cup Terminal /\ status \in [Orders -> Status \cup {"none"}]
      /\ slotClaim \in [Slots -> Orders \cup {None}]
  BY FulfilmentAssumption, Zenon
     DEF Orders, StageInv, TypeInv, TypeOK, OrdersOK, LedgerOK, Status
<1>2. ASSUME NEW q, NEW to \in Terminal, Terminalize(q, to)
      PROVE slotClaim'[Dest[o]] = o \/ Dead(o)'
  BY <1>1, <1>2, Zenon DEF Terminalize, ReleaseHoldings, LiveOrder, Dead, IsTerminal
<1>3. CASE ScannerStep
  <2>1. CASE ConfirmSlot
    <3>1. CASE slotClaim' = slotClaim
      BY <3>1, Zenon
    <3>2. CASE slotClaim' # slotClaim
      <4>1. /\ slotClaim' = [slotClaim EXCEPT ![Dest[cur]] = cur]
            /\ slotClaim[Dest[cur]] \in {cur, None}
        BY <2>1, <3>2, Zenon DEF ConfirmSlot, CanClaimSlot
      <4> QED
        BY <1>1, <4>1, Zenon
    <3> QED
      BY <3>1, <3>2, Zenon
  <2>2. CASE ReleaseClaimByOrder
    <3>1. /\ slotClaim' = [t \in Slots |-> IF slotClaim[t] = cur THEN None ELSE slotClaim[t]]
          /\ pc = "release"
      BY <2>2, Zenon DEF ReleaseClaimByOrder, ReleaseHoldings, At
    <3>2. o # cur => slotClaim'[Dest[o]] = slotClaim[Dest[o]]
      BY <1>1, <3>1, Zenon
    <3> QED
      BY <3>1, <3>2, Zenon
  <2>3. CASE UNCHANGED slotClaim
    BY <2>3, Zenon
  <2> QED
    BY <1>3, <2>1, <2>2, <2>3, Zenon
       DEF ScannerStep, CheckDropoffCapacity, FindSource, Source, HeldSource, MoveToSourcing,
       Slot, HeldSlot, ReserveStorageDropoff, ReserveForDispatch, UpdateOrderBinID, AdmitLanes,
       ConfirmSlot, ConfirmBin, Dispatch, CreateOrder, Reread, UpdateOrderVendor, Rollback,
       ReleaseClaimByOrder, BooksUnchanged, claims
<1>4. CASE DeliveryStep
  <2>1. CASE UnclaimOrderSlots \/ ApplyArrival
    BY <1>1, <2>1, Zenon DEF UnclaimOrderSlots, ApplyArrival
  <2>2. CASE FailArrival
    BY <1>2, <2>2, Zenon DEF FailArrival, Terminal
  <2> QED
    BY <1>4, <2>1, <2>2, Zenon DEF DeliveryStep, ArrivalGuard, MarkDelivered, GraceStop, claims
<1>5. CASE FleetStep
  BY <1>2, <1>5, Zenon
     DEF FleetStep, FleetEvent, MarkInTransit, MarkFaulted, GraceExpired, FleetOrderCancelled,
     PickupBlockCompleted, Delivered, claims, Terminal
<1>6. CASE CancelStep \/ OrderStep
  BY <1>2, <1>6, Zenon
     DEF CancelStep, CancelOrder, AbandonStuckOrder, CancelBegin, CancelEnd, OrderStep, Admit,
     Load, ConfirmReceipt, BooksUnchanged, claims, Terminal
<1>7. CASE ReleaseOrphanedClaims
  <2>1. DeadOwner(o) => Dead(o)'
    BY <1>7, Zenon DEF ReleaseOrphanedClaims, DeadOwner, Dead, orders
  <2>2. ~DeadOwner(o) => slotClaim'[Dest[o]] = o
    BY <1>1, <1>7, Zenon DEF ReleaseOrphanedClaims
  <2> QED
    BY <2>1, <2>2, Zenon
<1>8. CASE SideStep /\ ~ReleaseOrphanedClaims
  BY <1>2, <1>8, Zenon
     DEF SideStep, ReapOrphaned, Restart, LegEnds, DigClaims, Lock, Unlock, claims, Terminal
<1> QED
  BY <1>3, <1>4, <1>5, <1>6, <1>7, <1>8, NextCases, Zenon

\* A disturbance that was spent is not given back.
LEMMA SpendGrows ==
    ASSUME BookkeepingOK, NEW j \in Kinds, Spend(j), NEW k \in Kinds, used'[k] = 0
    PROVE  used[k] = 0 /\ k # j
BY SMTT(20) DEF BookkeepingOK, Spend

\* The count of a kind of disturbance never returns to zero.
LEMMA UsedGrows ==
    ASSUME TypeInv, Next, NEW k \in Kinds, used'[k] = 0
    PROVE  /\ used[k] = 0
           /\ k = "crash" => ~Restart
           /\ k = "cancel" => ~\E o \in Orders : CancelOrder(o)
<1>1. BookkeepingOK
  BY Zenon DEF TypeInv, TypeOK
<1>2. /\ k = "crash" => ~Restart
      /\ k = "cancel" => ~\E o \in Orders : CancelOrder(o)
  BY <1>1, SpendGrows, Zenon DEF Restart, CancelOrder, Kinds
<1>3. used' = used \/ \E j \in Kinds : Spend(j)
  <2>1. ScannerStep => used' = used \/ Spend("lane") \/ Spend("refuse")
    BY Zenon
       DEF ScannerStep, CheckDropoffCapacity, FindSource, Source, HeldSource, MoveToSourcing,
       Slot, HeldSlot, ReserveStorageDropoff, ReserveForDispatch, UpdateOrderBinID, AdmitLanes,
       ConfirmSlot, ConfirmBin, Dispatch, CreateOrder, Reread, UpdateOrderVendor, Rollback,
       ReleaseClaimByOrder, BooksUnchanged
  <2>2. DeliveryStep => used' = used
    BY Zenon DEF DeliveryStep, UnclaimOrderSlots, ArrivalGuard, FailArrival, ApplyArrival,
       MarkDelivered, GraceStop
  <2>3. FleetStep => used' = used \/ Spend("fault")
    BY Zenon DEF FleetStep, FleetEvent, MarkInTransit, MarkFaulted, GraceExpired,
       FleetOrderCancelled, PickupBlockCompleted, Delivered
  <2>4. CancelStep \/ OrderStep => used' = used \/ Spend("cancel")
    BY Zenon DEF CancelStep, CancelOrder, AbandonStuckOrder, CancelEnd, OrderStep, Admit, Load,
       ConfirmReceipt, BooksUnchanged
  <2>5. SideStep => used' = used \/ Spend("crash") \/ Spend("dig") \/ Spend("lock")
    BY Zenon DEF SideStep, ReapOrphaned, ReleaseOrphanedClaims, Restart, LegEnds, DigClaims, Lock,
       Unlock
  <2> QED
    BY <2>1, <2>2, <2>3, <2>4, <2>5, NextCases, Zenon DEF Kinds
<1> QED
  BY <1>1, <1>2, <1>3, SpendGrows, Zenon

\* What a step of the arrival in hand does; every other step leaves it alone.
ArrivalMove ==
    \/ UNCHANGED <<apc, arr, asnap, landed>>
    \/ apc' = "idle" /\ landed' = landed /\ (apc = "mark" => MarkDelivered \/ Restart)
    \/ apc = "idle" /\ apc' = "stop" /\ status[arr'] = "faulted" /\ landed' = landed
    \/ /\ apc = "idle" /\ apc' = "unclaim" /\ asnap' = status[arr'] /\ status' = status
       /\ job[arr'] \in {"carrying", "done"} /\ landed' = landed
    \/ /\ UNCHANGED <<arr, asnap, status, binId, vendor, job>>
       /\ \/ apc = "unclaim" /\ apc' = "guard" /\ landed' = landed
          \/ apc = "guard" /\ apc' = "mark" /\ binId[arr] = None /\ landed' = landed
          \/ apc = "guard" /\ apc' = "fail" /\ landed' = landed
          \/ /\ apc = "guard" /\ apc' = "place" /\ landed' = landed
             /\ binId[arr] # None /\ binClaim[binId[arr]] = arr
          \/ apc = "place" /\ apc' = "mark" /\ landed' = landed \cup {arr}

\* handleOrderDelivered runs to its end, in order, unless Core restarts.
LEMMA ArrivalMoves == TypeInv /\ Next => ArrivalMove
<1> SUFFICES ASSUME TypeInv, Next PROVE ArrivalMove
  OBVIOUS
<1> USE DEF ArrivalMove
<1>1. CASE ScannerStep
  BY <1>1, Zenon
     DEF ScannerStep, CheckDropoffCapacity, FindSource, Source, HeldSource, MoveToSourcing,
     Slot, HeldSlot, ReserveStorageDropoff, ReserveForDispatch, UpdateOrderBinID, AdmitLanes,
     ConfirmSlot, ConfirmBin, Dispatch, CreateOrder, Reread, UpdateOrderVendor, Rollback,
     ReleaseClaimByOrder, BooksUnchanged, poller
<1>2. CASE DeliveryStep
  <2>1. CASE ArrivalGuard
    BY <2>1, Zenon DEF ArrivalGuard, RefuseArrival, Step, orders
  <2>2. CASE UnclaimOrderSlots \/ ApplyArrival
    BY <2>2, Zenon DEF UnclaimOrderSlots, ApplyArrival, Step, orders
  <2>3. CASE FailArrival \/ MarkDelivered \/ GraceStop
    BY <2>3, Zenon DEF FailArrival, MarkDelivered, GraceStop, Handled
  <2> QED
    BY <1>2, <2>1, <2>2, <2>3, Zenon DEF DeliveryStep
<1>3. CASE FleetStep
  BY <1>3, ZenonT(40) DEF FleetStep, FleetEvent, MarkInTransit, MarkFaulted, GraceExpired,
     FleetOrderCancelled, PickupBlockCompleted, Delivered, PollerIdle, poller, orders
<1>4. CASE CancelStep \/ OrderStep
  BY <1>4, Zenon DEF CancelStep, CancelOrder, AbandonStuckOrder, CancelBegin, CancelEnd, OrderStep,
     Admit, Load, ConfirmReceipt, BooksUnchanged, poller
<1>5. CASE SideStep
  BY <1>5, ZenonT(40) DEF SideStep, ReapOrphaned, ReleaseOrphanedClaims, Restart, LegEnds, DigClaims,
     Lock, Unlock, poller
<1> QED
  BY <1>1, <1>2, <1>3, <1>4, <1>5, NextCases, Zenon

\* Who is being cancelled, while Edge and the operators cancel nothing.
LEMMA CancellingMoves ==
    ASSUME TypeInv, Next, used'["cancel"] = 0, NEW o \in cancelling', o \notin cancelling
    PROVE  /\ status[o] = "dispatched" /\ ~vendor[o] /\ cur # o
           /\ UNCHANGED <<status, vendor, cur>>
<1>1. ~\E q \in Orders : CancelOrder(q)
  BY UsedGrows, Zenon DEF Kinds
<1>2. CASE \E q \in Orders : AbandonStuckOrder(q)
  BY <1>2, Zenon DEF AbandonStuckOrder, CancelBegin, orders, scanner
<1>3. cancelling' \subseteq cancelling \/ CancelStep
  <2>1. ScannerStep \/ DeliveryStep => cancelling' = cancelling
    BY Zenon
       DEF ScannerStep, CheckDropoffCapacity, FindSource, Source, HeldSource, MoveToSourcing,
       Slot, HeldSlot, ReserveStorageDropoff, ReserveForDispatch, UpdateOrderBinID, AdmitLanes,
       ConfirmSlot, ConfirmBin, Dispatch, CreateOrder, Reread, UpdateOrderVendor, Rollback,
       ReleaseClaimByOrder, BooksUnchanged, DeliveryStep, UnclaimOrderSlots, ArrivalGuard,
       FailArrival, ApplyArrival, MarkDelivered, GraceStop
  <2>2. FleetStep \/ OrderStep => cancelling' = cancelling
    BY Zenon DEF FleetStep, FleetEvent, MarkInTransit, MarkFaulted, GraceExpired,
       FleetOrderCancelled, PickupBlockCompleted, Delivered, OrderStep, Admit, Load,
       ConfirmReceipt, BooksUnchanged
  <2>3. SideStep => cancelling' \subseteq cancelling
    BY Zenon DEF SideStep, ReapOrphaned, ReleaseOrphanedClaims, Restart, LegEnds, DigClaims, Lock,
       Unlock
  <2> QED
    BY <2>1, <2>2, <2>3, NextCases, Zenon
<1> QED
  BY <1>1, <1>2, <1>3, Zenon DEF CancelStep, CancelEnd

\* A finished job Core has handled is heard of again only after a restart.
LEMMA NoReplay ==
    ASSUME TypeInv, StageInv, Next, ~Restart, NEW o \in Plain, vendor[o], job[o] = "reported"
    PROVE  job'[o] = "reported"
<1>1. o \in Orders /\ job \in [Orders -> Jobs] /\ (pc # "idle" => o # cur)
  BY Zenon DEF Orders, TypeInv, TypeOK, OrdersOK, StageInv
<1>2. ASSUME NEW q, StopJob(q) PROVE job'[o] = "reported"
  BY <1>1, <1>2, Zenon DEF StopJob
<1>3. CASE ScannerStep
  BY <1>1, <1>3, Zenon
     DEF ScannerStep, CheckDropoffCapacity, FindSource, Source, HeldSource, MoveToSourcing,
     Slot, HeldSlot, ReserveStorageDropoff, ReserveForDispatch, UpdateOrderBinID, AdmitLanes,
     ConfirmSlot, ConfirmBin, Dispatch, CreateOrder, Reread, UpdateOrderVendor, Rollback,
     ReleaseClaimByOrder, BooksUnchanged, At
<1>4. CASE DeliveryStep \/ CancelStep
  BY <1>2, <1>4, Zenon DEF DeliveryStep, UnclaimOrderSlots, ArrivalGuard, FailArrival, ApplyArrival,
     MarkDelivered, GraceStop, CancelStep, CancelOrder, AbandonStuckOrder, CancelBegin, CancelEnd
<1>5. CASE FleetStep
  BY <1>1, <1>5, Zenon DEF FleetStep, FleetEvent, MarkInTransit, MarkFaulted, GraceExpired,
     FleetOrderCancelled, PickupBlockCompleted, Delivered
<1>6. CASE OrderStep \/ SideStep
  BY <1>6, Zenon DEF OrderStep, Admit, Load, ConfirmReceipt, BooksUnchanged, SideStep,
     ReapOrphaned, ReleaseOrphanedClaims, LegEnds, DigClaims, Lock, Unlock
<1> QED
  BY <1>3, <1>4, <1>5, <1>6, NextCases, Zenon

\* A claim and a live order go together to the end of the arrival.
LEMMA ClaimKept == TypeInv /\ StageInv /\ ClaimInv /\ Next => ClaimInv'
<1> SUFFICES ASSUME TypeInv, StageInv, ClaimInv, Next PROVE ClaimInv'
  OBVIOUS
<1>1. ASSUME NEW o \in Plain, vendor'[o], Claims(o)' PROVE IsVendorTracked(status'[o])
  <2>1. /\ Claims(o) \/ (o = cur /\ pc \in {"confirmBin", "stamp"})
        /\ Dead(o)' => Dead(o)
    BY <1>1, ClaimMoves, Zenon
  <2>2. /\ o \in Orders /\ o \notin Legs
        /\ vendor'[o] = vendor[o] \/ (o = cur /\ pc = "name")
    BY VendorMoves, FulfilmentAssumption, Zenon DEF Orders
  <2>3. CASE vendor[o]
    <3>1. Claims(o) /\ IsVendorTracked(status[o]) /\ ~(o = arr /\ apc = "mark")
      BY <2>1, <2>3, Zenon DEF StageInv, ClaimInv
    <3>2. ~Dead(o)'
      BY <2>1, <3>1, Zenon DEF IsVendorTracked, Dead, IsTerminal, Terminal
    <3>3. VendorMove(o)
      BY <2>3, VendorStatus, Zenon
    <3> QED
      BY <3>1, <3>2, <3>3, Zenon DEF VendorMove, IsVendorTracked, Dead, IsTerminal, Terminal
  <2>4. CASE ~vendor[o]
    <3>1. o = cur /\ pc = "name"
      BY <1>1, <2>2, <2>4, Zenon
    <3>2. ~Dead(o) /\ status[o] = "dispatched"
      BY <2>1, <3>1, Zenon DEF ClaimInv, StageInv, HandingOver, Dead, IsTerminal
    <3>3. ~(o = arr /\ apc = "mark")
      BY <2>4, Zenon DEF StageInv
    <3>4. StatusMove(o)
      BY <2>2, StatusMoves, Zenon
    <3> QED
      BY <2>1, <2>2, <2>4, <3>1, <3>2, <3>3, <3>4, Zenon DEF StatusMove, IsVendorTracked
  <2> QED
    BY <2>3, <2>4, Zenon
<1>2. ASSUME pc' \in {"create", "reread", "name"}, Claims(cur)', Dead(cur)' PROVE FALSE
  <2>1. /\ cur' = cur /\ pc \in {"dispatch", "create", "reread", "name"}
        /\ pc = "dispatch" => status'[cur] = "dispatched"
    BY <1>2, ScannerMoves, Zenon DEF ScannerMove, Acquiring, HandingOver
  <2>2. cur \in Plain
    BY <2>1, Zenon DEF TypeInv, TypeOK, ScannerOK
  <2>3. Claims(cur) /\ Dead(cur)
    BY <1>2, <2>1, <2>2, ClaimMoves, Zenon DEF Claims, Dead
  <2>4. pc # "dispatch"
    BY <1>2, <2>1, Zenon DEF Dead, IsTerminal, Terminal
  <2> QED
    BY <2>1, <2>3, <2>4, Zenon DEF ClaimInv
<1>3. ASSUME apc' = "mark", Claims(arr)' PROVE FALSE
  <2>1. /\ arr' = arr /\ apc \in {"mark", "guard", "place"}
        /\ apc = "guard" => binId'[arr] = None
    BY <1>3, ArrivalMoves, Zenon DEF ArrivalMove
  <2>2. arr \in Plain /\ (pc # "idle" => arr # cur)
    BY <2>1, Zenon DEF TypeInv, TypeOK, PollerOK, StageInv
  <2>3. apc = "mark" /\ Claims(arr)
    BY <1>3, <2>1, <2>2, ClaimMoves, FulfilmentAssumption, Zenon DEF Claims
  <2> QED
    BY <2>3, Zenon DEF ClaimInv
<1> QED
  BY <1>1, <1>2, <1>3, Zenon DEF ClaimInv, Claims, Dead

\* The arrival in hand was let through by the guard for an order under way.
LEMMA PlaceKept ==
    TypeInv /\ StageInv /\ ClaimInv /\ PlaceInv /\ Next => PlaceInv'
<1> SUFFICES ASSUME TypeInv, StageInv, ClaimInv, PlaceInv, Next PROVE PlaceInv'
  OBVIOUS
<1>1. ArrivalMove
  BY ArrivalMoves, Zenon
<1>2. ASSUME apc # "idle" PROVE arr \in Plain /\ vendor[arr] /\ VendorMove(arr)
  BY <1>2, VendorStatus, Zenon DEF TypeInv, TypeOK, PollerOK, StageInv
<1>3. ASSUME apc' = "place"
      PROVE IsVendorTracked(status'[arr']) \/ status'[arr'] = "cancelled"
  <2>1. CASE apc = "place" /\ arr' = arr
    BY <1>2, <2>1, Zenon DEF PlaceInv, VendorMove, IsVendorTracked, LiveOrder, Live
  <2>2. CASE apc = "guard" /\ arr' = arr /\ status' = status /\ binId[arr] # None /\ binClaim[binId[arr]] = arr
    <3>1. Claims(arr)
      BY <1>2, <2>2, Zenon DEF Claims, TypeInv, TypeOK, OrdersOK, Orders
    <3> QED
      BY <1>2, <2>2, <3>1, Zenon DEF ClaimInv
  <2> QED
    BY <1>1, <1>3, <2>1, <2>2, Zenon DEF ArrivalMove
<1>4. ASSUME apc' \in {"unclaim", "guard", "fail", "place", "mark"}
      PROVE status'[arr'] = asnap' \/ Dead(arr)'
  <2>1. CASE UNCHANGED <<apc, arr, asnap>>
    BY <1>2, <1>4, <2>1, Zenon DEF PlaceInv, VendorMove, Dead, IsTerminal, Terminal, LiveOrder, Live
  <2>2. CASE apc = "idle" /\ asnap' = status[arr'] /\ status' = status
    BY <2>2, Zenon
  <2>3. CASE UNCHANGED <<arr, asnap, status>> /\ apc \in {"unclaim", "guard", "place"}
    BY <2>3, Zenon DEF PlaceInv, Dead
  <2> QED
    BY <1>1, <1>4, <2>1, <2>2, <2>3, Zenon DEF ArrivalMove
<1> QED
  BY <1>3, <1>4, Zenon DEF PlaceInv, Dead

\* Without a cancel from outside, no arrival loses its order half way.
LEMMA CancelKept ==
    TypeInv /\ StageInv /\ ClaimInv /\ CancelInv /\ Next /\ TypeInv' => CancelInv'
<1> SUFFICES ASSUME TypeInv, StageInv, ClaimInv, CancelInv, Next, TypeInv', used'["cancel"] = 0
             PROVE  /\ \A o \in cancelling' : /\ ~vendor'[o] /\ o # cur'
                                              /\ status'[o] \in {"dispatched"} \cup Terminal
                    /\ apc' = "place" => IsVendorTracked(status'[arr'])
  BY Zenon DEF CancelInv
<1>1. used["cancel"] = 0
  BY UsedGrows, Zenon DEF Kinds
<1>2. ASSUME NEW o \in cancelling'
      PROVE /\ ~vendor'[o] /\ o # cur'
            /\ status'[o] \in {"dispatched"} \cup Terminal
  <2>1. CASE o \notin cancelling
    BY <1>2, <2>1, CancellingMoves, Zenon
  <2>2. CASE o \in cancelling
    <3>1. /\ o \in Orders /\ ~vendor[o] /\ o # cur
          /\ status[o] \in {"dispatched"} \cup Terminal
      BY <1>1, <2>2, Zenon DEF CancelInv, TypeInv, TypeOK, BookkeepingOK
    <3>2. ~vendor'[o]
      BY <3>1, VendorMoves, Zenon DEF TypeInv, TypeOK, OrdersOK
    <3>3. ~IsAcquiring(status[o]) /\ o # None
      BY <3>1, FulfilmentAssumption, Zenon DEF IsAcquiring, Terminal
    <3>4. pc' = "idle" => cur' = None
      BY Zenon DEF TypeInv, TypeOK, ScannerOK
    <3>5. o # cur'
      BY <3>1, <3>3, <3>4, ScannerMoves, Zenon DEF ScannerMove
    <3>6. StatusMove(o) /\ ~(o = arr /\ apc = "mark")
      BY <3>1, StatusMoves, Zenon DEF StageInv
    <3>7. status'[o] \in {"dispatched"} \cup Terminal
      BY <3>1, <3>6, Zenon DEF StatusMove, Dead, IsTerminal, Terminal
    <3> QED
      BY <3>2, <3>5, <3>7, Zenon
  <2> QED
    BY <2>1, <2>2, Zenon
<1>3. ASSUME apc' = "place" PROVE IsVendorTracked(status'[arr'])
  <2>1. apc \in {"place", "guard"} /\ arr' = arr
    BY <1>3, ArrivalMoves, Zenon DEF ArrivalMove
  <2>2. arr \in Plain /\ vendor[arr]
    BY <2>1, Zenon DEF TypeInv, TypeOK, PollerOK, StageInv
  <2>3. CASE apc = "place"
    <3>1. VendorMove(arr) /\ IsVendorTracked(status[arr]) /\ arr \notin cancelling
      BY <1>1, <2>2, <2>3, VendorStatus, Zenon DEF CancelInv
    <3> QED
      BY <2>1, <2>3, <3>1, Zenon DEF VendorMove, IsVendorTracked
  <2>4. CASE apc = "guard"
    <3>1. binId[arr] # None /\ binClaim[binId[arr]] = arr /\ status' = status
      BY <1>3, <2>4, ArrivalMoves, Zenon DEF ArrivalMove
    <3>2. Claims(arr)
      BY <2>2, <3>1, Zenon DEF Claims, TypeInv, TypeOK, OrdersOK, Orders
    <3> QED
      BY <2>1, <2>2, <3>1, <3>2, Zenon DEF ClaimInv
  <2> QED
    BY <2>1, <2>3, <2>4, Zenon
<1> QED
  BY <1>2, <1>3, Zenon

\* The hand-over starts at the slot's confirmation.
HandOver == {"confirmBin", "dispatch", "create", "reread", "name"}

\* The scanner reaches the hand-over by confirming the slot.
LEMMA HandOverEntered ==
    ASSUME TypeInv, Next, pc' \in HandOver
    PROVE  cur' = cur /\ (pc \in HandOver \/ slotClaim'[Dest[cur]] = cur)
<1> USE DEF HandOver
<1>1. cur' = cur /\ pc # "idle"
  BY ScannerMoves, Zenon DEF ScannerMove, Acquiring, HandingOver
<1>2. CASE ~ScannerStep
  BY <1>1, <1>2, NextCases, ZenonT(40)
     DEF DeliveryStep, UnclaimOrderSlots, ArrivalGuard, FailArrival, ApplyArrival,
     MarkDelivered, GraceStop, FleetStep, FleetEvent, MarkInTransit, MarkFaulted,
     GraceExpired, FleetOrderCancelled, PickupBlockCompleted, Delivered, CancelStep,
     CancelOrder, AbandonStuckOrder, CancelBegin, CancelEnd, OrderStep, Admit, Load,
     ConfirmReceipt, SideStep, ReapOrphaned, ReleaseOrphanedClaims, LegEnds, DigClaims, Lock,
     Unlock, Restart, scanner
<1>3. CASE ConfirmSlot
  <2>1. slotClaim' = [slotClaim EXCEPT ![Dest[cur]] = cur]
    BY <1>3, Zenon DEF ConfirmSlot, Park
  <2>2. Dest[cur] \in Slots /\ slotClaim \in [Slots -> Orders \cup {None}]
    BY <1>1, FulfilmentAssumption, Zenon DEF TypeInv, TypeOK, ScannerOK, LedgerOK
  <2> QED
    BY <1>1, <2>1, <2>2, Zenon
<1>4. CASE ScannerStep /\ ~ConfirmSlot
  BY <1>1, <1>4, Zenon
     DEF ScannerStep, CheckDropoffCapacity, FindSource, Source, HeldSource, MoveToSourcing,
     Slot, HeldSlot, ReserveStorageDropoff, ReserveForDispatch, UpdateOrderBinID, AdmitLanes,
     ConfirmBin, Dispatch, CreateOrder, Reread, UpdateOrderVendor, Rollback,
     ReleaseClaimByOrder, At, Goto, Park
<1> QED
  BY <1>2, <1>3, <1>4, Zenon

\* The slot of the order in the scanner's hands is taken by no other arrival.
LEMMA SlotHeld ==
    ASSUME TypeInv, StageInv, NodeInv, CancelInv, Next, used["cancel"] = 0,
           pc \in HandOver, slotClaim[Dest[cur]] = cur
    PROVE  status'[cur] \in Terminal \/ slotClaim'[Dest[cur]] = cur
<1>1. cur \in Plain /\ ~vendor[cur] /\ pc \notin {"release", "idle", "capacity"}
  BY Zenon DEF HandOver, TypeInv, TypeOK, ScannerOK, StageInv
<1>2. ASSUME apc = "place", Dest[arr] = Dest[cur] PROVE FALSE
  <2>1. arr \in Plain \ {cur} /\ IsVendorTracked(status[arr])
    BY <1>1, <1>2, Zenon DEF StageInv, CancelInv, TypeInv, TypeOK, PollerOK
  <2>2. OnItsWay(arr)
    BY <2>1, Zenon DEF IsVendorTracked, OnItsWay, IsInFlight, Live
  <2> QED
    BY <1>1, <1>2, <2>1, <2>2, Zenon DEF NodeInv
<1>3. ~(cur = arr /\ apc = "unclaim")
  BY <1>1, Zenon DEF StageInv
<1>4. PICK o \in Plain : o = cur
  BY <1>1, Zenon
<1>5. slotClaim'[Dest[o]] = o \/ Dead(o)'
  BY <1>1, <1>2, <1>3, <1>4, SlotMoves, Zenon
<1> QED
  BY <1>4, <1>5, Zenon DEF Dead, IsTerminal

\* The claim of the slot, taken by ConfirmForDispatch, lasts the hand-over.
LEMMA SlotKept ==
    TypeInv /\ StageInv /\ NodeInv /\ CancelInv /\ SlotInv /\ Next => SlotInv'
<1> SUFFICES ASSUME TypeInv, StageInv, NodeInv, CancelInv, SlotInv, Next, used'["cancel"] = 0,
                    pc' \in HandOver, status'[cur'] \notin Terminal
             PROVE  slotClaim'[Dest[cur']] = cur'
  BY Zenon DEF SlotInv, HandOver, Dead, IsTerminal
<1>1. cur' = cur /\ used["cancel"] = 0
  BY HandOverEntered, UsedGrows, Zenon DEF Kinds
<1>2. CASE pc \in HandOver
  <2>1. cur \in Orders
    BY <1>2, Zenon DEF HandOver, TypeInv, TypeOK, ScannerOK, Orders
  <2>2. PICK o \in Orders : o = cur
    BY <2>1, Zenon
  <2>3. ~Dead(o)
    BY <1>1, <2>2, DeadStays, Zenon DEF Dead, IsTerminal
  <2>4. slotClaim[Dest[cur]] = cur
    BY <1>1, <1>2, <2>2, <2>3, Zenon DEF SlotInv, HandOver
  <2> QED
    BY <1>1, <1>2, <2>4, SlotHeld, Zenon
<1>3. CASE pc \notin HandOver
  BY <1>1, <1>3, HandOverEntered, Zenon
<1> QED
  BY <1>2, <1>3, Zenon

\* No step takes the slot of an order that is in the fleet's hands.
LEMMA HoldsSlotKept ==
    /\ TypeInv /\ StageInv /\ NodeInv /\ OneInFlightPerNode /\ CancelInv /\ SlotInv
    /\ DispatchedHoldsSlot /\ Next
    => DispatchedHoldsSlot'
<1> SUFFICES ASSUME TypeInv, StageInv, NodeInv, OneInFlightPerNode, CancelInv, SlotInv,
                    DispatchedHoldsSlot, Next, used'["cancel"] = 0,
                    NEW o \in Plain, UnderWay(o)'
             PROVE  slotClaim'[Dest[o]] = o
  BY Zenon DEF DispatchedHoldsSlot
<1>1. /\ o \in Orders /\ StatusMove(o) /\ JobMove(o) /\ o \notin Legs
      /\ used["cancel"] = 0
  BY StatusMoves, PollerMoves, UsedGrows, FulfilmentAssumption, Zenon DEF Orders, Kinds
<1>2. ~Dead(o)' /\ ~Dead(o)
  BY <1>1, DeadStays, Zenon DEF UnderWay, IsVendorTracked, Dead, IsTerminal, Terminal
<1>3. UnderWay(o) \/ (o = cur /\ pc \in {"dispatch", "create"})
  BY <1>1, <1>2, Zenon DEF UnderWay, IsVendorTracked, StatusMove, JobMove, StageInv, Dead, IsTerminal,
     Terminal, LiveOrder, HandingOver
<1>4. CASE o = cur /\ pc \in {"dispatch", "create"}
  <2>1. slotClaim[Dest[cur]] = cur /\ pc \in HandOver
    BY <1>1, <1>2, <1>4, Zenon DEF SlotInv, HandOver
  <2> QED
    BY <1>1, <1>2, <1>4, <2>1, SlotHeld, Zenon DEF Dead, IsTerminal
<1>5. CASE UnderWay(o)
  <2>1. slotClaim[Dest[o]] = o
    BY <1>1, <1>5, Zenon DEF DispatchedHoldsSlot
  <2>2. apc \in {"unclaim", "place"} => o # arr
    BY <1>5, Zenon DEF UnderWay, StageInv
  <2>3. ~(o = cur /\ pc = "release")
    BY <1>5, Zenon DEF UnderWay, IsVendorTracked, StageInv, Acquiring, Terminal
  <2>4. ASSUME apc = "place", Dest[arr] = Dest[o] PROVE FALSE
    <3>1. arr \in Plain /\ IsVendorTracked(status[arr]) /\ IsVendorTracked(status[o])
      BY <1>1, <1>5, <2>4, Zenon DEF CancelInv, TypeInv, TypeOK, PollerOK, UnderWay
    <3>2. OnItsWay(arr) /\ OnItsWay(o)
      BY <3>1, Zenon DEF IsVendorTracked, OnItsWay, IsInFlight, Live
    <3> QED
      BY <2>2, <2>4, <3>1, <3>2, Zenon DEF OneInFlightPerNode, OnItsWay
  <2> QED
    BY <1>2, <2>1, <2>2, <2>3, <2>4, SlotMoves, Zenon
<1> QED
  BY <1>3, <1>4, <1>5, Zenon

\* Whoever lands is marked delivered, unless a cancel came first.
LEMMA LandedKept ==
    /\ TypeInv /\ StageInv /\ PlaceInv /\ LandedInv /\ Next /\ TypeInv'
    => LandedInv'
<1> SUFFICES ASSUME TypeInv, StageInv, PlaceInv, LandedInv, Next, TypeInv', used'["crash"] = 0,
                    NEW o \in landed'
             PROVE  /\ o \in Plain /\ vendor'[o] /\ job'[o] = "reported"
                    /\ o = arr' => apc' = "mark"
                    /\ \/ status'[o] \in {"delivered", "confirmed", "cancelled"}
                       \/ o = arr' /\ status'[o] = asnap' /\ IsVendorTracked(asnap')
  BY Zenon DEF LandedInv
<1>1. used["crash"] = 0 /\ ~Restart /\ ArrivalMove
  BY UsedGrows, ArrivalMoves, Zenon DEF Kinds
<1>2. CASE o \notin landed
  <2>1. /\ apc = "place" /\ apc' = "mark" /\ o = arr
        /\ UNCHANGED <<arr, asnap, status, vendor, job>>
    <3>1. landed' # landed
      BY <1>2, Zenon
    <3>2. /\ apc = "place" /\ apc' = "mark" /\ landed' = landed \cup {arr}
          /\ UNCHANGED <<arr, asnap, status, vendor, job>>
      BY <1>1, <3>1, Zenon DEF ArrivalMove
    <3>3. o \in landed \cup {arr}
      BY <3>2, Zenon
    <3> QED
      BY <1>2, <3>2, <3>3, Zenon
  <2>2. o \in Plain /\ vendor[o] /\ job[o] = "reported"
    BY <2>1, Zenon DEF TypeInv, TypeOK, PollerOK, StageInv
  <2>3. \/ status[o] = "cancelled"
        \/ IsVendorTracked(status[o]) /\ status[o] = asnap
    BY <2>1, Zenon DEF PlaceInv, IsVendorTracked, Dead, IsTerminal, Terminal
  <2> QED
    BY <2>1, <2>2, <2>3, Zenon
<1>3. CASE o \in landed
  <2>1. /\ o \in Plain /\ vendor[o] /\ job[o] = "reported"
        /\ o = arr => apc = "mark"
        /\ \/ status[o] \in {"delivered", "confirmed", "cancelled"}
           \/ o = arr /\ status[o] = asnap /\ IsVendorTracked(asnap)
    BY <1>1, <1>3, Zenon DEF LandedInv
  <2>2. job'[o] = "reported"
    BY <1>1, <2>1, NoReplay, Zenon
  <2>3. vendor'[o]
    <3>1. o \in Orders /\ (pc # "idle" => o # cur)
      BY <2>1, Zenon DEF Orders, StageInv
    <3> QED
      BY <2>1, <3>1, VendorMoves, Zenon DEF TypeInv, TypeOK, ScannerOK
  <2>4. VendorMove(o)
    BY <2>1, VendorStatus, Zenon
  <2>5. /\ apc = "idle" => arr = None
        /\ apc' = "idle" => arr' = None
        /\ o # None
    BY <2>1, FulfilmentAssumption, Zenon DEF TypeInv, TypeOK, PollerOK, Orders
  <2>6. o = arr' => o = arr /\ apc = "mark" /\ UNCHANGED <<apc, asnap>>
    <3>1. status[o] = "faulted" => o = arr
      BY <2>1, Zenon
    <3> QED
      BY <1>1, <2>1, <2>5, <3>1, Zenon DEF ArrivalMove
  <2>7. CASE status[o] \in {"delivered", "confirmed", "cancelled"}
    <3>1. status'[o] \in {"delivered", "confirmed", "cancelled"}
      BY <2>1, <2>4, <2>7, Zenon DEF VendorMove
    <3> QED
      BY <2>1, <2>2, <2>3, <2>6, <3>1, Zenon
  <2>8. CASE o = arr /\ status[o] = asnap /\ IsVendorTracked(asnap)
    <3>1. CASE UNCHANGED <<apc, arr, asnap>>
      <4>1. status'[o] \in {status[o], "cancelled"}
        BY <2>1, <2>4, <2>8, <3>1, Zenon DEF VendorMove, IsVendorTracked
      <4> QED
        BY <2>1, <2>2, <2>3, <2>6, <2>8, <3>1, <4>1, Zenon
    <3>2. CASE apc' = "idle"
      <4>1. MarkDelivered
        BY <1>1, <2>1, <2>8, <3>2, Zenon DEF ArrivalMove
      <4>2. IsValidTransition(asnap, "delivered")
        BY <2>8, SMT DEF IsVendorTracked, IsValidTransition, ValidTransitions, Live
      <4>3. o \in Orders /\ status \in [Orders -> Status \cup {"none"}]
        BY <2>1, Zenon DEF Orders, TypeInv, TypeOK, OrdersOK
      <4>4. status'[o] = "delivered"
        BY <2>8, <4>1, <4>2, <4>3, Zenon DEF MarkDelivered, CanSwap
      <4> QED
        BY <2>1, <2>2, <2>3, <2>5, <3>2, <4>4, Zenon
    <3> QED
      BY <1>1, <2>1, <2>8, <3>1, <3>2, Zenon DEF ArrivalMove
  <2> QED
    BY <2>1, <2>7, <2>8, Zenon
<1> QED
  BY <1>2, <1>3, Zenon

\* The second half of the inductive invariant.
FInv ==
    /\ IInv /\ ClaimInv /\ PlaceInv /\ CancelInv /\ SlotInv
    /\ DispatchedHoldsSlot /\ LandedInv

\* The conjunction is an inductive invariant.
LEMMA AlwaysFInv == Spec => []FInv
<1>1. Init => FInv
  <2> SUFFICES ASSUME Init PROVE FInv
    OBVIOUS
  <2>1. IInv
    BY InitIInv, Zenon
  <2>2. ClaimInv /\ PlaceInv /\ CancelInv
    BY Zenon DEF Init, ClaimInv, PlaceInv, CancelInv, Orders
  <2>3. SlotInv /\ DispatchedHoldsSlot /\ LandedInv
    BY Zenon DEF Init, SlotInv, DispatchedHoldsSlot, LandedInv, UnderWay, IsVendorTracked, Orders
  <2> QED
    BY <2>1, <2>2, <2>3, Zenon DEF FInv
<1>2. FInv /\ IInv' /\ Next => FInv'
  <2> SUFFICES ASSUME FInv, IInv', Next PROVE FInv'
    OBVIOUS
  <2>1. TypeInv /\ TypeInv'
    BY Zenon DEF FInv, IInv
  <2> QED
    BY <2>1, ClaimKept, PlaceKept, CancelKept, SlotKept, HoldsSlotKept, LandedKept, Zenon
       DEF FInv, IInv
<1>3. FInv /\ IInv' /\ UNCHANGED vars => FInv'
  <2> SUFFICES ASSUME FInv, IInv', UNCHANGED vars PROVE FInv'
    OBVIOUS
  <2> USE DEF vars, orders, ledger, claims, floor, scanner, poller, FInv
  <2>1. ClaimInv' /\ PlaceInv'
    BY Zenon DEF ClaimInv, PlaceInv, Claims, Dead
  <2>2. CancelInv' /\ SlotInv'
    BY Zenon DEF CancelInv, SlotInv, Dead
  <2>3. DispatchedHoldsSlot' /\ LandedInv'
    BY Zenon DEF DispatchedHoldsSlot, LandedInv, UnderWay
  <2> QED
    BY <2>1, <2>2, <2>3, Zenon
<1> QED
  BY AlwaysIInv, <1>1, <1>2, <1>3, PTL DEF Spec

\* As long as nobody cancels an order from outside, the slot that
\* ConfirmForDispatch claimed stays the order's until its own arrival gives it up:
\* no rollback, sweep, restart or other order's ApplyArrival strips it.
THEOREM FleetOrderHoldsSlot == Spec => []DispatchedHoldsSlot
<1>1. FInv => DispatchedHoldsSlot
  BY Zenon DEF FInv
<1> QED
  BY AlwaysFInv, <1>1, PTL

\* As long as Core does not restart, an order whose bin ApplyArrival put down is
\* never failed, however faults, cancels and the fleet's own events race the
\* arrival.
THEOREM LandedStaysLanded == Spec => []LandedFailsOnlyByReplay
<1>1. FInv => LandedFailsOnlyByReplay
  BY Zenon DEF FInv, LandedInv, LandedFailsOnlyByReplay, LandedNotFailed, IsVendorTracked
<1> QED
  BY AlwaysFInv, <1>1, PTL
=============================================================================
