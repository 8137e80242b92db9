----------------------------- MODULE Fulfilment -----------------------------
(***************************************************************************)
(* The plain (single-transport) order path of shingo-core, from the queue  *)
(* to the receipt: the fulfilment scanner, the reservation ledger and the  *)
(* hard claims it turns into, the hand-over to the fleet, the arrival, and *)
(* everything that runs beside them (cancels, digs that steal a soft-held  *)
(* bin, operators that lock a bin, the two sweeps, a restart).             *)
(*                                                                         *)
(* One action is one database transaction, or one fleet call, of the code. *)
(* The scanner holds scanMu for a whole tick, so there is one scanner and  *)
(* its program counter is a variable; the fleet's events are handled by    *)
(* the poller's single goroutine, likewise.                                *)
(***************************************************************************)
EXTENDS OrderStatus, Integers, FiniteSets

CONSTANTS
    Plain,      \* plain orders
    Legs,       \* legs a dig may create
    Bins,
    Slots,      \* storage slots that are delivery nodes
    Dest,       \* the delivery node of a plain order
    None,       \* no order, no bin, no row
    Budget      \* bound: how often each kind of disturbance happens

Orders == Plain \cup Legs
Kinds == {"cancel", "crash", "dig", "fault", "lane", "lock", "refuse"}

\* Places a bin is recorded at besides the slots: somewhere in storage where
\* a finder can see it, or on a robot (the _TRANSIT node).
Shelf == "shelf"
Transit == "transit"
Places == Slots \cup {Shelf, Transit}

ASSUME FulfilmentAssumption ==
    /\ Plain \cap Legs = {}
    /\ Dest \in [Plain -> Slots]
    /\ None \notin Orders /\ None \notin Bins
    /\ Shelf \notin Slots /\ Transit \notin Slots
    /\ Budget \in [Kinds -> Nat]

VARIABLES
    status,     \* orders.status ("none": no row yet)
    binId,      \* orders.bin_id
    vendor,     \* orders.vendor_order_id is set
    binRow,     \* owner of the bin's reservation row (one active row per bin)
    binFirm,    \* bins whose row is confirmed (else pending)
    slotRow,    \* owner of the slot's reservation row
    slotFirm,   \* slots whose row is confirmed
    binClaim,   \* bins.claimed_by
    slotClaim,  \* nodes.claimed_by
    binAt,      \* bins.node_id
    locked,     \* bins an operator holds locked
    job,        \* the fleet's job for the order
    pc,         \* the scanner: next step of tryFulfill, "idle" between orders
    cur,        \* the scanner: the order in hand
    snap,       \* the scanner: the order's status as loaded
    pick,       \* the scanner: the bin in hand
    arr,        \* the poller: the order whose delivery is being handled
    apc,        \* the poller: next step of handleVendorStatusChange
    asnap,      \* the poller: the order's status as loaded
    cancelling, \* orders a CancelOrder call has loaded and not yet ended
    landed,     \* orders whose bin ApplyArrival has put down (history)
    used        \* disturbances so far

orders == <<status, binId, vendor>>
ledger == <<binRow, binFirm, slotRow, slotFirm>>
claims == <<binClaim, slotClaim>>
floor == <<binAt, locked>>
scanner == <<pc, cur, snap, pick>>
poller == <<arr, apc, asnap>>
vars == <<orders, ledger, claims, floor, job, scanner, poller, cancelling,
          landed, used>>

\* The fleet's job for an order, as far as Core has heard of it: "live" until
\* the pickup block is reported, "carrying" until FINISHED is handled, then
\* "reported".  After a restart the poller hears a finished job "again", block
\* by block; a job no restart re-tracks is "lost": a robot nobody watches.
Jobs == {"none", "live", "carrying", "again", "done", "reported", "stopped", "lost"}
Moving(o) == job[o] \in {"live", "carrying", "lost"}

LiveOrder(o) == status[o] \in Live
Dead(o) == IsTerminal(status[o])

Init ==
    /\ status = [o \in Orders |-> IF o \in Plain THEN "pending" ELSE "none"]
    /\ binId = [o \in Orders |-> None] /\ vendor = [o \in Orders |-> FALSE]
    /\ binRow = [b \in Bins |-> None] /\ binFirm = {}
    /\ slotRow = [s \in Slots |-> None] /\ slotFirm = {}
    /\ binClaim = [b \in Bins |-> None] /\ slotClaim = [s \in Slots |-> None]
    /\ binAt = [b \in Bins |-> Shelf] /\ locked = {}
    /\ job = [o \in Orders |-> "none"]
    /\ pc = "idle" /\ cur = None /\ snap = "none" /\ pick = None
    /\ arr = None /\ apc = "idle" /\ asnap = "none"
    /\ cancelling = {} /\ landed = {}
    /\ used = [k \in Kinds |-> 0]

Spend(k) == used[k] < Budget[k] /\ used' = [used EXCEPT ![k] = @ + 1]

-----------------------------------------------------------------------------
(* Transactions of the store.                                              *)

\* ReleaseClaimByOrder, and the releases of TerminalizeOrderWithReason: the
\* order's hard claims and all its reservation rows.  orders.bin_id stays.
ReleaseHoldings(o) ==
    /\ binClaim' = [b \in Bins |-> IF binClaim[b] = o THEN None ELSE binClaim[b]]
    /\ slotClaim' = [s \in Slots |-> IF slotClaim[s] = o THEN None ELSE slotClaim[s]]
    /\ binRow' = [b \in Bins |-> IF binRow[b] = o THEN None ELSE binRow[b]]
    /\ binFirm' = {b \in binFirm : binRow[b] # o}
    /\ slotRow' = [s \in Slots |-> IF slotRow[s] = o THEN None ELSE slotRow[s]]
    /\ slotFirm' = {s \in slotFirm : slotRow[s] # o}

\* TerminalizeOrderWithReason: the first terminal status wins; the releases
\* run for the loser too.
Terminalize(o, to) ==
    /\ status' = IF LiveOrder(o) THEN [status EXCEPT ![o] = to] ELSE status
    /\ ReleaseHoldings(o)

\* transition to a non-terminal status: compare-and-swap on the loaded one.
CanSwap(o, from, to) == status[o] = from /\ IsValidTransition(from, to)

-----------------------------------------------------------------------------
(* Intake.                                                                 *)

Admit(o) ==
    /\ status[o] = "pending" /\ o \in Plain
    /\ status' = [status EXCEPT ![o] = "queued"]
    /\ UNCHANGED <<binId, vendor, ledger, claims, floor, job, scanner, poller,
                   cancelling, landed, used>>

-----------------------------------------------------------------------------
(* The scanner: one tick of tryFulfill for one order.  The steps of an     *)
(* order with no bin ("find" ...) and of one that holds its bin ("held"    *)
(* ...) meet at the lane gate.                                             *)

At(step) == pc = step
Goto(step) == pc' = step /\ UNCHANGED <<cur, snap, pick>>
Park == pc' = "idle" /\ cur' = None /\ snap' = "none" /\ pick' = None

\* What a step that only reads, or only moves the scanner on, leaves alone.
BooksUnchanged == UNCHANGED <<orders, ledger, claims, floor, job, poller,
                              cancelling, landed, used>>

\* tryFulfill re-reads the order and skips it unless it is still acquiring.
Load(o) ==
    /\ At("idle")
    /\ o \in Plain /\ IsAcquiring(status[o])
    /\ pc' = "capacity" /\ cur' = o /\ snap' = status[o] /\ pick' = binId[o]
    /\ BooksUnchanged

\* Mutant: only orders the fleet already works on count against the node.
DropoffBlockedByFleet(o) ==
    \/ \E b \in Bins : binAt[b] = Dest[o]
    \/ \E p \in Plain \ {o} : Dest[p] = Dest[o] /\ IsVendorTracked(status[p])

\* CheckDropoffCapacity: no bin at the node and no other order in flight to it.
DropoffBlocked(o) ==
    \/ \E b \in Bins : binAt[b] = Dest[o]
    \/ \E p \in Plain \ {o} : Dest[p] = Dest[o] /\ IsInFlight(status[p])

CheckDropoffCapacity ==
    /\ At("capacity")
    /\ IF DropoffBlocked(cur) THEN Park
       ELSE Goto(IF pick = None THEN "find" ELSE "heldSlot")
    /\ BooksUnchanged

\* BinUnavailableReason, for a bin standing at a node the finder looks at.
Available(b) ==
    /\ binClaim[b] = None
    /\ binRow[b] = None \/ b \in binFirm
    /\ b \notin locked
    /\ binAt[b] # Transit

FindSource ==
    /\ At("find")
    /\ \/ \E b \in Bins : /\ Available(b)
                          /\ pick' = b /\ pc' = "source" /\ UNCHANGED <<cur, snap>>
       \/ (\A b \in Bins : ~Available(b)) /\ Park
    /\ BooksUnchanged

\* MoveToSourcing writes nothing for an order loaded in sourcing; otherwise it
\* is the compare-and-swap, and a tick that loses it yields.
MoveToSourcing(next) ==
    /\ \/ /\ snap = "sourcing"
          /\ pc' = next /\ UNCHANGED <<cur, snap, pick, status>>
       \/ /\ snap # "sourcing" /\ CanSwap(cur, snap, "sourcing")
          /\ status' = [status EXCEPT ![cur] = "sourcing"]
          /\ pc' = next /\ snap' = "sourcing" /\ UNCHANGED <<cur, pick>>
       \/ /\ snap # "sourcing" /\ ~CanSwap(cur, snap, "sourcing")
          /\ Park /\ UNCHANGED status
    /\ UNCHANGED <<binId, vendor, ledger, claims, floor, job, poller,
                   cancelling, landed, used>>

Source == At("source") /\ MoveToSourcing("slot")
HeldSource == At("heldSource") /\ MoveToSourcing("lanes")

\* Mutant: a row the order already holds is taken for somebody else's.
ReserveStorageDropoffOnce(next) ==
    LET s == Dest[cur]
        free == ~\E b \in Bins : binAt[b] = s IN
    /\ \/ free /\ slotRow[s] = None /\ Goto(next)
          /\ slotRow' = [slotRow EXCEPT ![s] = cur]
       \/ (~free \/ slotRow[s] # None) /\ Park /\ UNCHANGED slotRow
    /\ UNCHANGED <<orders, binRow, binFirm, slotFirm, claims, floor, job, poller,
                   cancelling, landed, used>>

\* ReserveStorageDropoff: refused when a bin stands in the slot or another
\* order reserved it; a row the order already holds is reused.
ReserveStorageDropoff(next) ==
    LET s == Dest[cur]
        free == ~\E b \in Bins : binAt[b] = s IN
    /\ \/ free /\ slotRow[s] = cur /\ Goto(next) /\ UNCHANGED slotRow
       \/ free /\ slotRow[s] = None /\ Goto(next)
          /\ slotRow' = [slotRow EXCEPT ![s] = cur]
       \/ (~free \/ slotRow[s] \notin {cur, None}) /\ Park /\ UNCHANGED slotRow
    /\ UNCHANGED <<orders, binRow, binFirm, slotFirm, claims, floor, job, poller,
                   cancelling, landed, used>>

Slot == At("slot") /\ ReserveStorageDropoff("bin")
HeldSlot == At("heldSlot") /\ ReserveStorageDropoff("heldSource")

\* ReserveForDispatch: one active row per bin, whoever holds it.
ReserveForDispatch ==
    /\ At("bin")
    /\ \/ /\ binRow[pick] = None
          /\ binRow' = [binRow EXCEPT ![pick] = cur] /\ Goto("stamp")
       \/ /\ binRow[pick] # None
          /\ Park /\ UNCHANGED binRow
    /\ UNCHANGED <<orders, binFirm, slotRow, slotFirm, claims, floor, job, poller,
                   cancelling, landed, used>>

UpdateOrderBinID ==
    /\ At("stamp")
    /\ binId' = [binId EXCEPT ![cur] = pick]
    /\ Goto("lanes")
    /\ UNCHANGED <<status, vendor, ledger, claims, floor, job, poller,
                   cancelling, landed, used>>

\* admitLanes: the lane mouths on the way admit the order, or it parks with
\* its soft holds.
AdmitLanes ==
    /\ At("lanes")
    /\ \/ Goto("confirmSlot") /\ UNCHANGED used
       \/ Spend("lane") /\ Park
    /\ UNCHANGED <<orders, ledger, claims, floor, job, poller, cancelling, landed>>

\* ConfirmForDispatch, slot leg: an own claim is confirmed in place, else the
\* slot must be unclaimed, empty and pending for this order.
CanClaimSlot(o, s) ==
    /\ slotClaim[s] = None
    /\ ~\E b \in Bins : binAt[b] = s
    /\ slotRow[s] = o /\ s \notin slotFirm

ConfirmSlot ==
    LET s == Dest[cur] IN
    /\ At("confirmSlot")
    /\ \/ /\ slotClaim[s] = cur \/ CanClaimSlot(cur, s)
          /\ slotClaim' = [slotClaim EXCEPT ![s] = cur]
          /\ slotFirm' = IF slotRow[s] = cur THEN slotFirm \cup {s} ELSE slotFirm
          /\ Goto("confirmBin")
       \/ /\ slotClaim[s] # cur /\ ~CanClaimSlot(cur, s)
          /\ Park /\ UNCHANGED <<slotClaim, slotFirm>>
    /\ UNCHANGED <<orders, binRow, binFirm, slotRow, binClaim, floor, job, poller,
                   cancelling, landed, used>>

\* ConfirmForDispatch, bin leg: ConfirmClaim, claim and confirm in one
\* transaction under this order's PENDING row.
CanClaimBin(o, b) ==
    /\ b \notin locked
    /\ binClaim[b] \in {None, o}
    /\ binRow[b] = o /\ b \notin binFirm

ConfirmBin ==
    /\ At("confirmBin")
    /\ \/ /\ CanClaimBin(cur, pick)
          /\ binClaim' = [binClaim EXCEPT ![pick] = cur]
          /\ binFirm' = binFirm \cup {pick}
          /\ Goto("dispatch")
       \/ /\ ~CanClaimBin(cur, pick)
          /\ Park /\ UNCHANGED <<binClaim, binFirm>>
    /\ UNCHANGED <<orders, binRow, slotRow, slotFirm, slotClaim, floor, job, poller,
                   cancelling, landed, used>>

-----------------------------------------------------------------------------
(* handoverToFleet, and DispatchDirect's rollback.                         *)

\* The claim on the order: sourcing -> dispatched, before the fleet is asked.
Dispatch ==
    /\ At("dispatch")
    /\ \/ /\ CanSwap(cur, "sourcing", "dispatched")
          /\ status' = [status EXCEPT ![cur] = "dispatched"]
          /\ Goto("create")
       \/ ~CanSwap(cur, "sourcing", "dispatched") /\ Goto("release") /\ UNCHANGED status
    /\ UNCHANGED <<binId, vendor, ledger, claims, floor, job, poller,
                   cancelling, landed, used>>

CreateOrder ==
    /\ At("create")
    /\ \/ job' = [job EXCEPT ![cur] = "live"] /\ Goto("reread") /\ UNCHANGED used
       \/ Spend("refuse") /\ Goto("rollback") /\ UNCHANGED job
    /\ UNCHANGED <<orders, ledger, claims, floor, poller, cancelling, landed>>

\* The terminalizer race: an order that went terminal during the create has
\* its job cancelled on the spot.
Reread ==
    /\ At("reread")
    /\ \/ Dead(cur) /\ job' = [job EXCEPT ![cur] = "stopped"] /\ Goto("rollback")
       \/ ~Dead(cur) /\ Goto("name") /\ UNCHANGED job
    /\ UNCHANGED <<orders, ledger, claims, floor, poller, cancelling, landed, used>>

UpdateOrderVendor ==
    /\ At("name")
    /\ \/ vendor' = [vendor EXCEPT ![cur] = TRUE] /\ Park /\ UNCHANGED <<job, used>>
       \/ /\ Spend("refuse") /\ UNCHANGED vendor
          /\ job' = [job EXCEPT ![cur] = "stopped"] /\ Goto("rollback")
    /\ UNCHANGED <<status, binId, ledger, claims, floor, poller, cancelling, landed>>

\* Mutant: the rollback writes the status without comparing it.
RollbackBlind ==
    /\ At("rollback")
    /\ status' = [status EXCEPT ![cur] = "sourcing"]
    /\ Goto("release")
    /\ UNCHANGED <<binId, vendor, ledger, claims, floor, job, poller,
                   cancelling, landed, used>>

Rollback ==
    /\ At("rollback")
    /\ status' = IF CanSwap(cur, "dispatched", "sourcing")
                 THEN [status EXCEPT ![cur] = "sourcing"] ELSE status
    /\ Goto("release")
    /\ UNCHANGED <<binId, vendor, ledger, claims, floor, job, poller,
                   cancelling, landed, used>>

ReleaseClaimByOrder ==
    /\ At("release")
    /\ ReleaseHoldings(cur)
    /\ Park
    /\ UNCHANGED <<orders, floor, job, poller, cancelling, landed, used>>

ScannerStep ==
    \/ CheckDropoffCapacity \/ FindSource \/ Source \/ HeldSource
    \/ Slot \/ HeldSlot \/ ReserveForDispatch \/ UpdateOrderBinID
    \/ AdmitLanes \/ ConfirmSlot \/ ConfirmBin
    \/ Dispatch \/ CreateOrder \/ Reread \/ UpdateOrderVendor
    \/ Rollback \/ ReleaseClaimByOrder

-----------------------------------------------------------------------------
(* Cancels: CancelOrder is called with a loaded order, stops the fleet job *)
(* it has the id of, and then terminalizes.                                *)

StopJob(o) == job' = IF job[o] \in {"live", "carrying"}
                     THEN [job EXCEPT ![o] = "stopped"] ELSE job

CancelBegin(o) ==
    /\ LiveOrder(o) /\ o \notin cancelling
    /\ cancelling' = cancelling \cup {o}
    /\ IF vendor[o] THEN StopJob(o) ELSE UNCHANGED job
    /\ UNCHANGED <<orders, ledger, claims, floor, scanner, poller, landed>>

\* A cancel from Edge or from the operator's page.
CancelOrder(o) == Spend("cancel") /\ CancelBegin(o)

\* AbandonStuckOrders, for an order the fleet never confirmed: its timeout is
\* far longer than a hand-over in progress.
AbandonStuckOrder(o) ==
    /\ status[o] = "dispatched" /\ ~vendor[o] /\ cur # o
    /\ CancelBegin(o)
    /\ UNCHANGED used

CancelEnd(o) ==
    /\ o \in cancelling
    /\ cancelling' = cancelling \ {o}
    /\ Terminalize(o, "cancelled")
    /\ UNCHANGED <<binId, vendor, floor, job, scanner, poller, landed, used>>

-----------------------------------------------------------------------------
(* The fleet's events, handled one at a time by the poller's goroutine.    *)

Tracked(o) == vendor[o] /\ IsVendorTracked(status[o])
PollerIdle == apc = "idle"
Step(step) == apc' = step /\ UNCHANGED <<arr, asnap>>
Handled == apc' = "idle" /\ arr' = None /\ asnap' = "none"

\* MarkInTransit, MarkFaultedRecovered.
MarkInTransit(o) ==
    /\ PollerIdle /\ job[o] \in {"live", "carrying"} /\ vendor[o]
    /\ CanSwap(o, status[o], "in_transit")
    /\ status' = [status EXCEPT ![o] = "in_transit"]
    /\ UNCHANGED <<binId, vendor, ledger, claims, floor, job, scanner, poller,
                   cancelling, landed, used>>

MarkFaulted(o) ==
    /\ PollerIdle /\ job[o] \in {"live", "carrying"} /\ vendor[o]
    /\ CanSwap(o, status[o], "faulted")
    /\ Spend("fault")
    /\ status' = [status EXCEPT ![o] = "faulted"]
    /\ UNCHANGED <<binId, vendor, ledger, claims, floor, job, scanner, poller,
                   cancelling, landed>>

\* handleGraceExpired: fail the order first, then stop the job.
GraceExpired(o) ==
    /\ PollerIdle /\ status[o] = "faulted" /\ vendor[o]
    /\ Terminalize(o, "failed")
    /\ apc' = "stop" /\ arr' = o /\ asnap' = "failed"
    /\ UNCHANGED <<binId, vendor, floor, job, scanner, cancelling, landed, used>>

GraceStop ==
    /\ apc = "stop"
    /\ StopJob(arr) /\ Handled
    /\ UNCHANGED <<orders, ledger, claims, floor, scanner, cancelling, landed, used>>

\* handleFleetOrderCancelled: the fleet reports the job STOPPED.
FleetOrderCancelled(o) ==
    /\ PollerIdle /\ job[o] = "stopped" /\ Tracked(o)
    /\ Terminalize(o, "cancelled")
    /\ UNCHANGED <<binId, vendor, floor, job, scanner, poller, cancelling, landed, used>>

\* Mutant: the slot claim is dropped at the pickup, not at the arrival.
PickupBlockCompletedUnclaims(o) ==
    /\ PollerIdle /\ vendor[o]
    /\ \/ job[o] = "live" /\ job' = [job EXCEPT ![o] = "carrying"]
       \/ job[o] = "again" /\ job' = [job EXCEPT ![o] = "done"]
    /\ binAt' = IF binId[o] = None THEN binAt ELSE [binAt EXCEPT ![binId[o]] = Transit]
    /\ slotClaim' = [s \in Slots |-> IF slotClaim[s] = o THEN None ELSE slotClaim[s]]
    /\ UNCHANGED <<orders, ledger, binClaim, locked, scanner, poller, cancelling,
                   landed, used>>

\* handlePickupBlockCompleted, resolvePickupBin's single-bin branch: the bin
\* goes to _TRANSIT whoever claims it and wherever it is recorded.
PickupBlockCompleted(o) ==
    /\ PollerIdle /\ vendor[o]
    /\ \/ job[o] = "live" /\ job' = [job EXCEPT ![o] = "carrying"]
       \/ job[o] = "again" /\ job' = [job EXCEPT ![o] = "done"]
    /\ binAt' = IF binId[o] = None THEN binAt ELSE [binAt EXCEPT ![binId[o]] = Transit]
    /\ UNCHANGED <<orders, ledger, claims, locked, scanner, poller, cancelling,
                   landed, used>>

\* FINISHED: handleVendorStatusChange loads the order, then handleOrderDelivered
\* runs before MarkDelivered.
Delivered(o) ==
    /\ PollerIdle /\ vendor[o] /\ job[o] \in {"carrying", "done"}
    /\ job' = [job EXCEPT ![o] = "reported"]
    /\ apc' = "unclaim" /\ arr' = o /\ asnap' = status[o]
    /\ UNCHANGED <<orders, ledger, claims, floor, scanner, cancelling, landed, used>>

UnclaimOrderSlots ==
    /\ apc = "unclaim"
    /\ slotClaim' = [s \in Slots |-> IF slotClaim[s] = arr THEN None ELSE slotClaim[s]]
    /\ Step("guard")
    /\ UNCHANGED <<orders, ledger, binClaim, floor, job, scanner, cancelling,
                   landed, used>>

\* refuseArrival: the bin must still be hard-claimed by the order.  An order
\* with no bin has nothing to place.
RefuseArrival(o) == binClaim[binId[o]] # o

ArrivalGuard ==
    /\ apc = "guard"
    /\ \/ binId[arr] = None /\ Step("mark")
       \/ binId[arr] # None /\ RefuseArrival(arr) /\ Step("fail")
       \/ binId[arr] # None /\ ~RefuseArrival(arr) /\ Step("place")
    /\ UNCHANGED <<orders, ledger, claims, floor, job, scanner, cancelling,
                   landed, used>>

FailArrival ==
    /\ apc = "fail"
    /\ Terminalize(arr, "failed")
    /\ Handled
    /\ UNCHANGED <<binId, vendor, floor, job, scanner, cancelling, landed, used>>

\* ApplyArrival, PlaceBinTx: ghosts at the slot are evicted to _TRANSIT, the
\* bin is put down, this order's claim ends and the bin's row with it, and
\* whatever claim and row the slot has are released.
ApplyArrival ==
    LET b == binId[arr]
        s == Dest[arr]
        ends == binClaim[b] \in {None, arr} IN
    /\ apc = "place"
    /\ binAt' = [c \in Bins |-> IF c = b THEN s
                                ELSE IF binAt[c] = s THEN Transit ELSE binAt[c]]
    /\ binClaim' = IF ends THEN [binClaim EXCEPT ![b] = None] ELSE binClaim
    /\ binRow' = IF ends THEN [binRow EXCEPT ![b] = None] ELSE binRow
    /\ binFirm' = IF ends THEN binFirm \ {b} ELSE binFirm
    /\ slotClaim' = [slotClaim EXCEPT ![s] = None]
    /\ slotRow' = [slotRow EXCEPT ![s] = None]
    /\ slotFirm' = slotFirm \ {s}
    /\ landed' = landed \cup {arr}
    /\ Step("mark")
    /\ UNCHANGED <<orders, locked, job, scanner, cancelling, used>>

\* MarkDelivered; the completion handler it fires finds the bin at its place.
MarkDelivered ==
    /\ apc = "mark"
    /\ status' = IF CanSwap(arr, asnap, "delivered")
                 THEN [status EXCEPT ![arr] = "delivered"] ELSE status
    /\ Handled
    /\ UNCHANGED <<binId, vendor, ledger, claims, floor, job, scanner, cancelling,
                   landed, used>>

DeliveryStep ==
    \/ UnclaimOrderSlots \/ ArrivalGuard \/ FailArrival \/ ApplyArrival
    \/ MarkDelivered \/ GraceStop

\* ConfirmReceipt, from Edge or from AutoConfirmStuckDeliveredOrders.
ConfirmReceipt(o) ==
    /\ status[o] = "delivered" /\ o \in Plain
    /\ Terminalize(o, "confirmed")
    /\ UNCHANGED <<binId, vendor, floor, job, scanner, poller, cancelling, landed, used>>

-----------------------------------------------------------------------------
(* What runs beside the order.                                             *)

\* CreateCompoundChildren, one leg: a bin nobody hard-claims is taken from
\* whoever reserved it, and a holder pointing at it loses the pointer.
StealSoftHold(b) ==
    LET holder == binRow[b] IN
    IF holder # None /\ binId[holder] = b
    THEN [binId EXCEPT ![holder] = None] ELSE binId

\* Mutant: the dig takes a bin that is hard-claimed.
DigClaimsHard(l, b) ==
    /\ l \in Legs /\ status[l] = "none"
    /\ binAt[b] # Transit
    /\ Spend("dig")
    /\ status' = [status EXCEPT ![l] = "pending"]
    /\ binId' = [StealSoftHold(b) EXCEPT ![l] = b]
    /\ binRow' = [binRow EXCEPT ![b] = l] /\ binFirm' = binFirm \cup {b}
    /\ binClaim' = [binClaim EXCEPT ![b] = l]
    /\ UNCHANGED <<vendor, slotRow, slotFirm, slotClaim, floor, job, scanner,
                   poller, cancelling, landed>>

DigClaims(l, b) ==
    /\ l \in Legs /\ status[l] = "none"
    /\ binClaim[b] = None /\ binAt[b] # Transit
    /\ Spend("dig")
    /\ status' = [status EXCEPT ![l] = "pending"]
    /\ binId' = [StealSoftHold(b) EXCEPT ![l] = b]
    /\ binRow' = [binRow EXCEPT ![b] = l] /\ binFirm' = binFirm \cup {b}
    /\ binClaim' = [binClaim EXCEPT ![b] = l]
    /\ UNCHANGED <<vendor, slotRow, slotFirm, slotClaim, floor, job, scanner,
                   poller, cancelling, landed>>

\* The dig's own machinery carries the leg to its end: the bin is parked
\* somewhere else in storage, or the leg is cancelled where it stands.
LegEnds(l) ==
    /\ l \in Legs /\ LiveOrder(l)
    /\ \/ Terminalize(l, "confirmed") /\ binAt' = [binAt EXCEPT ![binId[l]] = Shelf]
       \/ Terminalize(l, "cancelled") /\ UNCHANGED binAt
    /\ UNCHANGED <<binId, vendor, locked, job, scanner, poller, cancelling, landed, used>>

Lock(b) ==
    /\ b \notin locked /\ Spend("lock")
    /\ locked' = locked \cup {b}
    /\ UNCHANGED <<orders, ledger, claims, binAt, job, scanner, poller, cancelling, landed>>

Unlock(b) ==
    /\ b \in locked
    /\ locked' = locked \ {b}
    /\ UNCHANGED <<orders, ledger, claims, binAt, job, scanner, poller, cancelling,
                   landed, used>>

DeadOwner(o) == o # None /\ Dead(o)

\* ReapOrphaned: reservation rows of terminal orders.
ReapOrphaned ==
    LET bs == {b \in Bins : DeadOwner(binRow[b])}
        ss == {s \in Slots : DeadOwner(slotRow[s])} IN
    /\ bs # {} \/ ss # {}
    /\ binRow' = [b \in Bins |-> IF b \in bs THEN None ELSE binRow[b]]
    /\ binFirm' = binFirm \ bs
    /\ slotRow' = [s \in Slots |-> IF s \in ss THEN None ELSE slotRow[s]]
    /\ slotFirm' = slotFirm \ ss
    /\ UNCHANGED <<orders, claims, floor, job, scanner, poller, cancelling, landed, used>>

\* Mutant: the sweep forgets the slots.
ReleaseOrphanedBinClaims ==
    LET bs == {b \in Bins : DeadOwner(binClaim[b])} IN
    /\ bs # {}
    /\ binClaim' = [b \in Bins |-> IF b \in bs THEN None ELSE binClaim[b]]
    /\ UNCHANGED <<orders, ledger, slotClaim, floor, job, scanner, poller,
                   cancelling, landed, used>>

\* ReleaseOrphanedClaims: hard claims of terminal orders.
ReleaseOrphanedClaims ==
    LET bs == {b \in Bins : DeadOwner(binClaim[b])}
        ss == {s \in Slots : DeadOwner(slotClaim[s])} IN
    /\ bs # {} \/ ss # {}
    /\ binClaim' = [b \in Bins |-> IF b \in bs THEN None ELSE binClaim[b]]
    /\ slotClaim' = [s \in Slots |-> IF s \in ss THEN None ELSE slotClaim[s]]
    /\ UNCHANGED <<orders, ledger, floor, job, scanner, poller, cancelling, landed, used>>

\* A restart of Core.  The database and the fleet survive; loadActiveOrders
\* tracks the orders IsVendorTracked names, from a blank memory of their jobs.
Heard(o) ==
    CASE job[o] \in {"none", "stopped", "lost"} -> job[o]
      [] job[o] \in {"live", "carrying"} -> IF Tracked(o) THEN "live" ELSE "lost"
      [] OTHER -> IF Tracked(o) THEN "again" ELSE "reported"

Restart ==
    /\ Spend("crash")
    /\ pc' = "idle" /\ cur' = None /\ snap' = "none" /\ pick' = None
    /\ apc' = "idle" /\ arr' = None /\ asnap' = "none"
    /\ cancelling' = {}
    /\ job' = [o \in Orders |-> Heard(o)]
    /\ UNCHANGED <<orders, ledger, claims, floor, landed>>

-----------------------------------------------------------------------------
FleetEvent(o) ==
    \/ MarkInTransit(o) \/ MarkFaulted(o) \/ GraceExpired(o)
    \/ FleetOrderCancelled(o) \/ PickupBlockCompleted(o) \/ Delivered(o)

Next ==
    \/ ScannerStep \/ DeliveryStep \/ ReapOrphaned \/ ReleaseOrphanedClaims \/ Restart
    \/ \E o \in Orders : \/ Admit(o) \/ Load(o) \/ FleetEvent(o) \/ ConfirmReceipt(o)
                         \/ CancelOrder(o) \/ AbandonStuckOrder(o) \/ CancelEnd(o)
    \/ \E l \in Legs : LegEnds(l) \/ \E b \in Bins : DigClaims(l, b)
    \/ \E b \in Bins : Lock(b) \/ Unlock(b)

Spec == Init /\ [][Next]_vars

\* Fairness.  The sweep of scan() reaches every acquiring order, the poller
\* every tracked job, and the fleet finishes what it takes; an operator who
\* locks a bin unlocks it, a dig ends, Edge (or the auto-confirm) sends the
\* receipt, and the periodic sweeps keep running.
FairSpec ==
    /\ Spec
    /\ WF_vars(ScannerStep) /\ WF_vars(DeliveryStep)
    /\ WF_vars(ReapOrphaned) /\ WF_vars(ReleaseOrphanedClaims)
    /\ \A o \in Orders :
         /\ WF_vars(Admit(o)) /\ SF_vars(Load(o))
         /\ SF_vars(PickupBlockCompleted(o)) /\ SF_vars(Delivered(o))
         /\ SF_vars(FleetOrderCancelled(o)) /\ WF_vars(ConfirmReceipt(o))
         /\ WF_vars(AbandonStuckOrder(o)) /\ WF_vars(CancelEnd(o))
    /\ \A l \in Legs : WF_vars(LegEnds(l))
    /\ \A b \in Bins : WF_vars(Unlock(b))

-----------------------------------------------------------------------------
(* Properties.                                                             *)

ScannerSteps == {"idle", "capacity", "find", "source", "slot", "bin", "stamp",
                 "heldSlot", "heldSource", "lanes", "confirmSlot", "confirmBin",
                 "dispatch", "create", "reread", "name", "rollback", "release"}
PollerSteps == {"idle", "unclaim", "guard", "fail", "place", "mark", "stop"}

OrdersOK ==
    /\ status \in [Orders -> Status \cup {"none"}]
    /\ binId \in [Orders -> Bins \cup {None}]
    /\ vendor \in [Orders -> BOOLEAN]
    /\ job \in [Orders -> Jobs]

LedgerOK ==
    /\ binRow \in [Bins -> Orders \cup {None}] /\ binFirm \subseteq Bins
    /\ slotRow \in [Slots -> Orders \cup {None}] /\ slotFirm \subseteq Slots
    /\ binClaim \in [Bins -> Orders \cup {None}]
    /\ slotClaim \in [Slots -> Orders \cup {None}]

FloorOK == binAt \in [Bins -> Places] /\ locked \subseteq Bins

ScannerOK ==
    /\ pc \in ScannerSteps /\ snap \in Status \cup {"none"}
    /\ IF pc = "idle" THEN cur = None ELSE cur \in Plain
    /\ pick \in Bins \cup {None}
    /\ pc \notin {"idle", "capacity", "find"} => pick \in Bins

PollerOK ==
    /\ apc \in PollerSteps /\ asnap \in Status \cup {"none"}
    /\ IF apc = "idle" THEN arr = None ELSE arr \in Plain

BookkeepingOK ==
    /\ cancelling \subseteq Orders /\ landed \subseteq Orders
    /\ used \in [Kinds -> Nat]

\* The tables hold what their columns allow, and a step that has an order or
\* a bin in hand really has one (no tick goes on from an empty find).
TypeOK == OrdersOK /\ LedgerOK /\ FloorOK /\ ScannerOK /\ PollerOK /\ BookkeepingOK

\* The fleet has work to do for the order: it was claimed for dispatch and no
\* delivery of it has been handled.
UnderWay(o) == IsVendorTracked(status[o]) /\ job[o] \in {"none", "live", "carrying", "lost"}

\* An order in the fleet's hands hard-claims its bin under its own confirmed
\* reservation: no cancel, dig, arrival, sweep or rollback of another order, and
\* no restart, ever strips what ConfirmForDispatch's bin leg took.
DispatchedHoldsBin ==
    \A o \in Plain : UnderWay(o) =>
        LET b == binId[o] IN
        b # None /\ binClaim[b] = o /\ binRow[b] = o /\ b \in binFirm

\* And it hard-claims the slot it drives to, until its own arrival.  (Once an
\* order has been cancelled during its arrival this fails: see PlacementIsOwned.)
DispatchedHoldsSlot ==
    used["cancel"] = 0 => \A o \in Plain : UnderWay(o) => slotClaim[Dest[o]] = o

\* Two orders in the fleet's hands are never after the same bin.
OneRobotPerBin ==
    \A o, p \in Plain : UnderWay(o) /\ UnderWay(p) /\ binId[o] = binId[p] => o = p

\* The capacity gate, read before the order moves to sourcing, still keeps two
\* orders from being on their way to one delivery node.
OneInFlightPerNode ==
    \A o, p \in Plain :
        /\ IsInFlight(status[o]) /\ status[o] # "pending"
        /\ IsInFlight(status[p]) /\ status[p] # "pending"
        /\ Dest[o] = Dest[p]
        => o = p

\* The arrival guard: the bin an arrival moves is, when it is moved, claimed by
\* the arriving order.
PlacementIsOwned == [][ApplyArrival => binClaim[binId[arr]] = arr]_vars

\* An order whose bin ApplyArrival put down does not end failed for not having
\* delivered it.
LandedNotFailed == \A o \in landed : status[o] # "failed"

\* The only way to fail an order whose bin was put down is the replay of its
\* finished job after a restart: a fault grace that expires, a cancel and a
\* fleet failure that race the arrival never do.
LandedFailsOnlyByReplay == used["crash"] = 0 => LandedNotFailed

\* Once terminal, always that terminal status: a tick that lost the race does
\* not bring the order back, and the second terminal write changes nothing.
TerminalIsForever == [][\A o \in Orders : Dead(o) => status'[o] = status[o]]_vars

Holds(o) ==
    \/ \E b \in Bins : o \in {binRow[b], binClaim[b]}
    \/ \E s \in Slots : o \in {slotRow[s], slotClaim[s]}

\* What a tick takes for an order that was cancelled under it is given back.
TerminalReleases == \A o \in Orders : (Dead(o) /\ Holds(o)) ~> ~Holds(o)

\* A bin whose carrier was cancelled under way: an operator must say where it is.
Stranded(b) == binAt[b] = Transit /\ binClaim[b] = None

\* An order the scanner is acquiring for is dispatched or ends, however the other
\* orders, locks and lanes delay it, unless the bins it waits for are stranded.
AcquiringProgresses ==
    \A o \in Plain : IsAcquiring(status[o])
                     ~> (~IsAcquiring(status[o]) \/ \E b \in Bins : Stranded(b))

\* Rule 1 of docs/reservations.md: between ticks an order that is still
\* acquiring holds no hard claim.
SoftWhileAcquiring ==
    \A o \in Plain : cur # o /\ status[o] \in {"pending", "queued", "sourcing"} =>
        /\ \A b \in Bins : binClaim[b] # o
        /\ \A s \in Slots : slotClaim[s] # o

\* CancelOrder's comment: no robot is left moving for an order that is already
\* cancelled, once no call is still at work on the order.
NoOrphanMission ==
    \A o \in Plain : status[o] = "cancelled" /\ cur # o /\ arr # o /\ o \notin cancelling
                     => ~Moving(o)
=============================================================================
