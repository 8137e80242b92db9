------------------------------ MODULE LaneGate ------------------------------
(***************************************************************************)
(* A storage lane with a waiting mark in front of it.  Bins stand behind   *)
(* one another in the lane, so a robot reaches a slot only when the        *)
(* shallower ones are empty, and two robots must not be inside at once.    *)
(*                                                                         *)
(* A robot is sent to the mark with an unfinished plan.  The rest of the   *)
(* plan, the tail, is appended when the lane admits it: by the scanner     *)
(* right after the dispatch (dispatchGated, "the valve"), by an evaluator  *)
(* pass over the waiting orders (evaluateLaneReleasesPass), or by a hand   *)
(* (HardReleaseStagedOrder).  The scanner and the passes run on different  *)
(* goroutines under one mutex per lane; the hand, the fleet's events and   *)
(* cancels take no mutex.                                                  *)
(*                                                                         *)
(* The fleet finishes a placement in two reports: the block, on which the  *)
(* mouth and the corridor are freed, and later the whole order, on which   *)
(* the bin's row moves to the slot.  "bins" is what the rows say, "floor"  *)
(* is what stands there.                                                   *)
(***************************************************************************)
EXTENDS Integers, Sequences, FiniteSets, FiniteSetsExt

CONSTANTS
    Stores,     \* orders that put a bin into the lane
    Picks,      \* orders that take one out
    Rank,       \* orders' ids, for the evaluator's order among equals
    Origin,     \* laneEntryOriginFor: what a store shares with its partners
    Depth,      \* the lane's slots are 1..Depth, 1 at the mouth
    Bin0,       \* where a pick's bin stands at the start
    Passes,     \* goroutines that may run an evaluator pass
    Scan,       \* the fulfilment scanner
    Hand,       \* an operator's hard release
    None,
    MaxHits     \* bound: disturbances of all kinds together

Orders == Stores \cup Picks
Slots == 1 .. Depth
Threads == Passes \cup {Scan, Hand}

ASSUME LaneGateAssumption ==
    /\ Stores \cap Picks = {} /\ None \notin Orders \cup Threads \cup Slots
    /\ Depth \in Nat \ {0} /\ Bin0 \in [Picks -> Slots]
    /\ Scan \notin Passes /\ Hand \notin Passes /\ Scan # Hand
    /\ Rank \in [Orders -> Nat] /\ MaxHits \in Nat
    /\ \A o, p \in Orders : Rank[o] = Rank[p] => o = p
    /\ IsFiniteSet(Orders) /\ Orders # {}

VARIABLES
    row,        \* orders.status: queued, live (at the fleet), faulted, over
    slot,       \* delivery_node of a store, source_node of a pick
    hold,       \* the slots an order has claimed
    mouth,      \* its mouth row: none, inbound or dig
    occ,        \* the orders with an occupancy row on the lane
    waitIndex,  \* orders.wait_index: 0 while the tail is owed
    bins,       \* the slots a bin's row names
    floor,      \* the slots a bin stands in
    tail,       \* the slot of the tail the fleet holds, None before
    job,        \* the fleet still works on the order
    robot,      \* none, mark, inside, leaving (work done), out (block heard)
    lock,       \* laneGates' mutex of the lane: a thread or None
    pc, todo, aim, took,  \* a thread: next step, orders to go, slot it read, rows it inserted
    twice,      \* orders whose tail was sent although the fleet had it (history)
    unsaved,    \* orders whose wait_index could not be written (history)
    byHand,     \* orders let in by hand (history)
    late,       \* <<o, p>>: store o chose its slot when p had been let in (history)
    walled,     \* stores a pass moved to a shallower slot (history)
    used        \* cancels, refused appends, failed writes, faults and hard releases so far

orderRow == <<row, slot, hold, mouth, occ, waitIndex>>
fleet == <<tail, job, robot>>
thread == <<lock, pc, todo, aim, took>>
seen == <<twice, unsaved, byHand, late, walled>>
vars == <<orderRow, bins, floor, fleet, thread, seen, used>>

Init ==
    /\ row = [o \in Orders |-> "queued"]
    /\ slot = [o \in Orders |-> None]
    /\ hold = [o \in Orders |-> {}]
    /\ mouth = [o \in Orders |-> "none"]
    /\ occ = {}
    /\ waitIndex = [o \in Orders |-> 0]
    /\ bins = {Bin0[o] : o \in Picks} /\ floor = bins
    /\ tail = [o \in Orders |-> None]
    /\ job = {}
    /\ robot = [o \in Orders |-> "none"]
    /\ lock = None
    /\ pc = [t \in Threads |-> "idle"]
    /\ todo = [t \in Threads |-> <<>>]
    /\ aim = [t \in Threads |-> None]
    /\ took = [t \in Threads |-> FALSE]
    /\ twice = {}
    /\ unsaved = {}
    /\ byHand = {}
    /\ late = {}
    /\ walled = {}
    /\ used = 0

Spend == used < MaxHits /\ used' = used + 1

----------------------------------------------------------------------------
(***************************************************************************)
(* What the code asks of the rows.                                         *)
(***************************************************************************)
Alive(o) == row[o] # "over"

\* IsGateStaged: the row alone, so it is also true of an order that ended.
IsGateStaged(o) == row[o] # "queued" /\ waitIndex[o] = 0

\* ReachableSQL: no bin's row in a shallower slot.
Reachable(s) == \A b \in bins : b >= s

\* Bins spoken for by live picks other than o.
ClaimedBins(o) == {slot[q] : q \in {p \in Picks \ {o} : Alive(p) /\ slot[p] # None}}
                      \cap bins

\* FindStoreSlotInLaneExcluding: the slots o may take, its own included.
StoreSlots(o) ==
    {s \in Slots :
        /\ s \notin bins
        /\ \A p \in Orders \ {o} : s \notin hold[p]
        /\ \A p \in Stores \ {o} : Alive(p) => slot[p] # s
        /\ Reachable(s)
        /\ \A b \in ClaimedBins(o) : b < s}

\* stillWorkingLaneMouth: the stores that still block an entrant.
Working(o) ==
    {p \in Stores \ {o} :
        Alive(p) /\ slot[p] # None /\ (row[p] = "queued" \/ mouth[p] = "inbound")}

SameOrigin(o, p) == Origin[o] # None /\ Origin[o] = Origin[p]

\* buildLaneEntryView's grouped: a partner of p is working here too.
Grouped(o, p) == \E q \in Working(o) \ {p} : SameOrigin(p, q)

\* Mutant of ClassifyLaneEntry: the second tier is dropped.
ClassifyLaneEntryShallow(o) ==
    \A p \in Working(o) : SameOrigin(o, p) \/ ~Grouped(o, p)


ClassifyLaneEntry(o) ==
    \A p \in Working(o) :
        SameOrigin(o, p) \/ ~(slot[p] > slot[o] \/ Grouped(o, p))

\* Mutant of AdmitLane: who is inside is not asked.
AdmitLaneBlind(o) == \A p \in Orders \ {o} : mouth[p] # "dig"

\* admitLane at the moment of entry: no other dig hold, nobody else inside.
AdmitLane(o) ==
    /\ \A p \in Orders \ {o} : mouth[p] # "dig"
    /\ occ \subseteq {o}

\* gateEntryVerdict: a store asks the tiers, a pick whether its bin is buried.
GateEntryVerdict(o) ==
    /\ AdmitLane(o)
    /\ o \in Stores /\ Depth > 1 => ClassifyLaneEntry(o)
    /\ o \in Picks => Reachable(slot[o])

----------------------------------------------------------------------------
(***************************************************************************)
(* The scanner: choose a slot, hold the mouth, create the job, and try the *)
(* gate at once.  Entry into a marked lane is not judged before the create *)
(* (entryDeferredToGate), so a dispatch only needs the mouth.              *)
(***************************************************************************)
\* p has its tail, or the verdict that it may have it.
LetIn(p) ==
    tail[p] # None \/ \E t \in Threads : pc[t] \in {"rebind", "append", "send"} /\ Head(todo[t]) = p

\* o chooses a slot now: which stores have been let in already.
Chose(o) == {q \in late : q[1] # o} \cup {<<o, p>> : p \in {q \in Stores \ {o} : LetIn(q)}}

Plan(o) ==
    /\ row[o] = "queued" /\ slot[o] = None
    /\ \/ /\ o \in Stores /\ StoreSlots(o) # {}
          /\ slot' = [slot EXCEPT ![o] = Max(StoreSlots(o))]
          /\ hold' = [hold EXCEPT ![o] = {Max(StoreSlots(o))}]
          /\ late' = Chose(o)
       \/ /\ o \in Picks /\ Reachable(Bin0[o])
          /\ slot' = [slot EXCEPT ![o] = Bin0[o]]
          /\ UNCHANGED <<hold, late>>
    /\ UNCHANGED <<row, mouth, occ, waitIndex, bins, floor, fleet, thread, twice, unsaved,
                   byHand, walled, used>>

Mode(o) == IF o \in Stores THEN "inbound" ELSE "dig"

\* admitMouth: a dig hold shares the mouth with nobody, other modes with their own.
AdmitMouth(o) ==
    \A p \in Orders \ {o} :
        mouth[p] = "none" \/ (mouth[p] = Mode(o) /\ Mode(o) # "dig")

\* AcquireLanesForOrder, then dispatchGated as far as the lane's mutex.
DispatchGated(o) ==
    /\ row[o] = "queued" /\ slot[o] # None /\ pc[Scan] = "idle"
    /\ AdmitMouth(o)
    /\ mouth' = [mouth EXCEPT ![o] = Mode(o)]
    /\ row' = [row EXCEPT ![o] = "live"]
    /\ job' = job \cup {o}
    /\ robot' = [robot EXCEPT ![o] = "mark"]
    /\ pc' = [pc EXCEPT ![Scan] = "wait"]
    /\ todo' = [todo EXCEPT ![Scan] = <<o>>]
    /\ UNCHANGED <<slot, hold, occ, waitIndex, bins, floor, tail, lock, aim, took,
                   seen, used>>

----------------------------------------------------------------------------
(***************************************************************************)
(* The gate.  A thread holds the mutex from "judge" until Unlock.          *)
(***************************************************************************)
Step(t, l) == pc' = [pc EXCEPT ![t] = l]
Cur(t) == Head(todo[t])

\* An event or the floor sweep starts a pass (EvaluateLaneReleases).
Evaluate(t) ==
    /\ t \in Passes /\ pc[t] = "idle"
    /\ \E o \in Orders : Alive(o) /\ IsGateStaged(o)
    /\ Step(t, "wait")
    /\ UNCHANGED <<orderRow, bins, floor, fleet, lock, todo, aim, took, seen, used>>

\* gateStagedForLane, then the sort: deepest first, then by id.
Staged == {o \in Orders : row[o] = "live" /\ IsGateStaged(o)}
Precedes(o, p) == slot[o] > slot[p] \/ (slot[o] = slot[p] /\ Rank[o] < Rank[p])
Sorted ==
    {q \in [1 .. Cardinality(Staged) -> Staged] :
        \A i, j \in DOMAIN q : i < j => Precedes(q[i], q[j])}
\* The orders a thread goes through: the valve has its own.
Candidates(t) == IF t = Scan THEN {todo[t]} ELSE Sorted

Lock(t) ==
    /\ pc[t] = "wait" /\ lock = None
    /\ lock' = t
    /\ \E q \in Candidates(t) : todo' = [todo EXCEPT ![t] = q]
    /\ Step(t, "judge")
    /\ UNCHANGED <<orderRow, bins, floor, fleet, aim, took, seen, used>>

Unlock(t) ==
    /\ pc[t] = "judge" /\ todo[t] = <<>>
    /\ lock' = None
    /\ Step(t, "idle")
    /\ UNCHANGED <<orderRow, bins, floor, fleet, todo, aim, took, seen, used>>

\* The thread is done with the order in hand.
Done(t) ==
    /\ todo' = [todo EXCEPT ![t] = Tail(@)]
    /\ aim' = [aim EXCEPT ![t] = None]
    /\ took' = [took EXCEPT ![t] = FALSE]
    /\ Step(t, IF t = Hand THEN "idle" ELSE "judge")

\* The valve appends to the slot the plan names; a pass binds it anew first.
Judge(t) ==
    /\ pc[t] = "judge" /\ todo[t] # <<>>
    /\ IF GateEntryVerdict(Cur(t))
       THEN /\ Step(t, IF t = Scan THEN "append" ELSE "rebind")
            /\ aim' = [aim EXCEPT ![t] = slot[Cur(t)]]
            /\ UNCHANGED <<todo, took>>
       ELSE Done(t)
    /\ UNCHANGED <<orderRow, bins, floor, fleet, lock, seen, used>>

\* rebindGatedDropoff: the deepest slot as the rows stand, claimed before the
\* old one is let go; none means no release.
RebindDropoff(t) ==
    LET o == Cur(t) IN
    IF IsGateStaged(o) /\ StoreSlots(o) # {}
    THEN LET best == Max(StoreSlots(o)) IN
         /\ slot' = [slot EXCEPT ![o] = best]
         /\ hold' = [hold EXCEPT ![o] = IF best = slot[o] THEN @ ELSE (@ \ {slot[o]}) \cup {best}]
         /\ aim' = [aim EXCEPT ![t] = best]
         /\ late' = IF best = slot[o] THEN late ELSE Chose(o)
         /\ walled' = IF best < slot[o] THEN walled \cup {o} ELSE walled
         /\ Step(t, "append")
         /\ UNCHANGED <<todo, took>>
    ELSE Done(t) /\ UNCHANGED <<slot, hold, late, walled>>

\* rebindGatedPickup: the bin must still be there.
RebindPickup(t) ==
    /\ IF IsGateStaged(Cur(t)) /\ slot[Cur(t)] \in bins
       THEN Step(t, "append") /\ UNCHANGED <<todo, aim, took>>
       ELSE Done(t)
    /\ UNCHANGED <<slot, hold, late, walled>>

\* releaseGatedOrder and releaseGatedRetrieve, after their own re-read.
Rebind(t) ==
    /\ pc[t] = "rebind"
    /\ IF Cur(t) \in Stores THEN RebindDropoff(t) ELSE RebindPickup(t)
    /\ UNCHANGED <<row, mouth, occ, waitIndex, bins, floor, fleet, lock, twice, unsaved, byHand,
                   used>>

\* Mutant of AppendGateTail: the order is not read again.
AppendGateTailStale(t) ==
    /\ pc[t] = "append"
    /\ occ' = occ \cup {Cur(t)}
    /\ took' = [took EXCEPT ![t] = Cur(t) \notin occ]
    /\ Step(t, "send")
    /\ UNCHANGED <<row, slot, hold, mouth, waitIndex, bins, floor, fleet, lock, todo, aim,
                   seen, used>>

\* appendGateTail: the order is read again, then the occupancy row is taken.
AppendGateTail(t) ==
    /\ pc[t] = "append"
    /\ IF IsGateStaged(Cur(t))
       THEN /\ occ' = occ \cup {Cur(t)}
            /\ took' = [took EXCEPT ![t] = Cur(t) \notin occ]
            /\ Step(t, "send") /\ UNCHANGED <<todo, aim>>
       ELSE Done(t) /\ UNCHANGED occ
    /\ UNCHANGED <<row, slot, hold, mouth, waitIndex, bins, floor, fleet, lock, seen, used>>

\* The fleet takes a tail once, and only for a job it still works on.
Takes(o) == o \in job /\ tail[o] = None

\* appendSegmentAndAdvance as far as the fleet's answer.
Send(t) ==
    LET o == Cur(t) IN
    /\ pc[t] = "send" /\ Takes(o)
    /\ tail' = [tail EXCEPT ![o] = aim[t]]
    /\ Step(t, "advance")
    /\ UNCHANGED <<orderRow, bins, floor, job, robot, lock, todo, aim, took, seen, used>>

\* Mutants of SendRefused: the row stays; the wait counts as passed.
SendRefusedKeepsRow(t) ==
    LET o == Cur(t) IN
    /\ pc[t] = "send"
    /\ IF Takes(o) THEN Spend ELSE UNCHANGED used
    /\ twice' = IF tail[o] # None THEN twice \cup {o} ELSE twice
    /\ Done(t)
    /\ UNCHANGED <<orderRow, bins, floor, fleet, lock, unsaved, byHand, late, walled>>
SendRefusedAdvances(t) ==
    LET o == Cur(t) IN
    /\ pc[t] = "send"
    /\ IF Takes(o) THEN Spend ELSE UNCHANGED used
    /\ twice' = IF tail[o] # None THEN twice \cup {o} ELSE twice
    /\ occ' = IF took[t] THEN occ \ {o} ELSE occ
    /\ waitIndex' = [waitIndex EXCEPT ![o] = 1]
    /\ Done(t)
    /\ UNCHANGED <<row, slot, hold, mouth, bins, floor, fleet, lock, unsaved, byHand, late,
                   walled>>

\* The append failed: the row goes back, if this call inserted it.
SendRefused(t) ==
    LET o == Cur(t) IN
    /\ pc[t] = "send"
    /\ IF Takes(o) THEN Spend ELSE UNCHANGED used
    /\ twice' = IF tail[o] # None THEN twice \cup {o} ELSE twice
    /\ occ' = IF took[t] THEN occ \ {o} ELSE occ
    /\ Done(t)
    /\ UNCHANGED <<row, slot, hold, mouth, waitIndex, bins, floor, fleet, lock, unsaved, byHand,
                   late, walled>>

\* UpdateOrderWaitIndex; the status was staged or in_transit and is in_transit.
\* A write that fails (AppendLandedError) leaves the order staged by its row, so
\* the next pass takes it up again; the occupancy row stays, the robot has the tail.
Advance(t) ==
    /\ pc[t] = "advance"
    /\ \/ /\ waitIndex' = [waitIndex EXCEPT ![Cur(t)] = 1]
          /\ UNCHANGED <<unsaved, used>>
       \/ /\ Spend
          /\ unsaved' = unsaved \cup {Cur(t)}
          /\ UNCHANGED waitIndex
    /\ Done(t)
    /\ UNCHANGED <<row, slot, hold, mouth, occ, bins, floor, fleet, lock, twice, byHand, late,
                   walled>>

\* HardReleaseStagedOrder: no mutex, no verdict, no occupancy row.
HardReleaseStagedOrder(o) ==
    /\ pc[Hand] = "idle" /\ row[o] = "live" /\ waitIndex[o] = 0
    /\ Spend
    /\ byHand' = byHand \cup {o}
    /\ todo' = [todo EXCEPT ![Hand] = <<o>>]
    /\ aim' = [aim EXCEPT ![Hand] = slot[o]]
    /\ took' = [took EXCEPT ![Hand] = FALSE]
    /\ Step(Hand, "send")
    /\ UNCHANGED <<orderRow, bins, floor, fleet, lock, twice, unsaved, late, walled>>

----------------------------------------------------------------------------
(***************************************************************************)
(* The robots, what the poller reports of them, and how orders end.        *)
(***************************************************************************)
Enter(o) ==
    /\ robot[o] = "mark" /\ tail[o] # None /\ o \in job
    /\ robot' = [robot EXCEPT ![o] = "inside"]
    /\ UNCHANGED <<orderRow, bins, floor, tail, job, thread, seen, used>>

Work(o) ==
    /\ robot[o] = "inside" /\ o \in job
    /\ floor' = IF o \in Stores THEN floor \cup {tail[o]} ELSE floor \ {tail[o]}
    /\ robot' = [robot EXCEPT ![o] = "leaving"]
    /\ UNCHANGED <<orderRow, bins, tail, job, thread, seen, used>>

\* handleStoreBlockCompleted and, for a pick, handlePickupBlockCompleted with
\* HandleTransitForLaneGate.  They do not ask whether the order has ended.  A
\* placed bin's row does not move yet.
BlockCompleted(o) ==
    /\ robot[o] = "leaving"
    /\ robot' = [robot EXCEPT ![o] = "out"]
    /\ mouth' = [mouth EXCEPT ![o] = "none"]
    /\ occ' = occ \ {o}
    /\ bins' = IF o \in Picks THEN bins \ {slot[o]} ELSE bins
    /\ UNCHANGED <<row, slot, hold, waitIndex, floor, tail, job, thread, seen, used>>

\* The order's rows when it ends: Terminalize deletes its claims and holds.
Ended(o) ==
    /\ row' = [row EXCEPT ![o] = "over"]
    /\ hold' = [hold EXCEPT ![o] = {}]
    /\ mouth' = [mouth EXCEPT ![o] = "none"]
    /\ occ' = occ \ {o}

\* The whole job is finished: the bin's row goes to the slot the row names.
Delivered(o) ==
    /\ robot[o] = "out" /\ o \in job /\ Alive(o)
    /\ Ended(o)
    /\ job' = job \ {o}
    /\ bins' = IF o \in Stores THEN bins \cup {slot[o]} ELSE bins
    /\ UNCHANGED <<slot, waitIndex, floor, tail, robot, thread, seen, used>>

\* CancelOrder: the fleet is asked to stop the robot.  When it refuses, that is
\* logged, the order ends all the same, and the robot drives on.
CancelOrder(o) ==
    /\ Alive(o)
    /\ Spend
    /\ Ended(o)
    /\ job' \in {job \ {o}, job}
    /\ UNCHANGED <<slot, waitIndex, bins, floor, tail, robot, thread, seen>>

\* The reconciler's sweep of what ended orders still hold.
ReleaseTerminalClaims ==
    LET dead == {o \in Orders : ~Alive(o)} IN
    /\ \E o \in dead : hold[o] # {}
    /\ hold' = [o \in Orders |-> IF o \in dead THEN {} ELSE hold[o]]
    /\ UNCHANGED <<row, slot, mouth, occ, waitIndex, bins, floor, fleet, thread, seen, used>>

\* The reconciler's other sweep: the lane rows of ended orders.
ReapOrphaned ==
    /\ \E o \in occ : ~Alive(o)
    /\ occ' = {o \in occ : Alive(o)}
    /\ UNCHANGED <<row, slot, hold, mouth, waitIndex, bins, floor, fleet, thread, seen, used>>

Fault(o) ==
    /\ row[o] = "live"
    /\ Spend
    /\ row' = [row EXCEPT ![o] = "faulted"]
    /\ UNCHANGED <<slot, hold, mouth, occ, waitIndex, bins, floor, fleet, thread, seen>>

Recover(o) ==
    /\ row[o] = "faulted"
    /\ row' = [row EXCEPT ![o] = "live"]
    /\ UNCHANGED <<slot, hold, mouth, occ, waitIndex, bins, floor, fleet, thread, seen, used>>

GateStep(t) ==
    \/ Lock(t) \/ Unlock(t) \/ Judge(t) \/ Rebind(t) \/ AppendGateTail(t)
    \/ Send(t) \/ SendRefused(t) \/ Advance(t)

RobotStep(o) == Enter(o) \/ Work(o) \/ BlockCompleted(o) \/ Delivered(o) \/ Recover(o)

Next ==
    \/ \E o \in Orders :
        \/ Plan(o) \/ DispatchGated(o) \/ HardReleaseStagedOrder(o)
        \/ Enter(o) \/ Work(o) \/ BlockCompleted(o) \/ Delivered(o)
        \/ CancelOrder(o) \/ Fault(o) \/ Recover(o)
    \/ \E t \in Threads :
        \/ Evaluate(t) \/ Lock(t) \/ Unlock(t) \/ Judge(t) \/ Rebind(t)
        \/ AppendGateTail(t) \/ Send(t) \/ SendRefused(t) \/ Advance(t)
    \/ ReleaseTerminalClaims \/ ReapOrphaned

Spec == Init /\ [][Next]_vars

(***************************************************************************)
(* A goroutine that has begun goes on; a Go mutex is handed to one that    *)
(* has waited long; the floor sweep comes round (SweepLaneWaiters), and so *)
(* does the scanner, for an order whose lane would take it; robots with    *)
(* work do it and the poller reports it.  An order is dispatched, and goes *)
(* through the lane, once: one condition for all of them leaves none out.  *)
(***************************************************************************)
FairSpec ==
    /\ Spec
    /\ \A t \in Passes \cup {Scan} : SF_vars(GateStep(t))
    /\ \A t \in Passes : WF_vars(Evaluate(t))
    /\ WF_vars(\E o \in Orders : RobotStep(o)) /\ SF_vars(\E o \in Orders : DispatchGated(o))

----------------------------------------------------------------------------
TypeOK ==
    /\ row \in [Orders -> {"queued", "live", "faulted", "over"}]
    /\ slot \in [Orders -> Slots \cup {None}]
    /\ hold \in [Orders -> SUBSET Slots]
    /\ mouth \in [Orders -> {"none", "inbound", "dig"}]
    /\ occ \subseteq Orders /\ job \subseteq Orders
    /\ waitIndex \in [Orders -> 0 .. 1]
    /\ bins \subseteq Slots /\ floor \subseteq Slots
    /\ tail \in [Orders -> Slots \cup {None}]
    /\ robot \in [Orders -> {"none", "mark", "inside", "leaving", "out"}]
    /\ lock \in Threads \cup {None}
    /\ pc \in [Threads -> {"idle", "wait", "judge", "rebind", "append", "send", "advance"}]
    /\ todo \in [Threads -> Seq(Orders)]
    /\ aim \in [Threads -> Slots \cup {None}] /\ took \in [Threads -> BOOLEAN]
    /\ byHand \subseteq Orders /\ twice \subseteq Orders /\ unsaved \subseteq Orders
    /\ walled \subseteq Stores
    /\ late \subseteq Stores \X Stores

\* Robots the fleet has at work in the lane; one it has stopped is at work no more.
Inside == {o \in Orders : robot[o] \in {"inside", "leaving"} /\ o \in job}

\* Orders that ended while the fleet refused to stop their robot.
Adrift == {o \in job : ~Alive(o)}

\* Two robots are never in the corridor together, however passes, the valve, failed
\* appends and writes, faults and cancels interleave.  Two kinds are left out: a
\* robot a hand let in, which is not judged, and one that drives on although its
\* order was cancelled, because the cancel gives the order's rows back.
OneInside == \A o, p \in Inside \ (byHand \cup Adrift) : o = p

\* A tail the fleet holds is never sent to it again, unless a hand released the
\* order too or the write of wait_index had failed: the mutex and the re-read of
\* wait_index guard the append.
SentOnce == twice \subseteq byHand \cup unsaved

\* A dead order does not keep the lane shut: once no pass works on it, an order
\* that has ended has no mouth row, and an occupancy row only while the robot the
\* fleet would not stop is on its way through the lane with the tail; although a
\* pass that listed it before a cancel goes on to take one for it.
DeadLeavesLane ==
    \A o \in Orders :
        ~Alive(o) /\ (\A t \in Threads : todo[t] = <<>> \/ Cur(t) # o)
            => /\ mouth[o] = "none"
               /\ o \in occ => o \in Adrift /\ tail[o] # None /\ robot[o] # "out"

\* No rival overtakes: once a store has chosen its slot, a store of another
\* origin that is let in later never goes in front of it while it has yet to
\* place (classifyLaneEntry's second tier).  Left out is a store whose own slot a
\* partner has walled off: the verdict judged that slot, and rebindGatedDropoff
\* then takes a shallower one unjudged (NothingEntombed).
NeverOvertaken ==
    \A o \in Stores, p \in Stores \ (byHand \cup walled) :
        /\ o # p /\ ~SameOrigin(o, p)
        /\ Alive(o) /\ slot[o] # None /\ robot[o] \in {"none", "mark"}
        /\ tail[p] # None /\ Alive(p) /\ <<o, p>> \notin late
        => tail[p] > slot[o]

\* The same with the walled-off stores (store/nodes/lanes.go: the tiers hold a
\* shallower store back, "so the ordinary burst never entombs anything").
NothingEntombed ==
    \A o \in Stores, p \in Stores \ byHand :
        /\ o # p /\ ~SameOrigin(o, p)
        /\ Alive(o) /\ slot[o] # None /\ robot[o] \in {"none", "mark"}
        /\ tail[p] # None /\ Alive(p) /\ <<o, p>> \notin late
        => tail[p] > slot[o]

\* A robot let in finds its way open: a store's slot and those in front of it
\* empty, a pick's bin not buried.
PathClear ==
    \A o \in Inside \ byHand : robot[o] = "inside" =>
        \A b \in floor : IF o \in Stores THEN b > tail[o] ELSE b >= tail[o]

\* A robot at the mark for o, which is live.
Waiting(o) == robot[o] = "mark" /\ o \in job /\ Alive(o)

\* The evaluator leaves no robot standing: a store at the mark is let in, or its
\* order ends, or the rows come to offer it no slot.
WaitsForASlotOnly == \A o \in Stores : Waiting(o) ~> (~Waiting(o) \/ StoreSlots(o) = {})

\* No cycle of waits closes (store/nodes/lanes.go, the burial guard's comment): a
\* store at the mark is let in or its order ends.
NoCycleCloses == \A o \in Stores : Waiting(o) ~> ~Waiting(o)
=============================================================================
