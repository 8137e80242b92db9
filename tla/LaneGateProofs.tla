--------------------------- MODULE LaneGateProofs ---------------------------
(***************************************************************************)
(* The lane's safety, for any orders, passes, depth and number of          *)
(* disturbances: one robot inside, a tail sent once, an ended order leaves *)
(* nothing behind, and no rival is overtaken.                              *)
(*                                                                         *)
(* First comes what holds of a lane with a mark before anything is said of *)
(* who may be inside (Base): the types, the lane's mutex, what a thread's  *)
(* list may name, and how an order's row, robot and mouth agree.           *)
(*                                                                         *)
(* The first three rest on the mutex: only its holder has an order in      *)
(* hand, so what its verdict found of the occupancy rows still holds when  *)
(* it appends (Sent, Aimed, Corridor).  The last one needs what the        *)
(* verdict found of the slots to survive the rebind (Apart, Behind).       *)
(***************************************************************************)
EXTENDS LaneGate, FiniteSetTheorems, SequenceTheorems, WellFoundedInduction, TLAPS

\* The threads that take the lane's mutex.
Gates == Passes \cup {Scan}
\* Thread t has been told yes for the order in hand and is not done with it.
At(t) == pc[t] \in {"rebind", "append", "send", "advance"}

\* laneGates' mutex is held from the verdict to the end of the pass; a hand
\* takes none, and only works on orders it has been asked to release.
Mutex ==
    /\ \A t \in Gates : pc[t] = "judge" \/ At(t) => lock = t
    /\ pc[Hand] \in {"idle", "send", "advance"}
    /\ \A t \in Threads : At(t) => todo[t] # <<>>
    /\ At(Hand) => Cur(Hand) \in byHand /\ took[Hand] = FALSE

\* Dispatched, with a slot.
Known(o) == row[o] # "queued" /\ slot[o] # None

\* Every order a thread has listed was dispatched.
ListedInv == \A t \in Threads : \A i \in 1 .. Len(todo[t]) : Known(todo[t][i])

\* The row, the robot, the tail and the mouth of one order.
RowOf(o) ==
    /\ row[o] \in {"live", "faulted"} => slot[o] # None
    /\ robot[o] # "none" => Known(o)
    /\ tail[o] # None => Known(o)
    /\ robot[o] \in {"inside", "leaving", "out"} => tail[o] # None
    /\ ~Alive(o) => mouth[o] = "none"
    /\ o \in Stores /\ Alive(o) /\ row[o] # "queued" /\ robot[o] \in {"none", "mark"}
         => mouth[o] = "inbound"

Rows == \A o \in Orders : RowOf(o)

\* The order of the naturals, as a relation.
Less == {x \in Nat \X Nat : x[1] < x[2]}

\* It is well-founded.
LEMMA LessWF == IsWellFoundedOn(Less, Nat)
<1>1. Less = OpToRel(<, Nat)
  BY Zenon DEF Less, OpToRel
<1> QED
  BY <1>1, NatLessThanWellFounded, Zenon

\* A set of naturals has a least element.
LEMMA Least == ASSUME NEW T \in SUBSET Nat, T # {} PROVE \E x \in T : \A y \in T : x <= y
<1>1. PICK x \in T : \A y \in T : ~(<<y, x>> \in Less)
  BY LessWF, WFMin, Zenon
<1>2. ASSUME NEW y \in T PROVE x <= y
  <2>1. x \in Nat /\ y \in Nat
    BY <1>1, Zenon
  <2>2. ~(<<y, x>> \in Less)
    BY <1>1, Zenon
  <2>3. y < x => <<y, x>> \in Less
    BY <2>1, Zenon DEF Less
  <2> QED
    BY <2>1, <2>2, <2>3
<1> QED
  BY <1>2, Zenon

\* A set of slots has a deepest one: Max's choice is not empty.
LEMMA MaxIn == ASSUME NEW n \in Nat, NEW S \in SUBSET (1 .. n), S # {}
               PROVE  Max(S) \in S /\ \A y \in S : Max(S) >= y
<1> DEFINE T == {n - s : s \in S}
<1>0. \A s \in S : s \in Int /\ s >= 1 /\ s <= n /\ n - s \in Nat
  OBVIOUS
<1>1. T \in SUBSET Nat 
  BY <1>0, Zenon
<1>2. T # {}
  OBVIOUS
<1>3. PICK x \in T : \A y \in T : x <= y
  BY <1>1, <1>2, Least, Zenon
<1>4. PICK s \in S : x = n - s
  BY <1>3, Zenon
<1>5. ASSUME NEW y \in S PROVE s >= y
  <2>1. n - y \in T
    OBVIOUS
  <2>2. x <= n - y
    BY <2>1, <1>3, Zenon
  <2> QED
    BY <2>2, <1>4, <1>0
<1> QED
  BY <1>5, Zenon DEF Max

\* FindStoreSlotInLaneExcluding, when it finds one, returns a free slot of the lane.
LEMMA Deepest == ASSUME NEW o \in Orders, StoreSlots(o) # {}
                 PROVE  /\ Max(StoreSlots(o)) \in StoreSlots(o)
                        /\ Max(StoreSlots(o)) \in Slots
<1>1. StoreSlots(o) \in SUBSET (1 .. Depth)
  BY Zenon DEF StoreSlots, Slots
<1>2. Depth \in Nat
  BY LaneGateAssumption, Zenon
<1>3. Max(StoreSlots(o)) \in StoreSlots(o)
  BY <1>1, <1>2, MaxIn, Zenon
<1> QED
  BY <1>1, <1>3, Zenon DEF Slots

\* A pass's list is a sequence of staged orders.
LEMMA SortedSeq == ASSUME NEW q \in Sorted
                   PROVE  q \in Seq(Orders) /\ \A i \in 1 .. Len(q) : q[i] \in Staged
<1>1. IsFiniteSet(Staged)
  BY LaneGateAssumption, FS_Subset, Zenon DEF Staged
<1>2. Cardinality(Staged) \in Nat
  BY <1>1, FS_CardinalityType, Zenon
<1>3. q \in [1 .. Cardinality(Staged) -> Staged]
  BY Zenon DEF Sorted
<1>4. Staged \subseteq Orders
  BY Zenon DEF Staged
<1> QED
  BY <1>2, <1>3, <1>4

\* A step of the system, its order and its thread named.
IsStep(o, t) ==
    \/ Plan(o) \/ DispatchGated(o) \/ HardReleaseStagedOrder(o)
    \/ Enter(o) \/ Work(o) \/ BlockCompleted(o) \/ Delivered(o)
    \/ CancelOrder(o) \/ Fault(o) \/ Recover(o)
    \/ Evaluate(t) \/ Lock(t) \/ Unlock(t) \/ Judge(t) \/ Rebind(t)
    \/ AppendGateTail(t) \/ Send(t) \/ SendRefused(t) \/ Advance(t)
    \/ ReleaseTerminalClaims \/ ReapOrphaned

\* The foundation.
Base == TypeOK /\ Mutex /\ ListedInv /\ Rows

\* The order in hand was dispatched and has a slot.
LEMMA CurKnown == ASSUME Base, NEW t \in Threads, todo[t] # <<>>
                  PROVE  Cur(t) \in Orders /\ Known(Cur(t)) /\ slot[Cur(t)] \in Slots
<1>1. todo[t] \in Seq(Orders)
  BY Zenon DEF Base, TypeOK
<1>2. Cur(t) = todo[t][1] /\ 1 \in 1 .. Len(todo[t]) /\ Cur(t) \in Orders
  BY <1>1, HeadTailProperties DEF Cur
<1>3. Known(Cur(t))
  BY <1>2, Zenon DEF Base, ListedInv
<1> QED
  BY <1>2, <1>3, Zenon DEF Base, TypeOK, Known

USE DEF orderRow, fleet, thread, seen, vars

\* The history of choices names stores.
LEMMA ChoseType == ASSUME TypeOK, NEW o \in Stores
                   PROVE  Chose(o) \subseteq Stores \X Stores
  BY DEF TypeOK, Chose

\* What Done leaves of a thread's list.
LEMMA DoneEffect ==
    ASSUME TypeOK, NEW t \in Threads, todo[t] # <<>>, Done(t)
    PROVE  /\ todo' \in [Threads -> Seq(Orders)]
           /\ aim' \in [Threads -> Slots \cup {None}]
           /\ took' \in [Threads -> BOOLEAN]
           /\ pc' \in [Threads -> {"idle", "wait", "judge", "rebind", "append", "send", "advance"}]
           /\ pc'[t] \in {"idle", "judge"} /\ (t # Hand => pc'[t] = "judge")
           /\ (t = Hand => pc'[t] = "idle")
           /\ \A u \in Threads : u # t => /\ todo'[u] = todo[u] /\ pc'[u] = pc[u]
                                          /\ aim'[u] = aim[u] /\ took'[u] = took[u]
           /\ \A i \in 1 .. Len(todo'[t]) :
                 i + 1 \in 1 .. Len(todo[t]) /\ todo'[t][i] = todo[t][i + 1]
<1>1. todo[t] \in Seq(Orders) /\ todo \in [Threads -> Seq(Orders)]
  BY Zenon DEF TypeOK
<1>2. /\ Tail(todo[t]) \in Seq(Orders)
      /\ \A i \in 1 .. Len(Tail(todo[t])) :
            i + 1 \in 1 .. Len(todo[t]) /\ Tail(todo[t])[i] = todo[t][i + 1]
  BY <1>1, HeadTailProperties
<1>3. todo' = [todo EXCEPT ![t] = Tail(todo[t])]
  BY Zenon DEF Done
<1>4. todo'[t] = Tail(todo[t]) /\ todo' \in [Threads -> Seq(Orders)]
      /\ \A u \in Threads : u # t => todo'[u] = todo[u]
  BY <1>1, <1>2, <1>3, Zenon
<1>5. /\ aim' \in [Threads -> Slots \cup {None}]
      /\ took' \in [Threads -> BOOLEAN]
      /\ pc' \in [Threads -> {"idle", "wait", "judge", "rebind", "append", "send", "advance"}]
      /\ pc'[t] = IF t = Hand THEN "idle" ELSE "judge"
      /\ \A u \in Threads : u # t => /\ pc'[u] = pc[u]
                                     /\ aim'[u] = aim[u] /\ took'[u] = took[u]
  BY Zenon DEF Done, Step, TypeOK
<1>6. \A i \in 1 .. Len(todo'[t]) :
        i + 1 \in 1 .. Len(todo[t]) /\ todo'[t][i] = todo[t][i + 1]
  BY <1>2, <1>4, Zenon
<1> QED
  BY <1>4, <1>5, <1>6, Zenon

\* Every step keeps the types.
LEMMA TypeStep == ASSUME Base, NEW o \in Orders, NEW t \in Threads, IsStep(o, t)
                  PROVE  TypeOK'
<1> USE DEF TypeOK, Base
<1>1. CASE Plan(o)
  <2>1. CASE o \in Stores /\ StoreSlots(o) # {}
    <3>1. Max(StoreSlots(o)) \in Slots
      BY <2>1, Deepest, Zenon
    <3>2. o \notin Picks
      BY <2>1, LaneGateAssumption, Zenon
    <3>a. slot' = [slot EXCEPT ![o] = Max(StoreSlots(o))]
          /\ hold' = [hold EXCEPT ![o] = {Max(StoreSlots(o))}]
      BY <1>1, <3>2, Zenon DEF Plan
    <3> HIDE DEF TypeOK
    <3>b. slot \in [Orders -> Slots \cup {None}] /\ hold \in [Orders -> SUBSET Slots]
      BY Zenon DEF TypeOK
    <3>c. {Max(StoreSlots(o))} \in SUBSET Slots
      BY <3>1, Zenon
    <3>3. slot' \in [Orders -> Slots \cup {None}] /\ hold' \in [Orders -> SUBSET Slots]
      BY <3>1, <3>a, <3>b, <3>c, Zenon
    <3> USE DEF TypeOK
    <3>4. late' \subseteq Stores \X Stores
      BY <1>1, <2>1, <3>2, ChoseType, Zenon DEF Plan
    <3> QED
      BY <1>1, <3>3, <3>4, Zenon DEF Plan
  <2>2. CASE o \in Picks
    <3>1. o \notin Stores /\ Bin0[o] \in Slots
      BY <2>2, LaneGateAssumption, Zenon
    <3>3. slot' \in [Orders -> Slots \cup {None}] /\ hold' \in [Orders -> SUBSET Slots]
      BY <1>1, <3>1, Zenon DEF Plan
    <3>4. late' \subseteq Stores \X Stores
      BY <1>1, <3>1, Zenon DEF Plan
    <3> QED
      BY <1>1, <3>3, <3>4, Zenon DEF Plan
  <2> QED
    BY <1>1, <2>1, <2>2, Zenon DEF Plan
<1>2. CASE DispatchGated(o)
  BY <1>2 DEF DispatchGated, Mode, Threads
<1>3. CASE HardReleaseStagedOrder(o)
  BY <1>3 DEF HardReleaseStagedOrder, Step, Threads
<1>4. CASE Enter(o)
  BY <1>4, Zenon DEF Enter
<1>5. CASE Work(o)
  BY <1>5, Zenon DEF Work, Rows, RowOf
<1>6. CASE BlockCompleted(o)
  BY <1>6, Zenon DEF BlockCompleted
<1>7. CASE Delivered(o)
  BY <1>7, Zenon DEF Delivered, Ended, Rows, RowOf, Known
<1>8. CASE CancelOrder(o)
  BY <1>8, Zenon DEF CancelOrder, Ended
<1>9. CASE Fault(o)
  BY <1>9, Zenon DEF Fault
<1>10. CASE Recover(o)
  BY <1>10, Zenon DEF Recover
<1>11. CASE Evaluate(t)
  BY <1>11, Zenon DEF Evaluate, Step
<1>12. CASE Lock(t)
  BY <1>12, SortedSeq, ZenonT(40) DEF Lock, Step, Candidates
<1>13. CASE Unlock(t)
  BY <1>13, Zenon DEF Unlock, Step
<1>14. CASE Judge(t)
  <2>1. CASE GateEntryVerdict(Cur(t))
    BY <1>14, <2>1, CurKnown, ZenonT(30) DEF Judge, Step
  <2>2. CASE ~GateEntryVerdict(Cur(t))
    BY <1>14, <2>2, DoneEffect, Zenon DEF Judge
  <2> QED
    BY <2>1, <2>2, Zenon
<1>a. ASSUME At(t)
      PROVE  todo[t] # <<>> /\ Cur(t) \in Orders /\ slot[Cur(t)] \in Slots
  BY <1>a, CurKnown, Zenon DEF Mutex
<1>15. CASE Rebind(t)
  <2>0. At(t)
    BY <1>15, Zenon DEF Rebind, At
  <2>1. CASE Cur(t) \in Stores /\ IsGateStaged(Cur(t)) /\ StoreSlots(Cur(t)) # {}
    <3>1. Max(StoreSlots(Cur(t))) \in Slots
      BY <2>0, <1>a, <2>1, Deepest, Zenon
    <3>2. Chose(Cur(t)) \subseteq Stores \X Stores
      BY <2>1, ChoseType, Zenon
    <3> DEFINE best == Max(StoreSlots(Cur(t)))
               kept == hold[Cur(t)]
               held == IF best = slot[Cur(t)] THEN kept ELSE (kept \ {slot[Cur(t)]}) \cup {best}
    <3>a. /\ slot' = [slot EXCEPT ![Cur(t)] = best]
          /\ hold' = [hold EXCEPT ![Cur(t)] = held]
          /\ aim' = [aim EXCEPT ![t] = best]
      BY <1>15, <2>1, Zenon DEF Rebind, RebindDropoff
    <3> HIDE DEF TypeOK, best
    <3>b. /\ slot \in [Orders -> Slots \cup {None}] /\ hold \in [Orders -> SUBSET Slots]
          /\ aim \in [Threads -> Slots \cup {None}] /\ kept \in SUBSET Slots
      BY <2>0, <1>a, Zenon DEF TypeOK
    <3>c. best \in Slots /\ held \in SUBSET Slots
      BY <3>1, <3>b, Zenon DEF best
    <3> HIDE DEF held
    <3>3. /\ slot' \in [Orders -> Slots \cup {None}] /\ hold' \in [Orders -> SUBSET Slots]
          /\ aim' \in [Threads -> Slots \cup {None}]
      BY <3>a, <3>b, <3>c, Zenon
    <3> USE DEF TypeOK
    <3>4. late' \subseteq Stores \X Stores /\ walled' \subseteq Stores
      BY <1>15, <2>1, <3>2 DEF Rebind, RebindDropoff
    <3> QED
      BY <1>15, <2>1, <3>3, <3>4, Zenon DEF Rebind, RebindDropoff, Step
  <2>2. CASE Cur(t) \in Stores /\ ~(IsGateStaged(Cur(t)) /\ StoreSlots(Cur(t)) # {})
    BY <1>15, <2>0, <1>a, <2>2, DoneEffect, Zenon DEF Rebind, RebindDropoff
  <2>3. CASE Cur(t) \notin Stores /\ IsGateStaged(Cur(t)) /\ slot[Cur(t)] \in bins
    BY <1>15, <2>3, Zenon DEF Rebind, RebindPickup, Step
  <2>4. CASE Cur(t) \notin Stores /\ ~(IsGateStaged(Cur(t)) /\ slot[Cur(t)] \in bins)
    BY <1>15, <2>0, <1>a, <2>4, DoneEffect, ZenonT(30) DEF Rebind, RebindPickup
  <2> QED
    BY <2>1, <2>2, <2>3, <2>4, Zenon
<1>16. CASE AppendGateTail(t)
  <2>0. At(t)
    BY <1>16, Zenon DEF AppendGateTail, At
  <2>1. CASE IsGateStaged(Cur(t))
    <3>1. took' \in [Threads -> BOOLEAN]
      BY <1>16, <2>1, Zenon DEF AppendGateTail
    <3>2. pc' = [pc EXCEPT ![t] = "send"] /\ occ' = occ \cup {Cur(t)} /\ Cur(t) \in Orders
      BY <1>16, <2>0, <1>a, <2>1, Zenon DEF AppendGateTail, Step
    <3>3. UNCHANGED <<row, slot, hold, mouth, waitIndex, bins, floor, fleet, lock, seen, used,
                      todo, aim>>
      BY <1>16, <2>1, Zenon DEF AppendGateTail
    <3> QED
      BY <3>1, <3>2, <3>3, Zenon
  <2>2. CASE ~IsGateStaged(Cur(t))
    BY <1>16, <2>0, <1>a, <2>2, DoneEffect, Zenon DEF AppendGateTail
  <2> QED
    BY <2>1, <2>2, Zenon
<1>17. CASE Send(t)
  BY <1>17, <1>a, Zenon DEF Send, Step, At
<1>18. CASE SendRefused(t)
  <2>0. At(t)
    BY <1>18, Zenon DEF SendRefused, At
  <2> QED
    BY <1>18, <2>0, <1>a, DoneEffect, Zenon DEF SendRefused
<1>19. CASE Advance(t)
  <2>0. At(t)
    BY <1>19, Zenon DEF Advance, At
  <2> QED
    <3>1. CASE UNCHANGED waitIndex /\ unsaved' = unsaved \cup {Cur(t)}
      BY <1>19, <2>0, <3>1, <1>a, DoneEffect, CurKnown, Zenon DEF Advance
    <3>2. CASE unsaved' = unsaved
      <4>1. waitIndex' \in [Orders -> 0 .. 1]
        BY <1>19 DEF Advance, TypeOK
      <4>2. TypeOK /\ aim' \in [Threads -> Slots \cup {None}] /\ took' \in [Threads -> BOOLEAN]
            /\ pc' \in [Threads -> {"idle", "wait", "judge", "rebind", "append", "send", "advance"}]
            /\ todo' \in [Threads -> Seq(Orders)]
        BY <1>19, <2>0, <1>a, DoneEffect, Zenon DEF Advance
      <4> QED
        BY <1>19, <3>2, <4>1, <4>2, <1>a, Zenon DEF Advance, TypeOK
    <3> QED
      BY <1>19, <3>1, <3>2, Zenon DEF Advance
<1>20. CASE ReleaseTerminalClaims
  BY <1>20, Zenon DEF ReleaseTerminalClaims
<1>21. CASE ReapOrphaned
  BY <1>21, Zenon DEF ReapOrphaned
<1> QED
  BY <1>1, <1>2, <1>3, <1>4, <1>5, <1>6, <1>7, <1>8, <1>9, <1>10, <1>11, <1>12, <1>13,
     <1>14, <1>15, <1>16, <1>17, <1>18, <1>19, <1>20, <1>21, Zenon DEF IsStep

\* The steps that touch no thread, and what the others do to the threads.
Quiet == UNCHANGED <<thread, tail, waitIndex, twice, unsaved, byHand>>

\* Planning, the robots, the poller's reports, cancels and sweeps move no thread.
LEMMA QuietSteps ==
    ASSUME NEW o \in Orders,
           \/ Plan(o) \/ Enter(o) \/ Work(o) \/ BlockCompleted(o) \/ Delivered(o)
           \/ CancelOrder(o) \/ Fault(o) \/ Recover(o) \/ ReleaseTerminalClaims \/ ReapOrphaned
    PROVE  Quiet
  BY Zenon DEF Quiet, Plan, Enter, Work, BlockCompleted, Delivered, CancelOrder, Fault, Recover,
         ReleaseTerminalClaims, ReapOrphaned

\* A gate thread that goes on with the order in hand.
Goes(t, l) == pc' = [pc EXCEPT ![t] = l] /\ UNCHANGED <<lock, todo, byHand>>

\* A step of the gate with its order in hand: it goes on, or is done with the order.
LEMMA GateSteps ==
    ASSUME NEW t \in Threads,
           Judge(t) \/ Rebind(t) \/ AppendGateTail(t) \/ Send(t) \/ SendRefused(t) \/ Advance(t)
    PROVE  /\ UNCHANGED <<lock, byHand, mouth, bins, floor, row, job, robot>>
           /\ (pc[t] = "judge" /\ todo[t] # <<>>) \/ At(t)
           /\ Done(t) \/ (\E l \in {"rebind", "append", "send", "advance"} : Goes(t, l))
<1>1. CASE Judge(t)
  BY <1>1, Zenon DEF Judge, Step, Goes
<1>2. CASE Rebind(t)
  BY <1>2, Zenon DEF Rebind, RebindDropoff, RebindPickup, Step, Goes, At
<1>3. CASE AppendGateTail(t)
  BY <1>3, Zenon DEF AppendGateTail, Step, Goes, At
<1>4. CASE Send(t)
  BY <1>4, Zenon DEF Send, Step, Goes, At
<1>5. CASE SendRefused(t)
  BY <1>5, Zenon DEF SendRefused, At
<1>6. CASE Advance(t)
  BY <1>6, Zenon DEF Advance, At
<1> QED
  BY <1>1, <1>2, <1>3, <1>4, <1>5, <1>6, Zenon

\* The threads are the gate's and the hand.
LEMMA ThreadsOf == Threads = Gates \cup {Hand} /\ Hand \notin Gates /\ Scan \in Gates
  BY LaneGateAssumption, Zenon DEF Threads, Gates

\* Every step keeps the mutex's discipline.
LEMMA MutexStep == ASSUME Base, NEW o \in Orders, NEW t \in Threads, IsStep(o, t)
                   PROVE  Mutex'
<1>0. TypeOK /\ Mutex /\ pc \in [Threads -> {"idle", "wait", "judge", "rebind", "append", "send", "advance"}]
      /\ todo \in [Threads -> Seq(Orders)] /\ took \in [Threads -> BOOLEAN]
  BY Zenon DEF Base, TypeOK
<1>1. CASE Quiet
  BY <1>0, <1>1, ThreadsOf, Zenon DEF Quiet, Mutex, At, Cur
<1>2. CASE DispatchGated(o)
  BY <1>0, <1>2, ThreadsOf, Zenon DEF DispatchGated, Mutex, At, Cur
<1>3. CASE HardReleaseStagedOrder(o)
  BY <1>0, <1>3, ThreadsOf DEF HardReleaseStagedOrder, Mutex, At, Cur, Step
<1>4. CASE Evaluate(t)
  BY <1>0, <1>4, ThreadsOf, Zenon DEF Evaluate, Mutex, At, Cur, Step, Gates
<1>5. CASE Lock(t)
  BY <1>0, <1>5, ThreadsOf, LaneGateAssumption, Zenon DEF Lock, Mutex, At, Cur, Step
<1>6. CASE Unlock(t)
  BY <1>0, <1>6, ThreadsOf, LaneGateAssumption, Zenon DEF Unlock, Mutex, At, Cur, Step
<1>7. CASE Judge(t) \/ Rebind(t) \/ AppendGateTail(t) \/ Send(t) \/ SendRefused(t) \/ Advance(t)
  <2>1. /\ UNCHANGED <<lock, byHand>>
        /\ (pc[t] = "judge" /\ todo[t] # <<>>) \/ At(t)
        /\ todo[t] # <<>>
    BY <1>0, <1>7, GateSteps, Zenon DEF Mutex
  <2>2. CASE Done(t)
    <3>1. /\ pc'[t] \in {"idle", "judge"} /\ (t # Hand => pc'[t] = "judge")
          /\ (t = Hand => pc'[t] = "idle")
          /\ \A u \in Threads : u # t => /\ todo'[u] = todo[u] /\ pc'[u] = pc[u]
                                         /\ took'[u] = took[u]
      BY <1>0, <2>1, <2>2, DoneEffect, Zenon
    <3> QED
      BY <1>0, <2>1, <3>1, ThreadsOf, Zenon DEF Mutex, At, Cur
  <2>3. ASSUME NEW l \in {"rebind", "append", "send", "advance"}, Goes(t, l)
        PROVE  Mutex'
    <3>1. CASE t # Hand
      <4>1. took'[Hand] = took[Hand]
        BY <1>0, <1>7, <3>1, ThreadsOf, Zenon
           DEF Judge, Rebind, RebindDropoff, RebindPickup, AppendGateTail, Send, SendRefused,
               Advance, Done
      <4>2. \A u \in Threads : u # t => pc'[u] = pc[u]
        BY <1>0, <2>3, Zenon DEF Goes
      <4>3. pc'[t] = l /\ lock' = lock /\ todo' = todo /\ byHand' = byHand
        BY <1>0, <2>3, Zenon DEF Goes
      <4>4. lock = t
        BY <1>0, <2>1, <3>1, ThreadsOf, Zenon DEF Mutex
      <4> QED
        BY <1>0, <2>1, <3>1, <4>1, <4>2, <4>3, <4>4, ThreadsOf, Zenon DEF Mutex, At, Cur
    <3>2. CASE t = Hand
      <4>1. pc[Hand] \in {"send", "advance"}
        BY <1>0, <2>1, <3>2, Zenon DEF Mutex, At
      <4>2. ~Done(t)
        BY <1>0, <2>3, <3>2, Zenon DEF Goes, Done, Step
      <4>3. Send(t)
        BY <1>7, <3>2, <4>1, <4>2, Zenon DEF Judge, Rebind, AppendGateTail, SendRefused, Advance
      <4> QED
        BY <1>0, <2>1, <3>2, <4>1, <4>3, ThreadsOf, Zenon DEF Mutex, At, Cur, Send, Step
    <3> QED
      BY <3>1, <3>2, Zenon
  <2> QED
    BY <1>7, <2>2, <2>3, GateSteps, Zenon
<1> QED
  BY <1>1, <1>2, <1>3, <1>4, <1>5, <1>6, <1>7, QuietSteps, Zenon DEF IsStep

\* Every step keeps the lists to dispatched orders.
LEMMA ListedStep == ASSUME Base, NEW o \in Orders, NEW t \in Threads, IsStep(o, t)
                    PROVE  ListedInv'
<1> DEFINE Kept(p) == row'[p] # "queued" /\ slot'[p] # None
<1>0. TypeOK /\ Mutex /\ ListedInv
  BY Zenon DEF Base
<1>a. ASSUME NEW p \in Orders, Known(p) PROVE Kept(p)
  <2>1. CASE Rebind(t)
    <3>1. CASE Cur(t) \in Stores /\ IsGateStaged(Cur(t)) /\ StoreSlots(Cur(t)) # {}
      <4>1. Max(StoreSlots(Cur(t))) \in Slots
        BY <2>1, <3>1, Deepest, Zenon DEF Orders
      <4>2. None \notin Slots
        BY LaneGateAssumption, Zenon
      <4> QED
        BY <1>a, <2>1, <3>1, <4>1, <4>2, Zenon DEF Rebind, RebindDropoff, Known, TypeOK, Base
    <3>2. CASE ~(Cur(t) \in Stores /\ IsGateStaged(Cur(t)) /\ StoreSlots(Cur(t)) # {})
      BY <1>a, <2>1, <3>2, Zenon DEF Rebind, RebindDropoff, RebindPickup, Known
    <3> QED
      BY <3>1, <3>2, Zenon
  <2>2. CASE Plan(o)
    BY <1>a, <2>2, Zenon DEF Plan, Known, TypeOK, Base
  <2>3. CASE DispatchGated(o) \/ Delivered(o) \/ CancelOrder(o) \/ Fault(o) \/ Recover(o)
    BY <1>0, <1>a, <2>3, Zenon
       DEF DispatchGated, Delivered, CancelOrder, Fault, Recover, Ended, Known, TypeOK
  <2>4. CASE \/ HardReleaseStagedOrder(o) \/ Enter(o) \/ Work(o) \/ BlockCompleted(o)
             \/ Evaluate(t) \/ Lock(t) \/ Unlock(t) \/ ReleaseTerminalClaims \/ ReapOrphaned
    BY <1>a, <2>4, Zenon
       DEF Known, HardReleaseStagedOrder, Enter, Work, BlockCompleted, Evaluate, Lock, Unlock,
           ReleaseTerminalClaims, ReapOrphaned
  <2>5. CASE Judge(t) \/ AppendGateTail(t) \/ Send(t) \/ SendRefused(t) \/ Advance(t)
    BY <1>a, <2>5, Zenon DEF Known, Judge, AppendGateTail, Send, SendRefused, Advance
  <2> QED
    BY <2>1, <2>2, <2>3, <2>4, <2>5, Zenon DEF IsStep
<1>b. ASSUME NEW u \in Threads, todo'[u] = todo[u]
      PROVE  \A i \in 1 .. Len(todo'[u]) : Kept(todo'[u][i])
  <2>1. ASSUME NEW i \in 1 .. Len(todo[u]) PROVE Known(todo[u][i]) /\ todo[u][i] \in Orders
    BY <1>0 DEF ListedInv, TypeOK
  <2> QED
    BY <1>a, <1>b, <2>1, Zenon
<1>c. CASE todo' = todo
  BY <1>b, <1>c, Zenon DEF ListedInv, Known
<1>1. CASE DispatchGated(o)
  <2>1. todo' = [todo EXCEPT ![Scan] = <<o>>] /\ Scan \in Threads
    BY <1>1, Zenon DEF DispatchGated, Threads
  <2>2. Kept(o)
    BY <1>0, <1>1, Zenon DEF DispatchGated, Known, TypeOK
  <2>3. \A i \in 1 .. Len(todo'[Scan]) : todo'[Scan][i] = o
    BY <1>0, <2>1 DEF TypeOK
  <2>4. \A u \in Threads : u # Scan => todo'[u] = todo[u]
    BY <1>0, <2>1, Zenon DEF TypeOK
  <2> QED
    BY <1>b, <2>2, <2>3, <2>4, Zenon DEF ListedInv, Known
<1>2. CASE HardReleaseStagedOrder(o)
  <2>1. todo' = [todo EXCEPT ![Hand] = <<o>>] /\ Hand \in Threads
    BY <1>2, Zenon DEF HardReleaseStagedOrder, Threads
  <2>2. Known(o)
    BY <1>2, Zenon DEF HardReleaseStagedOrder, Known, Base, Rows, RowOf
  <2>3. \A i \in 1 .. Len(todo'[Hand]) : todo'[Hand][i] = o
    BY <1>0, <2>1 DEF TypeOK
  <2>4. \A u \in Threads : u # Hand => todo'[u] = todo[u]
    BY <1>0, <2>1, Zenon DEF TypeOK
  <2> QED
    BY <1>a, <1>b, <2>2, <2>3, <2>4, Zenon DEF ListedInv, Known
<1>3. CASE Lock(t)
  <2>1. PICK q \in Candidates(t) : todo' = [todo EXCEPT ![t] = q]
    BY <1>3, Zenon DEF Lock
  <2>2. todo'[t] = q /\ \A u \in Threads : u # t => todo'[u] = todo[u]
    BY <1>0, <2>1, Zenon DEF TypeOK
  <2>3. CASE t = Scan
    <3>1. todo'[t] = todo[t]
      BY <2>1, <2>2, <2>3, Zenon DEF Candidates
    <3> QED
      BY <1>b, <2>2, <3>1, Zenon DEF ListedInv, Known
  <2>4. CASE t # Scan
    <3>1. \A i \in 1 .. Len(q) : q[i] \in Staged
      BY <2>4, <2>1, SortedSeq, Zenon DEF Candidates
    <3>2. \A p \in Staged : p \in Orders /\ Known(p)
      BY Zenon DEF Staged, Known, Base, Rows, RowOf
    <3>3. \A i \in 1 .. Len(q) : Kept(q[i])
      BY <1>a, <3>1, <3>2, Zenon
    <3>4. \A i \in 1 .. Len(todo'[t]) : Kept(todo'[t][i])
      BY <3>3, <2>2, Zenon
    <3> QED
      BY <1>b, <2>2, <3>4, Zenon DEF ListedInv, Known
  <2> QED
    BY <2>3, <2>4, Zenon
<1>4. CASE Done(t) /\ todo[t] # <<>>
  <2>1. /\ \A u \in Threads : u # t => todo'[u] = todo[u]
        /\ \A i \in 1 .. Len(todo'[t]) :
              i + 1 \in 1 .. Len(todo[t]) /\ todo'[t][i] = todo[t][i + 1]
    BY <1>0, <1>4, DoneEffect, Zenon
  <2>2. ASSUME NEW j \in 1 .. Len(todo[t]) PROVE Kept(todo[t][j])
    <3>1. Known(todo[t][j]) /\ todo[t][j] \in Orders
      BY <1>0 DEF ListedInv, TypeOK
    <3> QED
      BY <1>a, <3>1, Zenon
  <2>3. ASSUME NEW i \in 1 .. Len(todo'[t]) PROVE Kept(todo'[t][i])
    BY <2>1, <2>2, Zenon
  <2> QED
    BY <1>b, <2>1, <2>3, Zenon DEF ListedInv, Known
<1>5. CASE Judge(t) \/ Rebind(t) \/ AppendGateTail(t) \/ Send(t) \/ SendRefused(t) \/ Advance(t)
  <2>1. todo[t] # <<>>
    BY <1>0, <1>5, GateSteps, Zenon DEF Mutex
  <2> QED
    BY <1>5, <1>c, <1>4, <2>1, GateSteps, Zenon DEF Goes
<1>6. CASE Quiet \/ Evaluate(t) \/ Unlock(t)
  BY <1>6, <1>c, Zenon DEF Quiet, Evaluate, Unlock
<1> QED
  BY <1>1, <1>2, <1>3, <1>5, <1>6, QuietSteps, Zenon DEF IsStep

\* Every step keeps row, robot, tail and mouth in agreement.
LEMMA RowsStep == ASSUME Base, NEW o \in Orders, NEW t \in Threads, IsStep(o, t)
                  PROVE  Rows'
<1> SUFFICES ASSUME NEW p \in Orders PROVE RowOf(p)'
  BY Zenon DEF Rows
<1>0. TypeOK /\ RowOf(p) /\ RowOf(o) /\ None \notin Slots
  BY LaneGateAssumption, Zenon DEF Base, Rows
<1> USE DEF RowOf, Known, Alive, TypeOK
<1>1. CASE Plan(o)
  <2>1. slot'[p] # None \/ slot'[p] = slot[p]
    <3>1. CASE o \in Stores /\ StoreSlots(o) # {}
      BY <1>0, <1>1, <3>1, Deepest, LaneGateAssumption, Zenon DEF Plan
    <3>2. CASE o \in Picks
      BY <1>0, <1>1, <3>2, LaneGateAssumption, Zenon DEF Plan
    <3> QED
      BY <1>1, <3>1, <3>2, Zenon DEF Plan
  <2> QED
    BY <1>0, <1>1, <2>1, Zenon DEF Plan
<1>2. CASE DispatchGated(o)
  BY <1>0, <1>2, Zenon DEF DispatchGated, Mode
<1>3. CASE \/ HardReleaseStagedOrder(o) \/ ReleaseTerminalClaims \/ ReapOrphaned
           \/ Evaluate(t) \/ Lock(t) \/ Unlock(t)
  BY <1>0, <1>3, Zenon
     DEF HardReleaseStagedOrder, ReleaseTerminalClaims, ReapOrphaned, Evaluate, Lock, Unlock
<1>4. CASE Enter(o)
  BY <1>0, <1>4, Zenon DEF Enter
<1>5. CASE Work(o)
  BY <1>0, <1>5, Zenon DEF Work
<1>6. CASE BlockCompleted(o)
  BY <1>0, <1>6, Zenon DEF BlockCompleted
<1>7. CASE Delivered(o)
  BY <1>0, <1>7, Zenon DEF Delivered, Ended
<1>8. CASE CancelOrder(o)
  BY <1>0, <1>8, Zenon DEF CancelOrder, Ended
<1>9. CASE Fault(o)
  BY <1>0, <1>9, Zenon DEF Fault
<1>10. CASE Recover(o)
  BY <1>0, <1>10, Zenon DEF Recover
<1>11. CASE Judge(t) \/ AppendGateTail(t) \/ SendRefused(t) \/ Advance(t)
  BY <1>0, <1>11, Zenon DEF Judge, AppendGateTail, SendRefused, Advance
<1>12. CASE Rebind(t)
  <2>1. slot'[p] # None \/ slot'[p] = slot[p]
    <3>1. CASE Cur(t) \in Stores /\ StoreSlots(Cur(t)) # {}
      <4>1. Max(StoreSlots(Cur(t))) \in Slots
        BY <3>1, Deepest, Zenon DEF Orders
      <4> QED
        BY <1>0, <1>12, <3>1, <4>1, Zenon DEF Rebind, RebindDropoff
    <3>2. CASE ~(Cur(t) \in Stores /\ StoreSlots(Cur(t)) # {})
      BY <1>0, <1>12, <3>2, Zenon DEF Rebind, RebindDropoff, RebindPickup
    <3> QED
      BY <3>1, <3>2, Zenon
  <2>2. UNCHANGED <<row, mouth, fleet>>
    BY <1>12, Zenon DEF Rebind
  <2>3. Alive(p)' = Alive(p) /\ (Known(p) => Known(p)')
    BY <2>1, <2>2, Zenon
  <2> HIDE DEF TypeOK, Alive, Known
  <2> QED
    BY <1>0, <2>1, <2>2, <2>3, Zenon
<1>13. CASE Send(t)
  <2>1. Known(Cur(t)) /\ Cur(t) \in Orders
    BY <1>13, CurKnown, Zenon DEF Send, Base, Mutex, At
  <2>2. UNCHANGED <<row, slot, mouth, job, robot>> /\ tail[Cur(t)] = None
    BY <1>13, Zenon DEF Send, Takes
  <2>3. p # Cur(t) => tail'[p] = tail[p]
    BY <1>0, <1>13, Zenon DEF Send
  <2> HIDE DEF TypeOK
  <2> QED
    BY <1>0, <2>1, <2>2, <2>3, Zenon
<1> QED
  BY <1>1, <1>2, <1>3, <1>4, <1>5, <1>6, <1>7, <1>8, <1>9, <1>10, <1>11, <1>12, <1>13,
     Zenon DEF IsStep

\* Next is a step with a name for its order and its thread.
LEMMA NextIsStep == ASSUME Next PROVE \E o \in Orders, t \in Threads : IsStep(o, t)
<1>1. PICK p \in Orders : TRUE
  BY LaneGateAssumption, Zenon
<1>2. Scan \in Threads
  BY Zenon DEF Threads
<1> QED
  BY <1>1, <1>2, Zenon DEF Next, IsStep

\* The foundation holds at the start ...
LEMMA BaseInit == Init => Base
<1> SUFFICES ASSUME Init PROVE Base
  OBVIOUS
<1>1. TypeOK
  <2>1. bins \subseteq Slots /\ floor \subseteq Slots
    BY LaneGateAssumption DEF Init
  <2>2. \A n \in Nat : 0 \in 0 .. 1
    OBVIOUS
  <2> QED
    BY <2>1 DEF Init, TypeOK
<1>2. Mutex
  BY Zenon DEF Init, Mutex, At, Threads, Gates
<1>3. ListedInv
  BY DEF Init, ListedInv
<1>4. Rows
  BY Zenon DEF Init, Rows, RowOf, Known, Alive
<1> QED
  BY <1>1, <1>2, <1>3, <1>4, Zenon DEF Base

\* ... when nothing moves ...
LEMMA BaseSame == Base /\ UNCHANGED vars => Base'
<1> SUFFICES ASSUME Base, UNCHANGED vars PROVE Base'
  OBVIOUS
<1>1. TypeOK'
  BY Zenon DEF Base, TypeOK
<1>2. Mutex'
  BY Zenon DEF Base, Mutex, At, Cur
<1>3. ListedInv'
  BY Zenon DEF Base, ListedInv, Known
<1>4. Rows'
  BY Zenon DEF Base, Rows, RowOf, Known, Alive
<1> QED
  BY <1>1, <1>2, <1>3, <1>4, Zenon DEF Base

\* ... and through every step.
LEMMA BaseNext == Base /\ [Next]_vars => Base'
<1>1. Base /\ Next => Base'
  BY NextIsStep, TypeStep, MutexStep, ListedStep, RowsStep, Zenon DEF Base
<1> QED
  BY <1>1, BaseSame, Zenon

\* Type correctness of the lane: rows, slots, tails and threads stay what the code
\* declares them to be, for any number of orders and passes.
THEOREM TypeCorrect == Spec => []TypeOK
<1>1. Base => TypeOK
  BY Zenon DEF Base
<1> QED
  BY BaseInit, BaseNext, <1>1, PTL DEF Spec

\* What a step leaves of the gate's threads: those with an order in hand stay.
Calm == \A u \in Gates : At(u) \/ At(u)' =>
           pc'[u] = pc[u] /\ todo'[u] = todo[u] /\ aim'[u] = aim[u] /\ took'[u] = took[u]

\* Outside the gate's own steps, no thread with an order in hand moves.
LEMMA CalmSteps ==
    ASSUME Base, NEW o \in Orders, NEW t \in Threads,
           \/ Quiet \/ DispatchGated(o) \/ HardReleaseStagedOrder(o)
           \/ Evaluate(t) \/ Lock(t) \/ Unlock(t)
    PROVE  Calm
<1>0. /\ pc \in [Threads -> {"idle", "wait", "judge", "rebind", "append", "send", "advance"}]
      /\ todo \in [Threads -> Seq(Orders)] /\ aim \in [Threads -> Slots \cup {None}]
      /\ took \in [Threads -> BOOLEAN]
  BY Zenon DEF Base, TypeOK
<1>1. CASE Quiet
  BY <1>1, Zenon DEF Quiet, Calm, At
<1>2. CASE DispatchGated(o)
  BY <1>0, <1>2, ThreadsOf, Zenon DEF DispatchGated, Calm, At
<1>3. CASE HardReleaseStagedOrder(o)
  BY <1>0, <1>3, ThreadsOf, Zenon DEF HardReleaseStagedOrder, Calm, At, Step
<1>4. CASE Evaluate(t)
  BY <1>0, <1>4, ThreadsOf, Zenon DEF Evaluate, Calm, At, Step
<1>5. CASE Lock(t)
  BY <1>0, <1>5, ThreadsOf, Zenon DEF Lock, Calm, At, Step
<1>6. CASE Unlock(t)
  BY <1>0, <1>6, ThreadsOf, Zenon DEF Unlock, Calm, At, Step
<1> QED
  BY <1>1, <1>2, <1>3, <1>4, <1>5, <1>6, Zenon

\* A step of the gate with an order in hand.
GateMove(t) ==
    Judge(t) \/ Rebind(t) \/ AppendGateTail(t) \/ Send(t) \/ SendRefused(t) \/ Advance(t)

\* A step of the gate's thread t: the others do not move, and no other thread
\* of the gate has an order in hand; a hand's step leaves them all alone.
LEMMA GateFrame ==
    ASSUME Base, NEW t \in Threads, GateMove(t)
    PROVE  /\ todo[t] # <<>> /\ Cur(t) \in Orders
           /\ \A u \in Threads \ {t} : /\ pc'[u] = pc[u] /\ todo'[u] = todo[u]
                                       /\ aim'[u] = aim[u] /\ took'[u] = took[u]
           /\ t \in Gates => \A u \in Gates \ {t} : ~At(u) /\ ~At(u)'
           /\ t \notin Gates => t = Hand /\ Calm /\ Cur(t) \in byHand
           /\ Done(t) => ~At(t)'
<1>0. TypeOK /\ Mutex
  BY Zenon DEF Base
<1>1. todo[t] # <<>> /\ (pc[t] = "judge" \/ At(t))
  BY <1>0, GateSteps, Zenon DEF GateMove, Mutex
<1>2. Cur(t) \in Orders
  BY <1>1, CurKnown, Zenon
<1>3. ASSUME NEW u \in Threads \ {t}
      PROVE  /\ pc'[u] = pc[u] /\ todo'[u] = todo[u]
             /\ aim'[u] = aim[u] /\ took'[u] = took[u]
  <2> USE DEF TypeOK
  <2>1. CASE Done(t)
    BY <1>0, <1>1, <2>1, DoneEffect
  <2>2. CASE ~Done(t) /\ (Judge(t) \/ Send(t) \/ AppendGateTail(t))
    BY <1>0, <2>2, Zenon DEF Judge, Send, AppendGateTail, Step
  <2>3. CASE ~Done(t) /\ Rebind(t)
    BY <1>0, <2>3, Zenon DEF Rebind, RebindDropoff, RebindPickup, Step
  <2>4. CASE SendRefused(t) \/ Advance(t)
    BY <2>1, <2>4, Zenon DEF SendRefused, Advance
  <2> QED
    BY <2>1, <2>2, <2>3, <2>4, Zenon DEF GateMove
<1>4. t \in Gates => \A u \in Gates \ {t} : ~At(u) /\ ~At(u)'
  BY <1>0, <1>1, <1>3, ThreadsOf, Zenon DEF Mutex, At
<1>5. t \notin Gates => t = Hand /\ Calm /\ Cur(t) \in byHand
  <2>1. t \notin Gates => t = Hand
    BY ThreadsOf, Zenon
  <2>2. t = Hand => Cur(t) \in byHand
    BY <1>0, <1>1, Zenon DEF Mutex
  <2>3. t = Hand => Calm
    BY <1>3, ThreadsOf, Zenon DEF Calm
  <2> QED
    BY <2>1, <2>2, <2>3, Zenon
<1>6. Done(t) => ~At(t)'
  BY <1>0, <1>1, DoneEffect, Zenon DEF At
<1> QED
  BY <1>1, <1>2, <1>3, <1>4, <1>5, <1>6, Zenon

-----------------------------------------------------------------------------
\* Orders whose tail may be sent again: a hand sent it, or its write failed.
Excused == byHand \cup unsaved

\* A tail the fleet holds while its wait is still owed is about to be recorded by
\* the holder of the mutex, or a hand sent it, or its write failed.
Sent ==
    /\ \A o \in Orders : tail[o] # None /\ waitIndex[o] = 0 =>
          o \in Excused \/ \E t \in Gates : pc[t] = "advance" /\ Cur(t) = o
    /\ \A t \in Gates : pc[t] = "send" => tail[Cur(t)] = None \/ Cur(t) \in Excused
    /\ twice \subseteq Excused

\* A thread aims at the slot the row names.
Aimed == \A t \in Gates : At(t) => aim[t] = slot[Cur(t)]

\* Who is alive and has a tail has the occupancy row, there is one row, and it is
\* the row of the holder's order.  The holder inserts a row for a robot that has its
\* tail only when that robot is out again.  A dead order's row is about to be taken
\* back, or its robot was sent in all the same.
Corridor ==
    /\ \A o \in Orders \ byHand : Alive(o) /\ tail[o] # None /\ robot[o] # "out" => o \in occ
    /\ \A o, p \in occ : o = p
    /\ \A t \in Gates : At(t) => occ \subseteq {Cur(t)}
    /\ \A t \in Gates : pc[t] = "send" /\ tail[Cur(t)] = None /\ Alive(Cur(t)) =>
          Cur(t) \in occ \cup byHand
    /\ \A t \in Gates : pc[t] = "send" /\ took[t] /\ tail[Cur(t)] # None /\ Alive(Cur(t)) =>
          Cur(t) \in byHand \/ robot[Cur(t)] = "out"
    /\ \A o \in occ : ~Alive(o) =>
          \/ \E t \in Gates : pc[t] = "send" /\ Cur(t) = o /\ took[t]
          \/ o \in job /\ tail[o] # None /\ robot[o] # "out"

USE DEF orderRow, fleet, thread, seen, vars

\* Every step keeps Sent: the re-read in appendGateTail is what makes it so.
LEMMA SentStep == ASSUME Base, Sent, NEW o \in Orders, NEW t \in Threads, IsStep(o, t)
                  PROVE  Sent'
<1>0. /\ tail \in [Orders -> Slots \cup {None}] /\ waitIndex \in [Orders -> 0 .. 1]
      /\ pc \in [Threads -> {"idle", "wait", "judge", "rebind", "append", "send", "advance"}]
  BY Zenon DEF Base, TypeOK
<1>1. ASSUME Calm, UNCHANGED <<tail, waitIndex, twice>>, Excused \subseteq Excused'
      PROVE  Sent'
  BY <1>1, Zenon DEF Sent, Calm, At, Cur
<1>2. CASE Quiet \/ DispatchGated(o) \/ HardReleaseStagedOrder(o) \/ Evaluate(t) \/ Lock(t) \/ Unlock(t)
  <2>1. UNCHANGED <<tail, waitIndex, twice>> /\ Excused \subseteq Excused'
    BY <1>2, Zenon DEF Quiet, DispatchGated, HardReleaseStagedOrder, Evaluate, Lock, Unlock, Excused
  <2> QED
    BY <1>1, <1>2, <2>1, CalmSteps, Zenon
<1>3. CASE GateMove(t)
  <2>0. PICK c \in Orders : c = Cur(t)
    BY <1>3, GateFrame, Zenon
  <2>f. /\ t \in Gates => \A u \in Gates \ {t} : ~At(u) /\ ~At(u)'
        /\ t \notin Gates => t = Hand /\ Calm /\ c \in byHand
        /\ Done(t) => ~At(t)'
        /\ byHand' = byHand /\ byHand \subseteq Excused
    BY <1>3, <2>0, GateFrame, GateSteps, Zenon DEF GateMove, Excused
  <2>1. CASE Judge(t) \/ Rebind(t)
    <3>1. UNCHANGED <<tail, waitIndex, twice, Excused>> /\ pc[t] \in {"judge", "rebind"}
      BY <2>1, Zenon DEF Judge, Rebind, RebindDropoff, RebindPickup, Excused
    <3>2. pc'[t] \notin {"send", "advance"}
      BY <1>0, <2>1, <2>f, Zenon DEF Judge, Rebind, RebindDropoff, RebindPickup, Step, At
    <3>3. CASE t \in Gates
      BY <3>1, <3>2, <3>3, <2>f, Zenon DEF Sent, At
    <3> QED
      BY <1>1, <2>f, <3>1, <3>3, Zenon
  <2>2. CASE AppendGateTail(t)
    <3>1. UNCHANGED <<tail, waitIndex, twice, Excused>> /\ pc[t] = "append"
      BY <2>2, Zenon DEF AppendGateTail, Excused
    <3>2. CASE t \in Gates /\ IsGateStaged(c)
      <4>1. pc'[t] = "send" /\ Cur(t)' = c /\ waitIndex[c] = 0
        BY <1>0, <2>0, <2>2, <3>2, Zenon DEF AppendGateTail, Step, Cur, IsGateStaged
      <4>2. \A p \in Orders : tail[p] # None /\ waitIndex[p] = 0 => p \in Excused
        BY <2>f, <3>1, <3>2, Zenon DEF Sent, At
      <4> QED
        BY <2>f, <3>1, <3>2, <4>1, <4>2, Zenon DEF Sent, At
    <3>3. CASE t \in Gates /\ ~IsGateStaged(c)
      BY <2>0, <2>2, <2>f, <3>1, <3>3, Zenon DEF AppendGateTail, Sent, At
    <3> QED
      BY <1>1, <2>f, <3>1, <3>2, <3>3, Zenon
  <2>3. CASE Send(t)
    <3>1. /\ UNCHANGED <<waitIndex, twice, todo, Excused>> /\ pc[t] = "send" /\ pc'[t] = "advance"
          /\ \A p \in Orders \ {c} : tail'[p] = tail[p]
      BY <1>0, <2>0, <2>3, Zenon DEF Send, Step, Excused
    <3>2. CASE t \in Gates
      <4>1. \A p \in Orders : tail[p] # None /\ waitIndex[p] = 0 => p \in Excused
        BY <2>f, <3>1, <3>2, Zenon DEF Sent, At
      <4>2. Cur(t)' = c
        BY <2>0, <3>1, Zenon DEF Cur
      <4> QED
        BY <2>f, <3>1, <3>2, <4>1, <4>2, Zenon DEF Sent, At
    <3>3. CASE t \notin Gates
      <4>1. \A u \in Gates : At(u) => Cur(u) \in Orders
        BY CurKnown, ThreadsOf, Zenon DEF Base, Mutex
      <4> QED
        BY <2>f, <3>1, <3>3, <4>1, ZenonT(40) DEF Sent, At, Calm, Cur
    <3> QED
      BY <3>2, <3>3, Zenon
  <2>4. CASE SendRefused(t)
    <3>1. /\ UNCHANGED <<waitIndex, tail, Excused>> /\ pc[t] = "send" /\ ~At(t)'
          /\ twice' = IF tail[c] # None THEN twice \cup {c} ELSE twice
      BY <2>0, <2>f, <2>4, Zenon DEF SendRefused, Excused
    <3>2. tail[c] # None => c \in Excused
      BY <2>0, <2>f, <3>1, Zenon DEF Sent
    <3>3. twice' \subseteq Excused'
      BY <2>f, <3>1, <3>2, Zenon DEF Sent
    <3>4. CASE t \in Gates
      BY <2>f, <3>1, <3>3, <3>4, Zenon DEF Sent, At
    <3>5. CASE t \notin Gates
      BY <2>f, <3>1, <3>3, <3>5, ZenonT(30) DEF Sent, At, Calm, Cur
    <3> QED
      BY <3>4, <3>5, Zenon
  <2>5. CASE Advance(t)
    <3>1. /\ UNCHANGED <<tail, twice>> /\ pc[t] = "advance" /\ ~At(t)'
          /\ Excused \subseteq Excused' /\ (waitIndex'[c] = 1 \/ c \in Excused')
          /\ \A p \in Orders \ {c} : waitIndex'[p] = waitIndex[p]
      BY <1>0, <2>0, <2>f, <2>5, Zenon DEF Advance, Excused
    <3>2. CASE t \in Gates
      BY <2>0, <2>f, <3>1, <3>2 DEF Sent, At
    <3>3. CASE t \notin Gates
      BY <2>f, <3>1, <3>3, ZenonT(40) DEF Sent, At, Calm, Cur
    <3> QED
      BY <3>2, <3>3, Zenon
  <2> QED
    BY <1>3, <2>1, <2>2, <2>3, <2>4, <2>5, Zenon DEF GateMove
<1> QED
  BY <1>2, <1>3, QuietSteps, Zenon DEF IsStep, GateMove

\* Every step keeps aims at the row's slot.
LEMMA AimedStep == ASSUME Base, Aimed, NEW o \in Orders, NEW t \in Threads, IsStep(o, t)
                   PROVE  Aimed'
<1>0. /\ slot \in [Orders -> Slots \cup {None}]
      /\ aim \in [Threads -> Slots \cup {None}]
      /\ pc \in [Threads -> {"idle", "wait", "judge", "rebind", "append", "send", "advance"}]
  BY Zenon DEF Base, TypeOK
<1>k. \A u \in Gates : At(u) => Cur(u) \in Orders /\ Known(Cur(u))
  BY CurKnown, ThreadsOf, Zenon DEF Base, Mutex
<1>1. ASSUME Calm, UNCHANGED slot
      PROVE  Aimed'
  BY <1>1, Zenon DEF Aimed, Calm, At, Cur
<1>2. CASE \/ Enter(o) \/ Work(o) \/ BlockCompleted(o) \/ Delivered(o)
           \/ CancelOrder(o) \/ Fault(o) \/ Recover(o) \/ ReleaseTerminalClaims \/ ReapOrphaned
           \/ DispatchGated(o) \/ HardReleaseStagedOrder(o) \/ Evaluate(t) \/ Lock(t) \/ Unlock(t)
  <2>1. UNCHANGED slot
    BY <1>2, Zenon DEF Enter, Work, BlockCompleted, Delivered, CancelOrder, Fault, Recover,
                ReleaseTerminalClaims, ReapOrphaned, DispatchGated, HardReleaseStagedOrder, Evaluate, Lock, Unlock
  <2>2. Calm
    BY <1>2, CalmSteps, QuietSteps, Zenon
  <2> QED
    BY <1>1, <2>1, <2>2, Zenon
<1>3. CASE Plan(o)
  <2>1. Calm /\ row[o] = "queued"
    BY <1>3, CalmSteps, QuietSteps, Zenon DEF Plan
  <2>2. \A p \in Orders \ {o} : slot'[p] = slot[p]
    BY <1>0, <1>3, Zenon DEF Plan
  <2>3. \A u \in Gates : At(u) => Cur(u) # o
    BY <1>k, <2>1, Zenon DEF Known
  <2> QED
    BY <1>k, <2>1, <2>2, <2>3, ZenonT(30) DEF Aimed, Calm, At, Cur
<1>4. CASE GateMove(t)
  <2>0. PICK c \in Orders : c = Cur(t)
    BY <1>4, GateFrame, Zenon
  <2>f. /\ t \in Gates => \A u \in Gates \ {t} : ~At(u) /\ ~At(u)'
        /\ t \notin Gates => t = Hand /\ Calm /\ c \in byHand
        /\ Done(t) => ~At(t)'
    BY <1>4, <2>0, GateFrame, GateSteps, Zenon DEF GateMove
  <2>1. CASE t \notin Gates
    <3>1. pc[t] \in {"send", "advance"}
      BY <1>4, <2>f, <2>1, GateSteps, Zenon DEF Base, Mutex, At, GateMove
    <3>2. UNCHANGED slot
      BY <1>0, <1>4, <2>0, <3>1, Zenon
         DEF GateMove, Judge, Rebind, AppendGateTail, Send, SendRefused, Advance
    <3> QED
      BY <2>f, <2>1, <3>2, Zenon DEF Aimed, Calm, At, Cur
  <2>2. CASE t \in Gates /\ Judge(t)
    <3>1. UNCHANGED slot /\ (At(t)' => aim'[t] = slot[c] /\ Cur(t)' = c)
      BY <1>0, <2>0, <2>f, <2>2, Zenon DEF Judge, Cur
    <3> QED
      BY <2>f, <2>2, <3>1, Zenon DEF Aimed
  <2>3. CASE t \in Gates /\ Rebind(t)
    <3>1. pc[t] = "rebind"
      BY <2>3, Zenon DEF Rebind
    <3>2. At(t)' => aim'[t] = slot'[c] /\ Cur(t)' = c
      BY <1>0, <2>0, <2>f, <2>3, <3>1, Zenon DEF Rebind, RebindDropoff, RebindPickup, Cur, Aimed, At
    <3> QED
      BY <2>f, <2>3, <3>1, <3>2, Zenon DEF Aimed
  <2>4. CASE t \in Gates /\ (AppendGateTail(t) \/ SendRefused(t) \/ Advance(t))
    <3>1. UNCHANGED slot
      BY <2>4, Zenon DEF AppendGateTail, SendRefused, Advance
    <3>2. At(t)' => At(t) /\ aim'[t] = aim[t] /\ Cur(t)' = c
      BY <1>0, <2>0, <2>f, <2>4, Zenon DEF AppendGateTail, SendRefused, Advance, Cur, At
    <3> QED
      BY <2>0, <2>f, <2>4, <3>1, <3>2, Zenon DEF Aimed
  <2>5. CASE t \in Gates /\ Send(t)
    <3>1. UNCHANGED <<slot, aim>> /\ At(t) /\ Cur(t)' = c
      BY <1>0, <2>0, <2>5, Zenon DEF Send, Cur, At
    <3> QED
      BY <2>0, <2>f, <2>5, <3>1, Zenon DEF Aimed
  <2> QED
    BY <1>4, <2>1, <2>2, <2>3, <2>4, <2>5, Zenon DEF GateMove
<1> QED
  BY <1>2, <1>3, <1>4, Zenon DEF IsStep, GateMove

\* A step that leaves the threads at work alone keeps Corridor when it gives back
\* only rows of orders that are over or whose robot is out.
LEMMA CorridorCalm ==
    ASSUME Corridor, Calm, byHand \subseteq byHand', occ \subseteq Orders, occ' \subseteq occ,
           \A u \in Gates : At(u) => Cur(u) \in Orders,
           \A p \in Orders :
              /\ tail[p] # None => tail'[p] # None
              /\ tail'[p] = tail[p] \/ p \in byHand
              /\ Alive(p)' => Alive(p)
              /\ tail[p] # None => (robot'[p] = "out" <=> robot[p] = "out") \/ p \notin occ'
              /\ tail[p] # None /\ robot[p] = "out" => robot'[p] = "out",
           \A p \in occ \ occ' : ~Alive(p)' \/ (tail[p] # None /\ robot'[p] = "out"),
           \A p \in occ' : (Alive(p) => Alive(p)') /\ (p \in job => p \in job')
    PROVE  Corridor'
<1>1. \A u \in Gates : At(u)' => At(u) /\ Cur(u)' = Cur(u) /\ took'[u] = took[u] /\ pc'[u] = pc[u]
  BY Zenon DEF Calm, At, Cur
<1>2. \A u \in Gates : pc'[u] = "send" =>
          At(u) /\ pc[u] = "send" /\ Cur(u)' = Cur(u) /\ took'[u] = took[u] /\ Cur(u) \in Orders
  BY <1>1, Zenon DEF At
<1>3. ASSUME NEW p \in Orders \ byHand', Alive(p)', tail'[p] # None, robot'[p] # "out"
      PROVE  p \in occ'
  <2>1. Alive(p) /\ tail[p] # None /\ robot[p] # "out" /\ p \notin byHand
    BY <1>3, Zenon
  <2>2. p \in occ
    BY <2>1, Zenon DEF Corridor
  <2> QED
    BY <1>3, <2>2, Zenon
<1>4. \A p, q \in occ' : p = q
  BY Zenon DEF Corridor
<1>5. ASSUME NEW u \in Gates, At(u)' PROVE occ' \subseteq {Cur(u)'}
  <2>1. occ \subseteq {Cur(u)} /\ Cur(u)' = Cur(u)
    BY <1>1, <1>5, Zenon DEF Corridor
  <2> QED
    BY <2>1, Zenon
<1>6. ASSUME NEW u \in Gates, pc'[u] = "send", tail'[Cur(u)'] = None, Alive(Cur(u))'
      PROVE  Cur(u)' \in occ' \cup byHand'
  <2> DEFINE c == Cur(u)
  <2>1. c \in Orders /\ Cur(u)' = c /\ pc[u] = "send"
    BY <1>2, <1>6, Zenon
  <2>2. tail'[c] = None /\ row'[c] # "over"
    BY <1>6, <2>1, Zenon DEF Alive
  <2>3. tail[c] = None /\ Alive(c)
    BY <2>1, <2>2, Zenon DEF Alive
  <2>4. c \in occ \cup byHand
    BY <2>1, <2>3, Zenon DEF Corridor
  <2>5. c \in occ' \cup byHand'
    <3>1. c \in occ => c \in occ'
      BY <2>2, <2>3, Zenon DEF Alive
    <3> QED
      BY <2>4, <3>1, Zenon
  <2> QED
    BY <2>1, <2>5, Zenon
<1>7. ASSUME NEW u \in Gates, pc'[u] = "send", took'[u], tail'[Cur(u)'] # None, Alive(Cur(u))'
      PROVE  Cur(u)' \in byHand' \/ robot'[Cur(u)'] = "out"
  <2> DEFINE c == Cur(u)
  <2>1. c \in Orders /\ Cur(u)' = c /\ pc[u] = "send" /\ took[u]
    BY <1>2, <1>7, Zenon
  <2>2. tail'[c] # None /\ row'[c] # "over"
    BY <1>7, <2>1, Zenon DEF Alive
  <2>3. CASE tail[c] # None
    <3>1. c \in byHand \/ robot[c] = "out"
      BY <2>1, <2>2, <2>3, Zenon DEF Corridor, Alive
    <3> HIDE DEF c
    <3> QED
      BY <2>1, <2>3, <3>1, Zenon
  <2>4. CASE tail[c] = None
    BY <2>1, <2>2, <2>4, Zenon
  <2> QED
    BY <2>3, <2>4, Zenon
<1>8. ASSUME NEW p \in occ', ~Alive(p)'
      PROVE  \/ \E u \in Gates : pc'[u] = "send" /\ Cur(u)' = p /\ took'[u]
             \/ p \in job' /\ tail'[p] # None /\ robot'[p] # "out"
  <2>1. p \in occ /\ p \in Orders /\ ~Alive(p)
    BY <1>8, Zenon
  <2>2. CASE \E u \in Gates : pc[u] = "send" /\ Cur(u) = p /\ took[u]
    <3>1. PICK u \in Gates : pc[u] = "send" /\ Cur(u) = p /\ took[u]
      BY <2>2, Zenon
    <3>2. pc'[u] = pc[u] /\ Cur(u)' = Cur(u) /\ took'[u] = took[u]
      BY <3>1, Zenon DEF Calm, At, Cur
    <3> QED
      BY <3>1, <3>2, Zenon
  <2>3. CASE p \in job /\ tail[p] # None /\ robot[p] # "out"
    BY <2>1, <2>3, Zenon
  <2> QED
    BY <2>1, <2>2, <2>3, Zenon DEF Corridor
<1> QED
  BY <1>3, <1>4, <1>5, <1>6, <1>7, <1>8, Zenon DEF Corridor

\* Every step keeps Corridor: admitLane's verdict outlives the rebind.
LEMMA CorridorStep ==
    ASSUME Base, Aimed, Corridor, NEW o \in Orders, NEW t \in Threads, IsStep(o, t)
    PROVE  Corridor'
<1>0. /\ row \in [Orders -> {"queued", "live", "faulted", "over"}]
      /\ robot \in [Orders -> {"none", "mark", "inside", "leaving", "out"}]
      /\ tail \in [Orders -> Slots \cup {None}] /\ occ \subseteq Orders /\ job \subseteq Orders
      /\ pc \in [Threads -> {"idle", "wait", "judge", "rebind", "append", "send", "advance"}]
      /\ took \in [Threads -> BOOLEAN]
  BY Zenon DEF Base, TypeOK
<1>r. \A p \in Orders : RowOf(p)
  BY Zenon DEF Base, Rows
<1>k. \A u \in Gates : At(u) => Cur(u) \in Orders /\ Known(Cur(u))
  BY CurKnown, ThreadsOf, Zenon DEF Base, Mutex
<1>1. ASSUME Calm, UNCHANGED <<tail, occ>>, byHand \subseteq byHand', job' = job,
             \A p \in Orders : /\ robot'[p] = "out" <=> robot[p] = "out"
                               /\ Alive(p)' = Alive(p)
      PROVE  Corridor'
  BY <1>0, <1>k, <1>1, CorridorCalm, Zenon
<1>2. CASE \/ Plan(o) \/ Fault(o) \/ Recover(o) \/ ReleaseTerminalClaims \/ Enter(o) \/ Work(o)
           \/ HardReleaseStagedOrder(o) \/ Evaluate(t) \/ Lock(t) \/ Unlock(t)
  <2>1. UNCHANGED <<tail, occ, job>> /\ byHand \subseteq byHand'
    BY <1>2, Zenon DEF Plan, Fault, Recover, ReleaseTerminalClaims, Enter, Work, HardReleaseStagedOrder,
                Evaluate, Lock, Unlock
  <2>2. ASSUME NEW p \in Orders
        PROVE  (robot'[p] = "out" <=> robot[p] = "out") /\ Alive(p)' = Alive(p)
    <3>1. CASE Fault(o) \/ Recover(o)
      BY <1>0, <3>1, Zenon DEF Fault, Recover, Alive
    <3>2. CASE Enter(o) \/ Work(o)
      BY <1>0, <3>2, Zenon DEF Enter, Work, Alive
    <3>3. CASE \/ Plan(o) \/ ReleaseTerminalClaims
               \/ HardReleaseStagedOrder(o) \/ Evaluate(t) \/ Lock(t) \/ Unlock(t)
      BY <3>3, Zenon DEF Plan, ReleaseTerminalClaims, HardReleaseStagedOrder, Evaluate, Lock, Unlock, Alive
    <3> QED
      BY <1>2, <3>1, <3>2, <3>3, Zenon
  <2>3. Calm
    BY <1>2, CalmSteps, QuietSteps, Zenon
  <2> QED
    BY <1>1, <2>1, <2>2, <2>3, Zenon
<1>3. CASE BlockCompleted(o)
  <2>1. Calm /\ UNCHANGED <<tail, byHand, job, row>>
    BY <1>3, CalmSteps, QuietSteps, Zenon DEF BlockCompleted
  <2>2. /\ robot'[o] = "out" /\ occ' = occ \ {o} /\ tail[o] # None
        /\ \A p \in Orders \ {o} : robot'[p] = robot[p]
    BY <1>0, <1>r, <1>3, Zenon DEF BlockCompleted, RowOf
  <2> QED
    BY <1>0, <1>k, <2>1, <2>2, CorridorCalm, Zenon DEF Alive
<1>4. CASE Delivered(o) \/ CancelOrder(o)
  <2>1. Calm /\ UNCHANGED <<tail, byHand, robot>>
    BY <1>4, CalmSteps, QuietSteps, Zenon DEF Delivered, CancelOrder
  <2>2. /\ occ' = occ \ {o} /\ (\A p \in Orders \ {o} : p \in job => p \in job')
        /\ row'[o] = "over" /\ \A p \in Orders \ {o} : row'[p] = row[p]
    BY <1>0, <1>4, Zenon DEF Delivered, CancelOrder, Ended
  <2> QED
    BY <1>0, <1>k, <2>1, <2>2, CorridorCalm, Zenon DEF Alive
<1>7. CASE ReapOrphaned
  <2>1. Calm /\ UNCHANGED <<tail, byHand, robot, row, job>>
    BY <1>7, CalmSteps, QuietSteps, Zenon DEF ReapOrphaned
  <2>2. occ' = {p \in occ : Alive(p)}
    BY <1>7, Zenon DEF ReapOrphaned
  <2>3. \A p \in Orders : Alive(p)' = Alive(p)
    BY <2>1, Zenon DEF Alive
  <2> QED
    BY <1>0, <1>k, <2>1, <2>2, <2>3, CorridorCalm, Zenon
<1>5. CASE DispatchGated(o)
  <2>1. Calm /\ UNCHANGED <<tail, byHand, occ>>
    BY <1>5, CalmSteps, Zenon DEF DispatchGated
  <2>2. /\ job' = job \cup {o} /\ row[o] = "queued" /\ row'[o] = "live"
        /\ \A p \in Orders \ {o} : row'[p] = row[p] /\ robot'[p] = robot[p]
    BY <1>0, <1>5, Zenon DEF DispatchGated
  <2>3. tail[o] = None
    BY <1>r, <2>2, Zenon DEF RowOf, Known
  <2> QED
    BY <1>0, <1>k, <2>1, <2>2, <2>3, CorridorCalm, Zenon DEF Alive
<1>6. CASE GateMove(t)
  <2>0. PICK c \in Orders : c = Cur(t)
    BY <1>6, GateFrame, Zenon
  <2>f. /\ t \in Gates => \A u \in Gates \ {t} : ~At(u) /\ ~At(u)'
        /\ t \notin Gates => t = Hand /\ Calm /\ c \in byHand
        /\ Done(t) => ~At(t)'
        /\ UNCHANGED <<byHand, row, job, robot>>
    BY <1>6, <2>0, GateFrame, GateSteps, Zenon DEF GateMove
  <2>h. CASE t \notin Gates
    <3>1. UNCHANGED occ
      <4>1. pc[t] \in {"send", "advance"} /\ took[t] = FALSE
        BY <1>6, <2>f, <2>h, GateSteps, Zenon DEF Base, Mutex, At, GateMove
      <4> QED
        BY <1>6, <4>1, Zenon DEF GateMove, Judge, Rebind, AppendGateTail, Send, SendRefused, Advance
    <3>2. \A p \in Orders \ {c} : tail'[p] = tail[p]
      BY <1>0, <1>6, <2>0, Zenon DEF GateMove, Judge, Rebind, AppendGateTail, Send, SendRefused, Advance
    <3>3. tail[c] # None => tail' = tail
      BY <1>6, <2>0, Zenon DEF GateMove, Judge, Rebind, AppendGateTail, Send, Takes, SendRefused, Advance
    <3> QED
      BY <1>0, <1>k, <2>f, <2>h, <3>1, <3>2, <3>3, CorridorCalm, Zenon DEF Alive
  <2>g. ASSUME t \in Gates, UNCHANGED <<tail, occ>>, pc[t] # "send", pc'[t] # "send",
               At(t)' => occ \subseteq {c} /\ todo' = todo
        PROVE  Corridor'
    BY <1>0, <2>0, <2>f, <2>g, Zenon DEF Corridor, At, Cur, Alive
  <2>1. CASE t \in Gates /\ Judge(t)
    <3>1. /\ UNCHANGED <<tail, occ>> /\ pc[t] = "judge" /\ pc'[t] # "send"
          /\ At(t)' => occ \subseteq {c} /\ todo' = todo
      BY <1>0, <2>0, <2>f, <2>1, Zenon DEF Judge, GateEntryVerdict, AdmitLane, Step, At
    <3> QED
      BY <2>1, <2>g, <3>1, Zenon
  <2>2. CASE t \in Gates /\ Rebind(t)
    <3>1. UNCHANGED <<tail, occ>> /\ pc[t] = "rebind"
      BY <2>2, Zenon DEF Rebind
    <3>2. pc'[t] # "send" /\ (At(t)' => todo' = todo)
      BY <1>0, <2>f, <2>2, Zenon DEF Rebind, RebindDropoff, RebindPickup, Step, At
    <3>3. occ \subseteq {c}
      BY <2>0, <2>2, <3>1, Zenon DEF Corridor, At
    <3> QED
      BY <2>2, <2>g, <3>1, <3>2, <3>3, Zenon
  <2>3. CASE t \in Gates /\ AppendGateTail(t)
    <3>1. UNCHANGED tail /\ pc[t] = "append" /\ occ \subseteq {c}
      BY <2>0, <2>3, Zenon DEF AppendGateTail, Corridor, At
    <3>2. CASE IsGateStaged(c)
      <4>1. /\ occ' = occ \cup {c} /\ pc'[t] = "send" /\ Cur(t)' = c
            /\ took'[t] = (c \notin occ)
        BY <1>0, <2>0, <2>3, <3>2, Zenon DEF AppendGateTail, Step, Cur
      <4>2. occ' = {c}
        BY <3>1, <4>1, Zenon
      <4>3. ~Alive(c) /\ c \in occ => c \in job /\ tail[c] # None /\ robot[c] # "out"
        BY <2>f, <2>3, <3>1, Zenon DEF Corridor, At
      <4>4. Alive(c) /\ tail[c] # None /\ c \notin occ => c \in byHand \/ robot[c] = "out"
        BY Zenon DEF Corridor
      <4> QED
        BY <1>0, <2>f, <2>3, <3>1, <4>1, <4>2, <4>3, <4>4, Zenon DEF Corridor, At, Alive
    <3>3. CASE ~IsGateStaged(c)
      BY <1>0, <2>0, <2>f, <2>3, <2>g, <3>1, <3>3, Zenon DEF AppendGateTail, At
    <3> QED
      BY <3>2, <3>3, Zenon
  <2>4. CASE t \in Gates /\ Send(t)
    <3>1. /\ UNCHANGED <<occ, todo>> /\ pc[t] = "send" /\ pc'[t] = "advance" /\ c \in job
          /\ \A p \in Orders \ {c} : tail'[p] = tail[p]
      BY <1>0, <2>0, <2>4, Zenon DEF Send, Step, Takes
    <3>2. /\ Alive(c) => c \in occ \cup byHand
          /\ occ \subseteq {c} /\ Cur(t)' = c
      BY <2>0, <2>4, <3>1, Zenon DEF Corridor, At, Cur, Send, Takes
    <3>3. tail'[c] # None /\ robot[c] # "out"
      <4>1. aim[t] # None /\ tail[c] = None
        BY <1>k, <2>0, <2>4, <3>1, Zenon DEF Aimed, At, Known, Send, Takes
      <4> QED
        BY <1>0, <1>r, <2>0, <2>4, <4>1, Zenon DEF RowOf, Send
    <3> QED
      <4>1. \A u \in Gates : pc'[u] # "send" /\ (At(u)' => u = t)
        BY <1>0, <2>f, <2>4, <3>1, Zenon DEF At
      <4>2. \A p \in Orders : Alive(p)' = Alive(p)
        BY <2>f, Zenon DEF Alive
      <4>3. \A p \in Orders \ byHand : Alive(p) /\ tail'[p] # None /\ robot[p] # "out" => p \in occ
        BY <3>1, <3>2, Zenon DEF Corridor
      <4>4. \A p \in occ : p = c
        BY <3>2, Zenon
      <4> QED
        BY <2>f, <3>1, <3>2, <3>3, <4>1, <4>2, <4>3, <4>4, Zenon DEF Corridor
  <2>5. CASE t \in Gates /\ SendRefused(t)
    <3>1. /\ UNCHANGED tail /\ pc[t] = "send" /\ ~At(t)'
          /\ occ' = IF took[t] THEN occ \ {c} ELSE occ
      BY <2>0, <2>f, <2>5, Zenon DEF SendRefused
    <3>2. took[t] /\ Alive(c) /\ tail[c] # None => c \in byHand \/ robot[c] = "out"
      BY <2>0, <2>5, <3>1, Zenon DEF Corridor
    <3>3. \A p \in occ' : ~Alive(p) => p \in job /\ tail[p] # None /\ robot[p] # "out"
      BY <1>0, <2>0, <2>f, <2>5, <3>1 DEF Corridor, At
    <3> QED
      <4>1. \A u \in Gates : ~At(u)' /\ pc'[u] # "send"
        BY <2>f, <2>5, <3>1, Zenon DEF At
      <4>2. \A p \in Orders : Alive(p)' = Alive(p)
        BY <2>f, Zenon DEF Alive
      <4>3. \A p \in Orders \ byHand : Alive(p) /\ tail[p] # None /\ robot[p] # "out" => p \in occ'
        BY <3>1, <3>2, Zenon DEF Corridor
      <4>4. \A p, q \in occ' : p = q
        BY <3>1, Zenon DEF Corridor
      <4> QED
        BY <1>0, <2>f, <3>1, <3>3, <4>1, <4>2, <4>3, <4>4, Zenon DEF Corridor
  <2>6. CASE t \in Gates /\ Advance(t)
    BY <2>0, <2>f, <2>6, <2>g, Zenon DEF Advance, At
  <2> QED
    BY <1>6, <2>h, <2>1, <2>2, <2>3, <2>4, <2>5, <2>6, Zenon DEF GateMove
<1> QED
  BY <1>2, <1>3, <1>4, <1>5, <1>6, <1>7, Zenon DEF IsStep, GateMove

\* The inductive invariant of the first three theorems.
IInv == Base /\ Sent /\ Aimed /\ Corridor

\* It holds at the start ...
LEMMA InitIInv == Init => IInv
<1> SUFFICES ASSUME Init PROVE IInv
  OBVIOUS
<1>1. Base
  BY BaseInit, Zenon
<1>2. Sent /\ Aimed /\ Corridor
  BY ThreadsOf, Zenon DEF Init, Sent, Aimed, Corridor, At
<1> QED
  BY <1>1, <1>2, Zenon DEF IInv

\* ... and through every step.
LEMMA NextIInv == IInv /\ [Next]_vars => IInv'
<1> SUFFICES ASSUME IInv, [Next]_vars PROVE IInv'
  OBVIOUS
<1>1. Base'
  BY BaseNext, Zenon DEF IInv
<1>2. CASE UNCHANGED vars
  <2>1. Sent' /\ Aimed' /\ Corridor'
    BY <1>2, Zenon DEF IInv, Sent, Excused, Aimed, Corridor, At, Cur, Alive
  <2> QED
    BY <1>1, <2>1, Zenon DEF IInv
<1>3. CASE Next
  <2>1. PICK o \in Orders, t \in Threads : IsStep(o, t)
    BY <1>3, NextIsStep, Zenon
  <2>2. Sent' /\ Aimed' /\ Corridor'
    BY <2>1, SentStep, AimedStep, CorridorStep, Zenon DEF IInv
  <2> QED
    BY <1>1, <2>2, Zenon DEF IInv
<1> QED
  BY <1>2, <1>3, Zenon

\* The invariant holds always, whatever passes, valve, hand, fleet and cancels do.
THEOREM Inductive == Spec => []IInv
  BY InitIInv, NextIInv, PTL DEF Spec

\* Two robots are never in the corridor together unless a hand let one in or one
\* drives on for an order that was cancelled: the verdict (admitLane) and the
\* occupancy row of appendGateTail, under one mutex.
THEOREM CorridorForOne == Spec => []OneInside
<1>1. IInv => OneInside
  <2> DEFINE Judged == Inside \ (byHand \cup Adrift)
  <2> SUFFICES ASSUME IInv, NEW o \in Judged, NEW p \in Judged PROVE o = p
    BY Zenon DEF OneInside
  <2>1. ASSUME NEW q \in Judged PROVE q \in occ
    BY Zenon DEF Inside, Adrift, IInv, Corridor, Base, Rows, RowOf
  <2> QED
    BY <2>1, Zenon DEF IInv, Corridor
<1> QED
  BY <1>1, Inductive, PTL

\* No tail the fleet holds is sent again except by or after a hand, or after a write
\* of wait_index that failed: the mutex and the second look at wait_index in
\* appendGateTail.
THEOREM TailsSentOnce == Spec => []SentOnce
<1>1. IInv => SentOnce
  BY Zenon DEF IInv, Sent, SentOnce, Excused
<1> QED
  BY <1>1, Inductive, PTL

\* An order that has ended leaves neither a mouth row nor an occupancy row once no
\* thread works on it, unless the fleet would not stop its robot and it was sent
\* into the lane: Terminalize, and the row taken back by a refused append.
THEOREM DeadLeave == Spec => []DeadLeavesLane
<1>1. IInv => DeadLeavesLane
  <2> SUFFICES ASSUME IInv, NEW o \in Orders, ~Alive(o),
                      \A t \in Threads : todo[t] = <<>> \/ Cur(t) # o
               PROVE  /\ mouth[o] = "none"
                      /\ o \in occ => o \in Adrift /\ tail[o] # None /\ robot[o] # "out"
    BY Zenon DEF DeadLeavesLane
  <2>1. mouth[o] = "none"
    BY Zenon DEF IInv, Base, Rows, RowOf
  <2>2. ASSUME NEW t \in Gates, pc[t] = "send", Cur(t) = o PROVE FALSE
    BY <2>2, ThreadsOf, Zenon DEF IInv, Base, Mutex, At
  <2>3. o \in occ => o \in Adrift /\ tail[o] # None /\ robot[o] # "out"
    BY <2>2, Zenon DEF IInv, Corridor, Adrift
  <2> QED
    BY <2>1, <2>3, Zenon
<1> QED
  BY <1>1, Inductive, PTL

\* Live stores have slots of their own.
Apart ==
    \A o, p \in Stores :
        o # p /\ Alive(o) /\ Alive(p) /\ slot[o] # None /\ slot[p] # None => slot[o] # slot[p]

\* p was let in, and its rival o, which had chosen before, has yet to place.
Owed(o, p) ==
    /\ p \notin byHand \cup walled
    /\ o # p /\ ~SameOrigin(o, p)
    /\ Alive(o) /\ slot[o] # None /\ robot[o] \in {"none", "mark"}
    /\ Alive(p) /\ LetIn(p) /\ <<o, p>> \notin late

\* Where p goes: its tail says, and before it has one its row.
Goal(p) == IF tail[p] # None THEN tail[p] ELSE slot[p]

\* Whoever is let in goes behind the rivals it owes the way.
Behind == \A o, p \in Stores : Owed(o, p) => Goal(p) > slot[o]

\* What no step undoes, and who chooses slots.
LEMMA OrderFrame ==
    ASSUME Base, NEW o \in Orders, NEW t \in Threads, IsStep(o, t)
    PROVE  /\ \A p \in Orders :
                 /\ Alive(p)' => Alive(p)
                 /\ robot'[p] \in {"none", "mark"} => robot[p] \in {"none", "mark"}
           /\ byHand \subseteq byHand' /\ walled \subseteq walled'
           /\ Plan(o) \/ Rebind(t) \/ UNCHANGED <<slot, late, walled>>
<1>0. /\ row \in [Orders -> {"queued", "live", "faulted", "over"}]
      /\ robot \in [Orders -> {"none", "mark", "inside", "leaving", "out"}]
      /\ \A p \in Orders : RowOf(p)
  BY Zenon DEF Base, TypeOK, Rows
<1>1. ASSUME NEW p \in Orders
      PROVE  /\ Alive(p)' => Alive(p)
             /\ robot'[p] \in {"none", "mark"} => robot[p] \in {"none", "mark"}
  <2> USE DEF Alive
  <2>1. CASE DispatchGated(o)
    BY <1>0, <2>1, Zenon DEF DispatchGated, RowOf, Known
  <2>2. CASE Fault(o) \/ Recover(o) \/ CancelOrder(o) \/ Delivered(o)
    BY <1>0, <2>2, Zenon DEF Fault, Recover, CancelOrder, Delivered, Ended
  <2>3. CASE Enter(o) \/ Work(o) \/ BlockCompleted(o)
    BY <1>0, <2>3, Zenon DEF Enter, Work, BlockCompleted
  <2>4. CASE \/ Plan(o) \/ HardReleaseStagedOrder(o) \/ Evaluate(t) \/ Lock(t) \/ Unlock(t)
             \/ ReleaseTerminalClaims \/ ReapOrphaned
    BY <2>4, Zenon DEF Plan, HardReleaseStagedOrder, Evaluate, Lock, Unlock, ReleaseTerminalClaims,
                       ReapOrphaned
  <2>5. CASE GateMove(t)
    BY <2>5, GateSteps, Zenon DEF GateMove
  <2> QED
    BY <2>1, <2>2, <2>3, <2>4, <2>5, Zenon DEF IsStep, GateMove
<1>2. CASE Rebind(t)
  BY <1>1, <1>2, Zenon DEF Rebind, RebindDropoff, RebindPickup
<1>3. CASE Plan(o)
  BY <1>1, <1>3, Zenon DEF Plan
<1>4. CASE \/ DispatchGated(o) \/ HardReleaseStagedOrder(o) \/ Enter(o) \/ Work(o)
           \/ BlockCompleted(o) \/ Delivered(o) \/ CancelOrder(o) \/ Fault(o) \/ Recover(o)
           \/ ReleaseTerminalClaims \/ ReapOrphaned \/ Evaluate(t) \/ Lock(t) \/ Unlock(t)
  BY <1>1, <1>4, Zenon DEF DispatchGated, HardReleaseStagedOrder, Enter, Work, BlockCompleted, Delivered,
                    CancelOrder, Fault, Recover, ReleaseTerminalClaims, ReapOrphaned, Evaluate, Lock,
                    Unlock
<1>5. CASE Judge(t) \/ AppendGateTail(t) \/ Send(t) \/ SendRefused(t) \/ Advance(t)
  BY <1>1, <1>5, Zenon DEF Judge, AppendGateTail, Send, SendRefused, Advance
<1> QED
  BY <1>2, <1>3, <1>4, <1>5, Zenon DEF IsStep

\* Only Send gives a robot its tail.
LEMMA TailStep ==
    ASSUME Base, NEW o \in Orders, NEW t \in Threads, IsStep(o, t), NEW p \in Orders
    PROVE  (Send(t) /\ p = Cur(t)) \/ tail'[p] = tail[p]
<1>0. tail \in [Orders -> Slots \cup {None}]
  BY Zenon DEF Base, TypeOK
<1>1. CASE Send(t)
  BY <1>0, <1>1, Zenon DEF Send
<1>2. CASE Judge(t) \/ Rebind(t) \/ AppendGateTail(t) \/ SendRefused(t) \/ Advance(t)
  BY <1>2, Zenon DEF Judge, Rebind, AppendGateTail, SendRefused, Advance
<1>3. CASE Quiet \/ DispatchGated(o) \/ HardReleaseStagedOrder(o) \/ Evaluate(t) \/ Lock(t) \/ Unlock(t)
  BY <1>3, Zenon DEF Quiet, DispatchGated, HardReleaseStagedOrder, Evaluate, Lock, Unlock
<1> QED
  BY <1>1, <1>2, <1>3, QuietSteps, Zenon DEF IsStep

\* Only a verdict lets a store in that no hand releases.
LEMMA LetInStep ==
    ASSUME Base, Base', NEW o \in Orders, NEW t \in Threads, IsStep(o, t),
           NEW p \in Orders, p \notin byHand', LetIn(p)'
    PROVE  LetIn(p) \/ (Judge(t) /\ p = Cur(t) /\ GateEntryVerdict(p))
<1>0. /\ pc \in [Threads -> {"idle", "wait", "judge", "rebind", "append", "send", "advance"}]
      /\ tail \in [Orders -> Slots \cup {None}]
  BY Zenon DEF Base, TypeOK
<1>1. CASE tail'[p] # None
  <2>1. CASE Send(t) /\ p = Cur(t)
    BY <2>1, Zenon DEF Send, LetIn, Cur
  <2>2. CASE ~(Send(t) /\ p = Cur(t))
    <3>1. tail'[p] = tail[p]
      BY <2>2, TailStep, Zenon
    <3> QED
      BY <1>1, <3>1, Zenon DEF LetIn
  <2> QED
    BY <2>1, <2>2, Zenon
<1>2. CASE tail'[p] = None
  <2>1. PICK u \in Threads : pc'[u] \in {"rebind", "append", "send"} /\ Head(todo'[u]) = p
    BY <1>2, Zenon DEF LetIn
  <2>2. u \in Gates /\ At(u)'
    BY <2>1, ThreadsOf, Zenon DEF Base, Mutex, At, Cur
  <2>3. ASSUME pc'[u] = pc[u], todo'[u] = todo[u] PROVE LetIn(p)
    BY <2>1, <2>3, Zenon DEF LetIn
  <2>4. CASE Quiet \/ DispatchGated(o) \/ HardReleaseStagedOrder(o) \/ Evaluate(t) \/ Lock(t) \/ Unlock(t)
    BY <2>2, <2>3, <2>4, CalmSteps, Zenon DEF Calm
  <2>5. CASE GateMove(t)
    <3>1. CASE u # t
      BY <2>2, <2>3, <2>5, <3>1, GateFrame, Zenon
    <3>2. CASE u = t
      <4>1. ~Done(t)
        BY <2>2, <2>5, <3>2, GateFrame, Zenon
      <4>2. todo' = todo
        BY <2>5, <4>1, GateSteps, Zenon DEF GateMove, Goes
      <4>3. p = Cur(t)
        BY <2>1, <3>2, <4>2, Zenon DEF Cur
      <4>4. CASE Judge(t)
        BY <4>1, <4>3, <4>4, Zenon DEF Judge
      <4>5. CASE Rebind(t) \/ AppendGateTail(t)
        BY <4>3, <4>5, Zenon DEF Rebind, AppendGateTail, LetIn, Cur
      <4>6. ~Send(t) /\ ~SendRefused(t) /\ ~Advance(t)
        BY <1>0, <2>1, <3>2, <4>1, Zenon DEF Send, SendRefused, Advance, Step
      <4> QED
        BY <2>5, <4>4, <4>5, <4>6, Zenon DEF GateMove
    <3> QED
      BY <3>1, <3>2, Zenon
  <2> QED
    BY <2>4, <2>5, QuietSteps, Zenon DEF IsStep, GateMove
<1> QED
  BY <1>1, <1>2, Zenon

\* Every step keeps the stores apart.
LEMMA ApartStep == ASSUME Base, Apart, NEW o \in Orders, NEW t \in Threads, IsStep(o, t)
                   PROVE  Apart'
<1>0. slot \in [Orders -> Slots \cup {None}] /\ \A p \in Stores : p \in Orders
  BY Zenon DEF Base, TypeOK, Orders
<1>1. \A p \in Stores : Alive(p)' => Alive(p)
  BY <1>0, OrderFrame DEF Alive
<1>2. ASSUME NEW c \in Stores, StoreSlots(c) # {}, slot' = [slot EXCEPT ![c] = Max(StoreSlots(c))]
      PROVE  Apart'
  <2>1. Max(StoreSlots(c)) \in StoreSlots(c)
    BY <1>0, <1>2, Deepest, Zenon
  <2>2. \A p \in Stores \ {c} : Alive(p) => slot[p] # Max(StoreSlots(c))
    BY <2>1, Zenon DEF StoreSlots
  <2>3. slot'[c] = Max(StoreSlots(c)) /\ \A p \in Stores \ {c} : slot'[p] = slot[p]
    BY <1>0, <1>2, Zenon
  <2> QED
    BY <1>1, <2>2, <2>3, Zenon DEF Apart
<1>3. ASSUME NEW c \in Picks, slot' = [slot EXCEPT ![c] = Bin0[c]]
      PROVE  Apart'
  <2>1. \A p \in Stores : slot'[p] = slot[p]
    BY <1>0, <1>3, LaneGateAssumption, Zenon
  <2> QED
    BY <1>1, <2>1, Zenon DEF Apart
<1>4. CASE UNCHANGED slot
  BY <1>1, <1>4, Zenon DEF Apart
<1>5. CASE Plan(o)
  BY <1>2, <1>3, <1>5, Zenon DEF Plan
<1>6. CASE Rebind(t)
  BY <1>2, <1>4, <1>6, Zenon DEF Rebind, RebindDropoff, RebindPickup
<1> QED
  BY <1>4, <1>5, <1>6, OrderFrame, Zenon

\* A verdict puts the store let in behind every rival that still has to place.
LEMMA VerdictBehind ==
    ASSUME Base, Apart, NEW c \in Stores, slot[c] \in Slots, GateEntryVerdict(c), Alive(c),
           NEW a \in Stores, a # c, ~SameOrigin(a, c), Alive(a), slot[a] # None,
           robot[a] \in {"none", "mark"}
    PROVE  slot[c] > slot[a]
<1>1. a \in Orders /\ slot[a] \in Slots /\ RowOf(a)
  BY Zenon DEF Base, TypeOK, Rows, Orders
<1>2. a \in Working(c)
  BY <1>1, Zenon DEF Working, RowOf
<1>3. ~SameOrigin(c, a)
  BY Zenon DEF SameOrigin
<1>4. slot[a] # slot[c]
  BY <1>1, LaneGateAssumption, Zenon DEF Apart
<1>5. Depth \in Nat /\ slot[a] \in Int /\ slot[c] \in Int
      /\ slot[a] >= 1 /\ slot[a] <= Depth /\ slot[c] >= 1 /\ slot[c] <= Depth
  BY <1>1, LaneGateAssumption DEF Slots
<1>6. CASE Depth > 1
  <2>1. ClassifyLaneEntry(c)
    BY <1>6, Zenon DEF GateEntryVerdict
  <2>2. ~(slot[a] > slot[c])
    BY <1>2, <1>3, <2>1, Zenon DEF ClassifyLaneEntry
  <2> QED
    BY <1>4, <1>5, <2>2
<1>7. CASE ~(Depth > 1)
  BY <1>4, <1>5, <1>7
<1> QED
  BY <1>6, <1>7, Zenon

\* Whoever chooses anew owes nothing to those let in before.
LEMMA ChoseLate ==
    ASSUME NEW c, NEW a, NEW p \in Stores, late' = Chose(c), <<a, p>> \notin late'
    PROVE  /\ a = c /\ p # c => ~LetIn(p)
           /\ a # c => <<a, p>> \notin late
  BY Zenon DEF Chose

\* Every step keeps Behind: a verdict makes it, a rebind that moves a store forward
\* marks it walled, and whoever chooses late owes nothing.
LEMMA BehindStep ==
    ASSUME Base, Base', Aimed, Apart, Behind, NEW o \in Orders, NEW t \in Threads, IsStep(o, t)
    PROVE  Behind'
<1> SUFFICES ASSUME NEW a \in Stores, NEW p \in Stores, Owed(a, p)'
             PROVE  Goal(p)' > slot'[a]
  BY Zenon DEF Behind
<1>0. a \in Orders /\ p \in Orders /\ slot \in [Orders -> Slots \cup {None}]
  BY Zenon DEF Base, TypeOK, Orders
<1>f. /\ Alive(a) /\ Alive(p) /\ robot[a] \in {"none", "mark"}
      /\ p \notin byHand \cup walled /\ a # p /\ ~SameOrigin(a, p)
      /\ p \notin byHand' /\ p \notin walled' /\ LetIn(p)' /\ slot'[a] # None
      /\ <<a, p>> \notin late'
  <2>1. /\ Alive(a)' /\ Alive(p)' /\ robot'[a] \in {"none", "mark"}
        /\ a # p /\ ~SameOrigin(a, p)'
        /\ p \notin byHand' /\ p \notin walled' /\ LetIn(p)' /\ slot'[a] # None
        /\ <<a, p>> \notin late'
    BY Zenon DEF Owed
  <2>2. ~SameOrigin(a, p)
    BY <2>1, Zenon DEF SameOrigin
  <2>3. /\ Alive(a)' => Alive(a)
        /\ Alive(p)' => Alive(p)
        /\ robot'[a] \in {"none", "mark"} => robot[a] \in {"none", "mark"}
        /\ byHand \subseteq byHand' /\ walled \subseteq walled'
    BY <1>0, OrderFrame DEF Alive
  <2>4. p \notin byHand \cup walled
    BY <2>1, <2>3, Zenon
  <2> QED
    BY <2>1, <2>2, <2>3, <2>4, Zenon
<1>l. LetIn(p) \/ (Judge(t) /\ p = Cur(t) /\ GateEntryVerdict(p))
  BY <1>0, <1>f, LetInStep, Zenon
<1>g. CASE UNCHANGED <<slot, late>>
  <2>1. CASE LetIn(p)
    <3>1. Owed(a, p)
      BY <1>f, <1>g, <2>1, Zenon DEF Owed
    <3>2. Goal(p)' = Goal(p)
      <4>1. CASE tail'[p] = tail[p]
        BY <1>g, <4>1, Zenon DEF Goal
      <4>2. CASE Send(t) /\ p = Cur(t)
        <5>1. t \in Gates /\ pc[t] = "send" /\ tail[p] = None
          <6>1. pc[t] = "send" /\ tail[p] = None /\ At(t)
            BY <4>2, Zenon DEF Send, Takes, At, Cur
          <6>2. t # Hand
            BY <1>f, <4>2, <6>1, Zenon DEF Base, Mutex
          <6> QED
            BY <6>1, <6>2, ThreadsOf, Zenon
        <5>2. tail'[p] = slot[p]
          BY <1>0, <4>2, <5>1, Zenon DEF Send, Aimed, At, Base, TypeOK
        <5> QED
          BY <1>g, <5>1, <5>2, Zenon DEF Goal
      <4> QED
        BY <1>0, <4>1, <4>2, TailStep, Zenon
    <3> QED
      BY <1>g, <3>1, <3>2, Zenon DEF Behind
  <2>2. CASE ~LetIn(p)
    <3>1. Judge(t) /\ p = Cur(t) /\ GateEntryVerdict(p) /\ slot[p] \in Slots
      BY <1>l, <2>2, CurKnown, Zenon DEF Judge
    <3>2. Goal(p)' = slot[p]
      BY <1>g, <2>2, <3>1, Zenon DEF Goal, LetIn, Judge
    <3> QED
      BY <1>f, <1>g, <3>1, <3>2, VerdictBehind, Zenon
  <2> QED
    BY <2>1, <2>2, Zenon
<1>1. ASSUME LetIn(p), UNCHANGED <<tail, late>>, slot'[a] = slot[a], slot'[p] = slot[p]
      PROVE  Goal(p)' > slot'[a]
  <2>1. Owed(a, p)
    BY <1>f, <1>1, Zenon DEF Owed
  <2>2. Goal(p)' = Goal(p)
    BY <1>1, Zenon DEF Goal
  <2> QED
    BY <1>1, <2>1, <2>2, Zenon DEF Behind
<1>2. ASSUME NEW c \in Orders, LetIn(p), late' = Chose(c), tail' = tail,
             \A q \in Orders \ {c} : slot'[q] = slot[q],
             p = c => slot'[c] > slot[c] /\ slot[c] \in Slots /\ slot'[c] \in Slots
      PROVE  Goal(p)' > slot'[a]
  <2>1. a # c /\ <<a, p>> \notin late
    BY <1>f, <1>2, ChoseLate, Zenon
  <2>2. slot'[a] = slot[a]
    BY <1>0, <1>2, <2>1, Zenon
  <2>3. Owed(a, p)
    BY <1>f, <1>2, <2>1, <2>2, Zenon DEF Owed
  <2>4. Goal(p) > slot[a]
    BY <2>3, Zenon DEF Behind
  <2>5. CASE p # c \/ tail[p] # None
    <3>1. Goal(p)' = Goal(p)
      BY <1>0, <1>2, <2>5, Zenon DEF Goal
    <3> QED
      BY <2>2, <2>4, <3>1, Zenon
  <2>6. CASE p = c /\ tail[p] = None
    <3>0. Goal(p) = slot[c] /\ Goal(p)' = slot'[c]
      BY <1>2, <2>6, Zenon DEF Goal
    <3>1. slot[a] \in Slots
      BY <1>0, <1>f, <2>2, Zenon
    <3>2. slot[a] \in Int /\ slot[c] \in Int /\ slot'[c] \in Int
      BY <1>2, <2>6, <3>1 DEF Slots
    <3> QED
      BY <1>2, <2>2, <2>4, <2>6, <3>0, <3>2
  <2> QED
    BY <2>5, <2>6, Zenon
<1>3. CASE Plan(o)
  <2>1. /\ row[o] = "queued" /\ tail' = tail /\ \A q \in Orders \ {o} : slot'[q] = slot[q]
        /\ late' = Chose(o) \/ (late' = late /\ o \in Picks)
    BY <1>0, <1>3, Zenon DEF Plan
  <2>2. LetIn(p)
    <3>1. pc' = pc /\ pc \in [Threads -> {"idle", "wait", "judge", "rebind", "append", "send", "advance"}]
      BY <1>3, Zenon DEF Plan, Base, TypeOK
    <3>2. ~(Judge(t) /\ GateEntryVerdict(Cur(t)))
      BY <3>1, Zenon DEF Judge, Step
    <3> QED
      BY <1>l, <3>2, Zenon
  <2>3. p # o
    <3>1. Known(p)
      <4>1. CASE tail[p] # None
        BY <1>0, <4>1, Zenon DEF Base, Rows, RowOf
      <4>2. ASSUME NEW u \in Threads, pc[u] \in {"rebind", "append", "send"}, Head(todo[u]) = p
            PROVE  Known(p)
        BY <4>2, CurKnown, Zenon DEF Base, Mutex, At, Cur
      <4> QED
        BY <2>2, <4>1, <4>2, Zenon DEF LetIn
    <3> QED
      BY <2>1, <3>1, Zenon DEF Known
  <2>4. CASE late' = Chose(o)
    BY <1>2, <2>1, <2>2, <2>3, <2>4, Zenon
  <2>5. CASE late' = late /\ o \in Picks
    <3>1. a # o
      BY <2>5, LaneGateAssumption, Zenon
    <3> QED
      BY <1>0, <1>1, <2>1, <2>2, <2>3, <2>5, <3>1, Zenon
  <2> QED
    BY <2>1, <2>4, <2>5, Zenon
<1>4. CASE Rebind(t)
  <2>0. pc[t] = "rebind" /\ Cur(t) \in Orders /\ slot[Cur(t)] \in Slots
    BY <1>4, CurKnown, Zenon DEF Rebind, Base, Mutex, At
  <2>1. LetIn(p)
    BY <1>l, <2>0, Zenon DEF Judge
  <2>2. CASE UNCHANGED <<slot, late>>
    BY <1>g, <2>2, Zenon
  <2>3. CASE ~UNCHANGED <<slot, late>>
    <3> DEFINE c == Cur(t)
               best == Max(StoreSlots(c))
    <3>1. c \in Stores /\ StoreSlots(c) # {} /\ slot' = [slot EXCEPT ![c] = best]
          /\ late' = (IF best = slot[c] THEN late ELSE Chose(c))
          /\ walled' = (IF best < slot[c] THEN walled \cup {c} ELSE walled)
      BY <1>4, <2>3, Zenon DEF Rebind, RebindDropoff, RebindPickup
    <3>2. best \in Slots
      BY <3>1, <2>0, Deepest, Zenon
    <3>3. best # slot[c]
      BY <1>0, <2>0, <2>3, <3>1, Zenon
    <3>4. late' = Chose(c)
      BY <3>1, <3>3, Zenon
    <3>5. slot'[c] = best /\ \A q \in Orders \ {c} : slot'[q] = slot[q]
      BY <1>0, <2>0, <3>1, Zenon
    <3>6. p = c => best > slot[c]
      <4>1. best \in Int /\ slot[c] \in Int
        BY <2>0, <3>2 DEF Slots
      <4>2. p = c => ~(best < slot[c])
        BY <1>f, <3>1, Zenon
      <4> QED
        BY <3>3, <4>1, <4>2
    <3> HIDE DEF c, best
    <3>7. c \in Orders /\ slot[c] \in Slots /\ tail' = tail
      BY <1>4, <2>0, Zenon DEF c, Rebind
    <3> QED
      BY <1>2, <2>1, <3>2, <3>4, <3>5, <3>6, <3>7, Zenon
  <2> QED
    BY <2>2, <2>3, Zenon
<1> QED
  BY <1>g, <1>3, <1>4, OrderFrame, Zenon

\* The inductive invariant of NeverOvertaken.
OInv == IInv /\ Apart /\ Behind

\* It holds at the start ...
LEMMA InitOInv == Init => OInv
<1> SUFFICES ASSUME Init PROVE OInv
  OBVIOUS
<1>1. Apart
  BY Zenon DEF Init, Apart, Orders
<1>2. Behind
  BY ThreadsOf, Zenon DEF Init, Behind, Owed, Orders
<1> QED
  BY <1>1, <1>2, InitIInv, Zenon DEF OInv

\* ... and through every step.
LEMMA NextOInv == OInv /\ [Next]_vars => OInv'
<1> SUFFICES ASSUME OInv, [Next]_vars PROVE OInv'
  OBVIOUS
<1>1. IInv' /\ Base'
  BY NextIInv, Zenon DEF OInv, IInv
<1>2. CASE UNCHANGED vars
  <2>1. Apart'
    BY <1>2, Zenon DEF OInv, Apart, Alive
  <2>2. Behind'
    BY <1>2, Zenon DEF OInv, Behind, Owed, Goal, Alive, LetIn, SameOrigin
  <2> QED
    BY <1>1, <2>1, <2>2, Zenon DEF OInv
<1>3. CASE Next
  <2>1. PICK o \in Orders, t \in Threads : IsStep(o, t)
    BY <1>3, NextIsStep, Zenon
  <2>2. Apart'
    BY <2>1, ApartStep, Zenon DEF OInv, IInv
  <2>3. Behind'
    BY <1>1, <2>1, BehindStep, Zenon DEF OInv, IInv
  <2> QED
    BY <1>1, <2>2, <2>3, Zenon DEF OInv
<1> QED
  BY <1>2, <1>3, Zenon

\* The invariant holds always.
THEOREM OrderInductive == Spec => []OInv
  BY InitOInv, NextOInv, PTL DEF Spec

\* A store let in after a rival of another origin chose its slot never goes in
\* front of it, for any lane depth and any number of stores (classifyLaneEntry's
\* second tier), but for the stores a partner walled off.
THEOREM NoneOvertaken == Spec => []NeverOvertaken
<1>1. OInv => NeverOvertaken
  <2> SUFFICES ASSUME OInv, NEW o \in Stores, NEW p \in Stores \ (byHand \cup walled),
                      o # p /\ ~SameOrigin(o, p),
                      Alive(o) /\ slot[o] # None /\ robot[o] \in {"none", "mark"},
                      tail[p] # None /\ Alive(p) /\ <<o, p>> \notin late
               PROVE  tail[p] > slot[o]
    BY Zenon DEF NeverOvertaken
  <2>1. Owed(o, p)
    BY Zenon DEF Owed, LetIn
  <2>2. Goal(p) = tail[p]
    BY Zenon DEF Goal
  <2> QED
    BY <2>1, <2>2, Zenon DEF OInv, Behind
<1> QED
  BY <1>1, OrderInductive, PTL
=============================================================================
