---------------------------- MODULE MissionProofs ---------------------------
(***************************************************************************)
(* Proofs about the tracking and the release of fleet jobs, for every      *)
(* number of orders, waits, disturbances and restarts: the safety          *)
(* invariants of Mission, and that it implements Waybill.                  *)
(***************************************************************************)
EXTENDS Mission, TLAPS

Top(s, n) == (\E i \in 1..Len(s) : s[i] = n) /\ (\A i \in 1..Len(s) : s[i] <= n)

\* A job that runs has a segment to run, and one that finished had the last.
JobOK(o) ==
    /\ done[o] <= Len(segs[o])
    /\ rds[o] \in {"CREATED", "RUNNING"} => done[o] < Len(segs[o])
    /\ rds[o] = "FINISHED" => \E i \in 1..Len(segs[o]) : segs[o][i] = Waits[o]
    /\ \E n \in 0..Waits[o] : Top(segs[o], n)

\* The jobs at the fleet.
FleetInv ==
    /\ rds \in [Orders -> JobState]
    /\ segs \in [Orders -> Seq(Nat)]
    /\ done \in [Orders -> Nat]
    /\ \A o \in Orders : JobOK(o)

\* The poller's maps.
TrackInv ==
    /\ active \in [Orders -> JobState \cup {None}]
    /\ seen \in [Orders -> Nat]
    /\ deadline \in [Orders -> {"none", "running", "past"}]
    /\ \A o \in Orders : 1..seen[o] \subseteq reported[o] \cup missed[o]
    /\ reported \in [Orders -> SUBSET Int] /\ missed \in [Orders -> SUBSET Int]

Reading == {"diff", "commit", "load", "apply"}

\* The poll cycle: a reading is of a tracked job, and what it says of a job
\* that ended stays true.
CycleInv ==
    /\ ppc \in Reading \cup {"idle", "poll", "expire", "stop"}
    /\ ppc \in Reading \cup {"expire", "stop"} => cur \in Orders
    /\ todo \subseteq Orders /\ expired \subseteq Orders
    /\ got \in [st : JobState, done : Nat]
    /\ ppc \in Reading /\ got.st = "FINISHED" => rds[cur] = "FINISHED" /\ got.done = done[cur]
    /\ ppc \in {"commit", "load", "apply"} => 1..got.done \subseteq reported[cur] \cup missed[cur]
    /\ ppc \in {"load", "apply"} /\ ~Over(got.st) => active[cur] # None
    /\ ppc = "apply" /\ IsTerminal(loaded) => IsTerminal(status[cur])

Booked == {"dispatched", "in_transit", "staged", "faulted", "delivered", "confirmed",
           "failed", "cancelled"}

\* The order row: delivered only for a job that finished.
RowInv ==
    /\ status \in [Orders -> Booked]
    /\ waitIndex \in [Orders -> Nat]
    /\ \A o \in Orders : status[o] = "delivered" => rds[o] = "FINISHED"

\* The robot has been given segment k or one behind it.
Given(o, k) == \E i \in 1..Len(segs[o]) : segs[o][i] >= k

\* The robot has every segment the row or a release in hand counts as given.
ReleaseInv ==
    /\ rpc \in {"idle", "append", "index", "move"}
    /\ rpc # "idle" => /\ rel.ord \in Orders /\ rel.idx \in Nat /\ rel.idx < Waits[rel.ord]
                       /\ rel.from \in {"staged", "in_transit"}
                       /\ Given(rel.ord, rel.idx)
    /\ rpc \in {"index", "move"} => Given(rel.ord, rel.idx + 1)
    /\ \A o \in Orders : Given(o, waitIndex[o])

\* A Core that is down has nothing in hand.
DownInv ==
    up \/ (ppc = "idle" /\ rpc = "idle" /\ \A o \in Orders : deadline[o] = "none")

IInv == FleetInv /\ TrackInv /\ CycleInv /\ RowInv /\ ReleaseInv /\ DownInv

-----------------------------------------------------------------------------
(* Who changes what.                                                       *)

JobMoves(o) ==
    \/ Fleet(o) \/ CancelBegin(o)
    \/ StopExpired /\ o = cur
    \/ AppendSegment /\ o = rel.ord

\* The job changes in these steps only.
LEMMA FleetFrame ==
    ASSUME IInv, [Next]_vars
    PROVE  UNCHANGED fleet \/ \E o \in Orders : JobMoves(o)
<1>1. CASE UNCHANGED vars
  BY <1>1 DEF vars
<1>2. CASE PollStep
  <2>1. CASE StopExpired
    BY <2>1 DEF StopExpired, JobMoves, IInv, CycleInv
  <2>2. CASE Poll \/ PollEnd \/ HandleGraceExpired \/ DiffBlockStates \/ Commit
    BY <2>2 DEF Poll, PollEnd, HandleGraceExpired, DiffBlockStates, Commit
  <2>3. CASE LoadOrder \/ MarkStatus \/ FleetOrderCancelled
    BY <2>3 DEF LoadOrder, MarkStatus, FleetOrderCancelled
  <2>4. CASE \E o \in Orders : GraceExpire(o) \/ GetOrderDetails(o)
    BY <2>4 DEF GraceExpire, GetOrderDetails
  <2> QED
    BY <1>2, <2>1, <2>2, <2>3, <2>4 DEF PollStep
<1>3. CASE ReleaseStep
  <2>1. CASE AppendSegment
    BY <2>1 DEF AppendSegment, JobMoves, IInv, ReleaseInv
  <2>2. CASE AppendRefused \/ UpdateOrderWaitIndex \/ ReleaseOrder
    BY <2>2 DEF AppendRefused, UpdateOrderWaitIndex, ReleaseOrder
  <2> QED
    BY <1>3, <2>1, <2>2 DEF ReleaseStep
<1>4. CASE Crash \/ Restart
  BY <1>4 DEF Crash, Restart
<1>5. ASSUME NEW o \in Orders,
             Fleet(o) \/ DeadlinePasses(o) \/ HandleOrderRelease(o)
               \/ CancelBegin(o) \/ CancelEnd(o) \/ ConfirmReceipt(o)
      PROVE  UNCHANGED fleet \/ JobMoves(o)
  BY <1>5 DEF JobMoves, DeadlinePasses, HandleOrderRelease, CancelEnd, ConfirmReceipt
<1> QED
  BY <1>1, <1>2, <1>3, <1>4, <1>5 DEF Next

-----------------------------------------------------------------------------
(* The job.                                                                *)

\* A job that ended does not change, and a segment given is not taken back.
JobKept ==
    \A o \in Orders :
       /\ Over(rds[o]) => rds'[o] = rds[o] /\ done'[o] = done[o] /\ segs'[o] = segs[o]
       /\ \A i \in 1..Len(segs[o]) : i \in 1..Len(segs'[o]) /\ segs'[o][i] = segs[o][i]

\* Appending the segment behind one the robot has moves the top by at most one.
LEMMA AppendTop ==
    ASSUME NEW s \in Seq(Nat), NEW n \in Nat, Top(s, n),
           NEW k \in Nat, \E i \in 1..Len(s) : s[i] >= k
    PROVE  /\ Append(s, k + 1) \in Seq(Nat)
           /\ Len(Append(s, k + 1)) = Len(s) + 1
           /\ \A i \in 1..Len(s) : Append(s, k + 1)[i] = s[i]
           /\ Append(s, k + 1)[Len(s) + 1] = k + 1
           /\ k <= n
           /\ IF k = n THEN Top(Append(s, k + 1), n + 1) ELSE Top(Append(s, k + 1), n)
<1> DEFINE t == Append(s, k + 1)
<1>1. t \in Seq(Nat) /\ Len(t) = Len(s) + 1 /\ t[Len(s) + 1] = k + 1
  OBVIOUS
<1>2. \A i \in 1..Len(s) : t[i] = s[i] /\ s[i] \in Nat
  OBVIOUS
<1>3. k <= n
  BY <1>2 DEF Top
<1>4. \A i \in 1..Len(t) : i \in 1..Len(s) \/ i = Len(s) + 1
  BY <1>1
<1>5. \A i \in 1..Len(s) : i \in 1..Len(t)
  BY <1>1
<1>6. Len(s) + 1 \in 1..Len(t)
  BY <1>1
<1> HIDE DEF t
<1>7. \A i \in 1..Len(s) : t[i] <= n
  BY <1>2 DEF Top
<1>8. ASSUME k = n PROVE Top(t, n + 1)
  <2>1. \A i \in 1..Len(t) : t[i] <= n + 1
    <3>1. ASSUME NEW i \in 1..Len(s) PROVE t[i] <= n + 1
      <4>1. t[i] \in Nat /\ t[i] <= n
        BY <1>2, <1>7
      <4> QED
        BY <4>1
    <3>2. t[Len(s) + 1] <= n + 1
      BY <1>1, <1>8
    <3> QED
      BY <1>4, <3>1, <3>2, Zenon
  <2>2. \E i \in 1..Len(t) : t[i] = n + 1
    BY <1>1, <1>6, <1>8
  <2> QED
    BY <2>1, <2>2 DEF Top
<1>9. ASSUME k # n PROVE Top(t, n)
  <2>1. \A i \in 1..Len(t) : t[i] <= n
    BY <1>1, <1>3, <1>4, <1>7, <1>9
  <2>2. \E i \in 1..Len(t) : t[i] = n
    BY <1>2, <1>5 DEF Top
  <2> QED
    BY <2>1, <2>2 DEF Top
<1> QED
  BY <1>1, <1>2, <1>3, <1>8, <1>9 DEF t

\* The steps of the fleet and of its callers keep the job well formed.
LEMMA JobStep ==
    ASSUME IInv, [Next]_vars PROVE FleetInv' /\ JobKept
<1>1. CASE UNCHANGED fleet
  <2>1. FleetInv'
    BY <1>1 DEF IInv, FleetInv, JobOK, fleet
  <2> QED
    BY <1>1, <2>1 DEF JobKept, fleet
<1>2. ASSUME NEW o \in Orders, JobMoves(o) PROVE FleetInv' /\ JobKept
  <2> USE DEF IInv, FleetInv
  <2> USE MissionAssumption
  <2>1. CASE Start(o)
    BY <2>1 DEF Start, JobKept, JobState, Over, JobOK
  <2>2. CASE FinishBlock(o)
    <3>1. done' = [done EXCEPT ![o] = @ + 1] /\ segs' = segs /\ rds[o] = "RUNNING"
      BY <2>2 DEF FinishBlock
    <3>2. rds' \in [Orders -> JobState] /\ \A p \in Orders : p # o => rds'[p] = rds[p]
      BY <2>2 DEF FinishBlock, JobState
    <3>3. /\ rds'[o] # "CREATED"
          /\ rds'[o] = "RUNNING" => done[o] + 1 < Len(segs[o])
          /\ rds'[o] = "FINISHED" => Sealed(o)
      BY <2>2 DEF FinishBlock
    <3>4. JobOK(o)'
      BY <3>1, <3>3 DEF Sealed, JobOK
    <3>5. \A p \in Orders : p # o => JobOK(p)'
      BY <3>1, <3>2 DEF JobOK
    <3>6. segs' \in [Orders -> Seq(Nat)] /\ done' \in [Orders -> Nat]
      BY <3>1
    <3>7. FleetInv'
      BY <3>2, <3>4, <3>5, <3>6
    <3> QED
      BY <3>1, <3>2, <3>7 DEF JobKept, Over
  <2>3. CASE Fault(o)
    BY <2>3 DEF Fault, JobKept, JobState, Over, JobOK
  <2>4. CASE Recover(o)
    BY <2>4 DEF Recover, JobKept, JobState, Over, JobOK
  <2>5. CASE StopAtFleet(o)
    BY <2>5 DEF StopAtFleet, JobKept, JobState, Over, JobOK
  <2>6. CASE CancelBegin(o)
    BY <2>6 DEF CancelBegin, JobKept, JobState, Over, JobOK
  <2>7. CASE StopExpired /\ o = cur
    BY <2>7 DEF StopExpired, TerminateJob, JobKept, JobState, Over, JobOK
  <2>8. CASE AppendSegment /\ o = rel.ord
    <3>1. /\ rel.idx \in Nat /\ rel.idx < Waits[o]
          /\ \E i \in 1..Len(segs[o]) : segs[o][i] >= rel.idx
      BY <2>8 DEF ReleaseInv, AppendSegment, Given
    <3>2. PICK n \in 0..Waits[o] : Top(segs[o], n)
      BY DEF JobOK
    <3>3. segs[o] \in Seq(Nat) /\ n \in Nat /\ Waits[o] \in Nat
      BY <3>2
    <3>4. /\ segs' = [segs EXCEPT ![o] = Append(@, rel.idx + 1)] /\ done' = done
          /\ rds' = IF rds[o] = "WAITING" THEN [rds EXCEPT ![o] = "RUNNING"] ELSE rds
          /\ rds[o] \in {"RUNNING", "WAITING", "FAILED"}
      BY <2>8 DEF AppendSegment
    <3> HIDE DEF IInv, FleetInv
    <3> DEFINE t == Append(segs[o], rel.idx + 1)
    <3>5. /\ t \in Seq(Nat) /\ Len(t) = Len(segs[o]) + 1
          /\ \A i \in 1..Len(segs[o]) : t[i] = segs[o][i]
          /\ rel.idx <= n
          /\ IF rel.idx = n THEN Top(t, n + 1) ELSE Top(t, n)
      BY <3>1, <3>2, <3>3, AppendTop
    <3>6. segs' = [segs EXCEPT ![o] = t]
      BY <3>4
    <3> HIDE DEF t
    <3>7. \E m \in 0..Waits[o] : Top(t, m)
      <4>1. CASE rel.idx = n
        <5>1. n + 1 \in 0..Waits[o]
          <6>1. n < Waits[o]
            BY <3>1, <4>1
          <6> QED
            BY <3>3, <6>1
        <5>2. Top(t, n + 1)
          BY <3>5, <4>1
        <5> QED
          BY <5>1, <5>2
      <4>2. CASE rel.idx # n
        BY <3>2, <3>5, <4>2
      <4> QED
        BY <4>1, <4>2
    <3> USE DEF IInv, FleetInv
    <3>8. segs' \in [Orders -> Seq(Nat)] /\ segs'[o] = t
          /\ \A p \in Orders : p # o => segs'[p] = segs[p]
      BY <3>5, <3>6
    <3>9. rds' \in [Orders -> JobState] /\ rds'[o] \in {"RUNNING", "FAILED"}
          /\ \A p \in Orders : p # o => rds'[p] = rds[p]
      BY <3>4 DEF JobState
    <3>10. JobOK(o)'
      <4>1. done'[o] < Len(segs'[o])
        BY <3>3, <3>4, <3>5, <3>8 DEF JobOK
      <4>2. \E m \in 0..Waits[o] : Top(segs'[o], m)
        BY <3>7, <3>8
      <4>3. done'[o] \in Nat /\ Len(segs'[o]) \in Nat
        BY <3>4, <3>8
      <4> QED
        BY <3>9, <4>1, <4>2, <4>3 DEF JobOK
    <3>11. \A p \in Orders : p # o => JobOK(p)'
      BY <3>4, <3>8, <3>9 DEF JobOK
    <3>12. FleetInv'
      BY <3>4, <3>8, <3>9, <3>10, <3>11
    <3>13. \A i \in 1..Len(segs[o]) : i \in 1..Len(segs'[o]) /\ segs'[o][i] = segs[o][i]
      BY <3>3, <3>5, <3>8
    <3>14. JobKept
      BY <3>4, <3>8, <3>9, <3>13 DEF JobKept, Over
    <3> QED
      BY <3>12, <3>14
  <2> QED
    BY <1>2, <2>1, <2>2, <2>3, <2>4, <2>5, <2>6, <2>7, <2>8 DEF JobMoves, Fleet
<1> QED
  BY <1>1, <1>2, FleetFrame

-----------------------------------------------------------------------------
(* The order row.                                                          *)

Open == {"dispatched", "in_transit", "staged", "faulted"}

\* The engine has heard of the finished blocks, but for those it missed.
Told(o) == 1..done[o] \subseteq reported[o] \cup missed[o]

\* The status moves of one order that a step may make.
Rebooks(o, s) ==
    /\ status' = [status EXCEPT ![o] = s]
    /\ \/ s = status[o]
       \/ status[o] \in Open /\ s \in Open \cup {"failed", "cancelled"}
       \/ status[o] \in Open /\ s = "delivered" /\ rds[o] = "FINISHED" /\ Told(o)
       \/ status[o] = "delivered" /\ s \in {"confirmed", "failed", "cancelled"}

\* Ending an order is such a move.
LEMMA TerminalizeRebooks ==
    ASSUME IInv, NEW o \in Orders, NEW to \in {"failed", "cancelled"}, Terminalize(o, to)
    PROVE  \E s \in Booked : Rebooks(o, s)
<1>1. status \in [Orders -> Booked] /\ status[o] \in Booked
  BY DEF IInv, RowInv
<1>2. CASE IsTerminal(status[o])
  <2>1. Rebooks(o, status[o])
    BY <1>1, <1>2 DEF Terminalize, Rebooks
  <2> QED
    BY <1>1, <2>1
<1>3. CASE ~IsTerminal(status[o])
  <2>1. Rebooks(o, to)
    BY <1>1, <1>3 DEF Terminalize, Rebooks, IsTerminal, Terminal, Booked, Open
  <2> QED
    BY <2>1 DEF Booked
<1> QED
  BY <1>2, <1>3

\* Every step leaves the statuses alone or moves one of them.
LEMMA StatusStep ==
    ASSUME IInv, [Next]_vars
    PROVE  UNCHANGED status \/ \E o \in Orders, s \in Booked : Rebooks(o, s)
<1> USE DEF row
<1>1. CASE UNCHANGED vars
  BY <1>1 DEF vars
<1>2. CASE PollStep
  <2>1. CASE HandleGraceExpired
    <3>1. cur \in Orders
      BY <2>1 DEF HandleGraceExpired, IInv, CycleInv
    <3> QED
      BY <2>1, <3>1, TerminalizeRebooks DEF HandleGraceExpired
  <2>2. CASE MarkStatus
    <3>1. cur \in Orders /\ status \in [Orders -> Booked]
          /\ (got.st = "FINISHED" => rds[cur] = "FINISHED" /\ Told(cur))
      BY <2>2 DEF MarkStatus, IInv, CycleInv, RowInv, Reading, Told
    <3> DEFINE to == MapState(got.st)
    <3>2. UNCHANGED status \/ (CanSwap(cur, loaded, to) /\ status' = [status EXCEPT ![cur] = to])
      BY <2>2 DEF MarkStatus
    <3>3. to \in {"in_transit", "staged", "faulted", "delivered"}
          /\ (to = "delivered" => got.st = "FINISHED")
      BY <2>2 DEF MarkStatus, MapState
    <3> HIDE DEF to
    <3>4. ASSUME CanSwap(cur, loaded, to) PROVE status[cur] \in Open
      <4>1. status[cur] \in Booked /\ status[cur] \in Live /\ to \in ValidTransitions[status[cur]]
        BY <3>1, <3>4 DEF CanSwap, IsValidTransition
      <4>2. status[cur] # "delivered"
        BY <3>3, <4>1 DEF ValidTransitions
      <4> QED
        BY <4>1, <4>2 DEF Booked, Live, Open
    <3>5. CanSwap(cur, loaded, to) /\ status' = [status EXCEPT ![cur] = to] => Rebooks(cur, to)
      BY <3>1, <3>3, <3>4 DEF Rebooks, Open
    <3> QED
      BY <3>1, <3>2, <3>3, <3>5 DEF Booked
  <2>3. CASE FleetOrderCancelled
    <3>1. cur \in Orders
      BY <2>3 DEF FleetOrderCancelled, IInv, CycleInv, Reading
    <3>2. UNCHANGED status \/ Terminalize(cur, "cancelled")
      BY <2>3 DEF FleetOrderCancelled
    <3> QED
      BY <3>1, <3>2, TerminalizeRebooks
  <2>4. CASE Poll \/ PollEnd \/ StopExpired \/ DiffBlockStates \/ Commit \/ LoadOrder
    BY <2>4 DEF Poll, PollEnd, StopExpired, DiffBlockStates, Commit, LoadOrder
  <2>5. CASE \E o \in Orders : GraceExpire(o) \/ GetOrderDetails(o)
    BY <2>5 DEF GraceExpire, GetOrderDetails
  <2> QED
    BY <1>2, <2>1, <2>2, <2>3, <2>4, <2>5 DEF PollStep
<1>3. CASE ReleaseStep
  <2>1. CASE ReleaseOrder
    <3>1. rel.ord \in Orders /\ status \in [Orders -> Booked] /\ rel.from \in {"staged", "in_transit"}
      BY <2>1 DEF ReleaseOrder, IInv, ReleaseInv, RowInv
    <3>2. UNCHANGED status \/ Rebooks(rel.ord, "in_transit")
      BY <2>1, <3>1 DEF ReleaseOrder, CanSwap, Rebooks, Open
    <3> QED
      BY <3>1, <3>2 DEF Booked
  <2>2. CASE AppendSegment \/ AppendRefused \/ UpdateOrderWaitIndex
    BY <2>2 DEF AppendSegment, AppendRefused, UpdateOrderWaitIndex
  <2> QED
    BY <1>3, <2>1, <2>2 DEF ReleaseStep
<1>4. CASE Crash \/ Restart
  BY <1>4 DEF Crash, Restart
<1>5. ASSUME NEW o \in Orders,
             Fleet(o) \/ DeadlinePasses(o) \/ HandleOrderRelease(o)
               \/ CancelBegin(o) \/ CancelEnd(o) \/ ConfirmReceipt(o)
      PROVE  UNCHANGED status \/ \E s \in Booked : Rebooks(o, s)
  <2>1. CASE CancelEnd(o)
    BY <2>1, TerminalizeRebooks DEF CancelEnd
  <2>2. CASE ConfirmReceipt(o)
    <3>1. Rebooks(o, "confirmed")
      BY <2>2 DEF ConfirmReceipt, Rebooks
    <3> QED
      BY <3>1 DEF Booked
  <2>3. CASE Fleet(o)
    BY <2>3 DEF Fleet, Start, FinishBlock, Fault, Recover, StopAtFleet
  <2>4. CASE DeadlinePasses(o) \/ HandleOrderRelease(o) \/ CancelBegin(o)
    BY <2>4 DEF DeadlinePasses, HandleOrderRelease, CancelBegin
  <2> QED
    BY <1>5, <2>1, <2>2, <2>3, <2>4
<1> QED
  BY <1>1, <1>2, <1>3, <1>4, <1>5 DEF Next

ReleaseMoves ==
    ReleaseStep \/ Crash \/ \E o \in Orders : HandleOrderRelease(o)

\* The wait index and the release in hand change in these steps only.
LEMMA ReleaseFrame ==
    ASSUME [Next]_vars
    PROVE  ReleaseMoves \/ UNCHANGED <<waitIndex, rpc, rel>>
<1> USE DEF row, release
<1>1. CASE UNCHANGED vars
  BY <1>1 DEF vars
<1>2. CASE PollStep
  <2>1. CASE Poll \/ PollEnd \/ HandleGraceExpired \/ StopExpired \/ DiffBlockStates \/ Commit
    BY <2>1 DEF Poll, PollEnd, HandleGraceExpired, StopExpired, DiffBlockStates, Commit
  <2>2. CASE LoadOrder \/ MarkStatus \/ FleetOrderCancelled
    BY <2>2 DEF LoadOrder, MarkStatus, FleetOrderCancelled
  <2>3. CASE \E o \in Orders : GraceExpire(o) \/ GetOrderDetails(o)
    BY <2>3 DEF GraceExpire, GetOrderDetails
  <2> QED
    BY <1>2, <2>1, <2>2, <2>3 DEF PollStep
<1>3. CASE Restart
  BY <1>3 DEF Restart
<1>4. ASSUME NEW o \in Orders,
             Fleet(o) \/ DeadlinePasses(o) \/ CancelBegin(o) \/ CancelEnd(o) \/ ConfirmReceipt(o)
      PROVE  UNCHANGED <<waitIndex, rpc, rel>>
  BY <1>4 DEF Fleet, Start, FinishBlock, Fault, Recover, StopAtFleet, DeadlinePasses,
              CancelBegin, CancelEnd, ConfirmReceipt
<1> QED
  BY <1>1, <1>2, <1>3, <1>4 DEF Next, ReleaseMoves

\* The order row stays well formed.
LEMMA RowStep == ASSUME IInv, [Next]_vars PROVE RowInv'
<1>1. status' \in [Orders -> Booked] /\ \A o \in Orders : status'[o] = "delivered" => rds'[o] = "FINISHED"
  <2>1. FleetInv /\ status \in [Orders -> Booked]
        /\ \A o \in Orders : status[o] = "delivered" => rds[o] = "FINISHED"
    BY DEF IInv, RowInv
  <2>2. JobKept
    BY JobStep
  <2>3. CASE UNCHANGED status
    BY <2>1, <2>2, <2>3 DEF JobKept, Over
  <2>4. ASSUME NEW o \in Orders, NEW s \in Booked, Rebooks(o, s) 
        PROVE  /\ status' \in [Orders -> Booked]
               /\ \A p \in Orders : status'[p] = "delivered" => rds'[p] = "FINISHED"
    BY <2>1, <2>2, <2>4 DEF JobKept, Over, Rebooks, Open
  <2> QED
    BY <2>3, <2>4, StatusStep
<1>2. waitIndex' \in [Orders -> Nat]
  <2> USE DEF IInv, RowInv, row
  <2>1. CASE UpdateOrderWaitIndex
    BY <2>1 DEF UpdateOrderWaitIndex, ReleaseInv
  <2>2. CASE AppendSegment \/ AppendRefused \/ ReleaseOrder \/ Crash
    BY <2>2 DEF AppendSegment, AppendRefused, ReleaseOrder, Crash
  <2>3. CASE \E o \in Orders : HandleOrderRelease(o)
    BY <2>3 DEF HandleOrderRelease
  <2> QED
    BY <2>1, <2>2, <2>3, ReleaseFrame DEF ReleaseMoves, ReleaseStep
<1> QED
  BY <1>1, <1>2 DEF RowInv

\* A release in hand is never ahead of the robot by more than its own segment.
LEMMA ReleaseStepInv == ASSUME IInv, [Next]_vars PROVE ReleaseInv'
<1>1. \A o \in Orders, k \in Nat : Given(o, k) => Given(o, k)'
  BY JobStep DEF JobKept, Given
<1>2. waitIndex \in [Orders -> Nat] /\ segs \in [Orders -> Seq(Nat)]
  BY DEF IInv, RowInv, FleetInv
<1>3. ReleaseInv
  BY DEF IInv
<1>4. CASE UNCHANGED <<waitIndex, rpc, rel>>
  BY <1>1, <1>2, <1>3, <1>4 DEF ReleaseInv
<1>5. CASE AppendSegment
  <2>1. Given(rel.ord, rel.idx + 1)'
    <3>1. rel.ord \in Orders /\ rel.idx \in Nat /\ segs[rel.ord] \in Seq(Nat)
      BY <1>2, <1>3, <1>5 DEF AppendSegment, ReleaseInv
    <3>2. rel' = rel /\ segs'[rel.ord] = Append(segs[rel.ord], rel.idx + 1)
      BY <1>2, <1>5, <3>1 DEF AppendSegment
    <3>3. /\ Len(segs'[rel.ord]) \in Nat /\ Len(segs'[rel.ord]) > 0
          /\ segs'[rel.ord][Len(segs'[rel.ord])] = rel.idx + 1
      BY <3>1, <3>2
    <3>4. \E i \in 1..Len(segs'[rel.ord]) : segs'[rel.ord][i] >= rel.idx + 1
      <4>1. Len(segs'[rel.ord]) \in 1..Len(segs'[rel.ord])
        BY <3>3
      <4>2. segs'[rel.ord][Len(segs'[rel.ord])] >= rel.idx + 1
        BY <3>1, <3>3
      <4> QED
        BY <4>1, <4>2, Zenon
    <3> QED
      BY <3>2, <3>4 DEF Given
  <2>2. rpc' = "index" /\ rel' = rel /\ waitIndex' = waitIndex /\ rpc = "append"
    BY <1>5 DEF AppendSegment, row
  <2> QED
    BY <1>1, <1>2, <1>3, <2>1, <2>2 DEF ReleaseInv
<1>6. CASE AppendRefused \/ ReleaseOrder \/ Crash
  <2>1. rpc' = "idle" /\ waitIndex' = waitIndex
    BY <1>6 DEF AppendRefused, ReleaseOrder, Crash, row
  <2> QED
    BY <1>1, <1>2, <1>3, <2>1 DEF ReleaseInv
<1>7. CASE UpdateOrderWaitIndex
  <2>1. UNCHANGED segs /\ rpc = "index"
    BY <1>7 DEF UpdateOrderWaitIndex, fleet
  <2>2. \/ waitIndex' = [waitIndex EXCEPT ![rel.ord] = rel.idx + 1] /\ rpc' = "move" /\ rel' = rel
        \/ waitIndex' = waitIndex /\ rpc' = "idle"
    BY <1>7 DEF UpdateOrderWaitIndex
  <2>3. rel.ord \in Orders /\ rel.idx \in Nat /\ Given(rel.ord, rel.idx + 1)
    BY <1>3, <2>1 DEF ReleaseInv
  <2>4. \A o \in Orders : Given(o, waitIndex[o])'
    <3>1. ASSUME NEW o \in Orders PROVE Given(o, waitIndex'[o])
      <4>1. waitIndex'[o] = waitIndex[o] \/ (o = rel.ord /\ waitIndex'[o] = rel.idx + 1)
        BY <1>2, <2>2, <2>3
      <4> QED
        BY <1>3, <2>3, <4>1 DEF ReleaseInv
    <3> QED
      BY <2>1, <3>1 DEF Given
  <2>5. CASE rpc' = "move" /\ rel' = rel
    BY <1>1, <1>3, <2>1, <2>3, <2>4, <2>5 DEF ReleaseInv
  <2>6. CASE rpc' = "idle"
    BY <2>4, <2>6 DEF ReleaseInv
  <2> QED
    BY <2>2, <2>5, <2>6
<1>8. ASSUME NEW o \in Orders, HandleOrderRelease(o) PROVE ReleaseInv'
  <2>1. /\ rel' = [ord |-> o, from |-> status[o], idx |-> waitIndex[o]] /\ rpc' = "append"
        /\ waitIndex' = waitIndex /\ segs' = segs
        /\ status[o] \in {"staged", "in_transit"} /\ waitIndex[o] < Waits[o]
    BY <1>8 DEF HandleOrderRelease, row, fleet
  <2> QED
    BY <1>2, <1>3, <2>1 DEF ReleaseInv, Given
<1> QED
  BY <1>4, <1>5, <1>6, <1>7, <1>8, ReleaseFrame DEF ReleaseMoves, ReleaseStep

-----------------------------------------------------------------------------
(* The poller.                                                             *)

CycleMoves ==
    \/ PollStep \/ Crash \/ Restart \/ \E o \in Orders : DeadlinePasses(o)

\* The poller's maps, its cycle and what it has reported change in these steps
\* only.
LEMMA CycleFrame ==
    ASSUME [Next]_vars
    PROVE  CycleMoves \/ UNCHANGED <<tracker, cycle, up, history>>
<1>1. CASE UNCHANGED vars
  BY <1>1 DEF vars
<1>2. CASE ReleaseStep
  BY <1>2 DEF ReleaseStep, AppendSegment, AppendRefused, UpdateOrderWaitIndex, ReleaseOrder
<1>3. ASSUME NEW o \in Orders,
             Fleet(o) \/ HandleOrderRelease(o) \/ CancelBegin(o) \/ CancelEnd(o) \/ ConfirmReceipt(o)
      PROVE  UNCHANGED <<tracker, cycle, up, history>>
  BY <1>3 DEF Fleet, Start, FinishBlock, Fault, Recover, StopAtFleet, HandleOrderRelease,
              CancelBegin, CancelEnd, ConfirmReceipt
<1> QED
  BY <1>1, <1>2, <1>3 DEF Next, CycleMoves

\* The poller's maps stay well formed: blocks seen were reported or missed.
LEMMA TrackStep == ASSUME IInv, [Next]_vars PROVE TrackInv'
<1> USE DEF IInv, TrackInv
<1>1. CASE UNCHANGED <<tracker, history>>
  BY <1>1 DEF tracker, history
<1>2. CASE Poll \/ PollEnd \/ StopExpired
  BY <1>1, <1>2 DEF Poll, PollEnd, StopExpired
<1>3. CASE HandleGraceExpired \/ LoadOrder \/ MarkStatus \/ FleetOrderCancelled
  <2>1. UNCHANGED <<tracker, reported, missed>>
    BY <1>3 DEF HandleGraceExpired, LoadOrder, MarkStatus, FleetOrderCancelled
  <2> QED
    BY <2>1 DEF tracker
<1>4. CASE DiffBlockStates
  <2>1. cur \in Orders /\ got.done \in Nat
    BY <1>4 DEF DiffBlockStates, CycleInv, Reading
  <2>2. /\ seen' = [seen EXCEPT ![cur] = got.done] /\ UNCHANGED <<active, deadline>>
        /\ \/ reported' = [reported EXCEPT ![cur] = @ \cup Fresh] /\ missed' = missed
           \/ missed' = [missed EXCEPT ![cur] = @ \cup Fresh] /\ reported' = reported
    BY <1>4 DEF DiffBlockStates
  <2>3. Fresh \subseteq Int /\ 1..got.done \subseteq 1..seen[cur] \cup Fresh
    BY <2>1 DEF Fresh
  <2> HIDE DEF Fresh
  <2>4. reported' \in [Orders -> SUBSET Int] /\ missed' \in [Orders -> SUBSET Int]
    BY <2>2, <2>3
  <2>5. \A p \in Orders : 1..seen'[p] \subseteq reported'[p] \cup missed'[p]
    BY <2>1, <2>2, <2>3
  <2> QED
    BY <2>1, <2>2, <2>4, <2>5
<1>5. CASE Commit
  <2>1. cur \in Orders /\ got.st \in JobState
    BY <1>5 DEF Commit, CycleInv, Reading
  <2>2. UNCHANGED <<reported, missed>>
    BY <1>5 DEF Commit, history
  <2>3. CASE Drop(cur)
    BY <2>1, <2>2, <2>3 DEF Drop
  <2>4. CASE ~Drop(cur)
    BY <1>5, <2>1, <2>2, <2>4 DEF Commit
  <2> QED
    BY <2>3, <2>4
<1>6. ASSUME NEW o \in Orders, GraceExpire(o) PROVE TrackInv'
  BY <1>6 DEF GraceExpire, Drop
<1>7. ASSUME NEW o \in Orders, GetOrderDetails(o) PROVE TrackInv'
  BY <1>1, <1>7 DEF GetOrderDetails
<1>8. CASE Crash
  BY <1>8 DEF Crash, history
<1>9. CASE Restart
  BY <1>9 DEF Restart, JobState
<1>10. ASSUME NEW o \in Orders, DeadlinePasses(o) PROVE TrackInv'
  BY <1>10 DEF DeadlinePasses, history
<1> QED
  BY <1>1, <1>2, <1>3, <1>4, <1>5, <1>6, <1>7, <1>8, <1>9, <1>10, CycleFrame DEF CycleMoves, PollStep

\* A terminal status stays terminal.
LEMMA TerminalKept ==
    ASSUME IInv, [Next]_vars, NEW o \in Orders, IsTerminal(status[o])
    PROVE  IsTerminal(status'[o])
<1>1. status \in [Orders -> Booked]
  BY DEF IInv, RowInv
<1>2. ASSUME NEW p \in Orders, NEW s \in Booked, Rebooks(p, s) PROVE IsTerminal(status'[o])
  BY <1>1, <1>2 DEF Rebooks, IsTerminal, Terminal, Open
<1> QED
  BY <1>2, StatusStep

\* The steps that leave the poll cycle where it is.
LEMMA CycleRests ==
    ASSUME IInv, [Next]_vars, UNCHANGED <<ppc, cur, todo, expired, got, loaded>>,
           UNCHANGED <<active, reported, missed>> \/ ppc = "idle"
    PROVE  CycleInv'
<1>1. CycleInv /\ JobKept
  BY JobStep DEF IInv
<1>2. CASE ppc \in {"idle", "poll"}
  BY <1>1, <1>2 DEF CycleInv, Reading
<1>3. CASE ppc \notin {"idle", "poll"}
  <2>1. cur \in Orders
    BY <1>1, <1>3 DEF CycleInv
  <2>2. IsTerminal(status[cur]) => IsTerminal(status'[cur])
    BY <2>1, TerminalKept
  <2>3. rds[cur] = "FINISHED" => rds'[cur] = "FINISHED" /\ done'[cur] = done[cur]
    BY <1>1, <2>1 DEF JobKept, Over
  <2> QED
    BY <1>1, <1>3, <2>1, <2>2, <2>3 DEF CycleInv, Reading, IsTerminal, Over
<1> QED
  BY <1>2, <1>3

\* The poll cycle keeps its promise about the reading in hand.
LEMMA CycleStep == ASSUME IInv, [Next]_vars PROVE CycleInv'
<1> USE DEF IInv
<1>1. CASE UNCHANGED <<tracker, cycle, up, history>>
  BY <1>1, CycleRests DEF tracker, cycle, history
<1>2. ASSUME NEW o \in Orders, DeadlinePasses(o) PROVE CycleInv'
  BY <1>2, CycleRests DEF DeadlinePasses, cycle, history
<1>3. CASE Restart
  BY <1>3, CycleRests DEF Restart, cycle, DownInv
<1>4. CASE Crash
  BY <1>4 DEF Crash, CycleInv, Reading, NoAnswer, JobState
<1>5. CASE Poll
  BY <1>5 DEF Poll, CycleInv, Reading
<1>13. CASE PollEnd
  <2>1. /\ ppc' = "idle" /\ got' = NoAnswer /\ UNCHANGED <<todo, expired>>
    BY <1>13 DEF PollEnd
  <2>2. NoAnswer \in [st : JobState, done : Nat]
    BY DEF NoAnswer, JobState
  <2>3. todo \subseteq Orders /\ expired \subseteq Orders
    BY DEF CycleInv
  <2> QED
    BY <2>1, <2>2, <2>3 DEF CycleInv, Reading
<1>6. CASE HandleGraceExpired \/ StopExpired
  BY <1>6 DEF HandleGraceExpired, StopExpired, CycleInv, Reading
<1>7. CASE DiffBlockStates
  <2>1. /\ ppc = "diff" /\ ppc' \in {"commit", "poll"}
        /\ UNCHANGED <<rds, done, cur, todo, expired, got>>
        /\ cur \in Orders /\ got.done \in Nat
    BY <1>7 DEF DiffBlockStates, CycleInv, Reading, fleet
  <2>2. ASSUME ppc' = "commit" PROVE 1..got.done \subseteq reported'[cur] \cup missed'[cur]
    <3>1. seen'[cur] = got.done
      BY <1>7, <2>1 DEF DiffBlockStates, TrackInv
    <3> QED
      BY <2>1, <3>1, TrackStep DEF TrackInv
  <2> QED
    BY <2>1, <2>2 DEF CycleInv, Reading
<1>8. CASE Commit
  <2>1. /\ ppc = "commit" /\ ppc' = "load"
        /\ UNCHANGED <<rds, done, cur, todo, expired, got, reported, missed>>
        /\ cur \in Orders /\ got.st \in JobState
    BY <1>8 DEF Commit, CycleInv, Reading, fleet, history
  <2>2. ~Over(got.st) => active'[cur] = got.st
    BY <1>8, <2>1 DEF Commit, TrackInv
  <2>3. got.st # None
    BY <2>1, MissionAssumption
  <2> QED
    BY <2>1, <2>2, <2>3 DEF CycleInv, Reading, Over
<1>9. CASE LoadOrder
  BY <1>9 DEF LoadOrder, CycleInv, Reading, fleet, tracker, history, row, IsTerminal, Over
<1>10. CASE MarkStatus \/ FleetOrderCancelled
  BY <1>10 DEF MarkStatus, FleetOrderCancelled, CycleInv, Reading
<1>11. ASSUME NEW o \in Orders, GraceExpire(o) PROVE CycleInv'
  BY <1>11 DEF GraceExpire, CycleInv, Reading
<1>12. ASSUME NEW o \in Orders, GetOrderDetails(o) PROVE CycleInv'
  <2>1. /\ ppc = "poll" /\ todo' = todo \ {o} /\ UNCHANGED <<expired, rds, done>>
    BY <1>12 DEF GetOrderDetails, fleet
  <2>2. \/ /\ ppc' \in {"diff", "poll"} /\ cur' = o /\ got' = [st |-> rds[o], done |-> done[o]]
        \/ UNCHANGED <<ppc, got>>
    BY <1>12 DEF GetOrderDetails
  <2>3. todo' \subseteq Orders /\ expired' \subseteq Orders /\ got \in [st : JobState, done : Nat]
    BY <2>1 DEF CycleInv
  <2>4. [st |-> rds[o], done |-> done[o]] \in [st : JobState, done : Nat]
    BY DEF FleetInv
  <2>5. CASE ppc' \in {"diff", "poll"} /\ cur' = o /\ got' = [st |-> rds[o], done |-> done[o]]
    BY <2>1, <2>3, <2>4, <2>5 DEF CycleInv, Reading
  <2>6. CASE UNCHANGED <<ppc, got>>
    BY <2>1, <2>3, <2>6 DEF CycleInv, Reading
  <2> QED
    BY <2>2, <2>5, <2>6
<1> QED
  BY <1>1, <1>2, <1>3, <1>4, <1>5, <1>6, <1>7, <1>8, <1>9, <1>10, <1>11, <1>12, <1>13, CycleFrame
     DEF CycleMoves, PollStep

\* While Core is down nothing is in hand and no deadline runs.
LEMMA DownStep == ASSUME IInv, [Next]_vars PROVE DownInv'
<1> USE DEF IInv, DownInv
<1>1. CASE Crash \/ Restart
  BY <1>1 DEF Crash, Restart
<1>2. ASSUME ~Crash, ~Restart PROVE UNCHANGED up
  <2>1. CASE PollStep
    BY <2>1 DEF PollStep, Poll, PollEnd, HandleGraceExpired, StopExpired, DiffBlockStates, Commit,
                LoadOrder, MarkStatus, FleetOrderCancelled, GraceExpire, GetOrderDetails
  <2>2. CASE \E o \in Orders : DeadlinePasses(o)
    BY <2>2 DEF DeadlinePasses
  <2> QED
    BY <1>2, <2>1, <2>2, CycleFrame DEF CycleMoves
<1>3. ASSUME ~Crash, ~Restart, ~up PROVE UNCHANGED <<ppc, rpc, deadline>>
  <2>1. ~PollStep
    BY <1>3 DEF PollStep, Poll, PollEnd, HandleGraceExpired, StopExpired, DiffBlockStates, Commit,
                LoadOrder, MarkStatus, FleetOrderCancelled, GraceExpire, GetOrderDetails
  <2>2. ~\E o \in Orders : DeadlinePasses(o)
    BY <1>3 DEF DeadlinePasses
  <2>3. ~ReleaseMoves
    BY <1>3 DEF ReleaseMoves, ReleaseStep, AppendSegment, AppendRefused, UpdateOrderWaitIndex,
                ReleaseOrder, HandleOrderRelease
  <2> QED
    BY <1>3, <2>1, <2>2, <2>3, CycleFrame, ReleaseFrame DEF CycleMoves, tracker, cycle
<1> QED
  BY <1>1, <1>2, <1>3

\* A job just created satisfies the invariant.
LEMMA InitIInv == Init => IInv
<1> SUFFICES ASSUME Init PROVE IInv
  OBVIOUS
<1> USE DEF Init
<1>1. /\ <<0>> \in Seq(Nat) /\ Len(<<0>>) = 1
      /\ \A i \in 1..Len(<<0>>) : i = 1 /\ <<0>>[i] = 0
  OBVIOUS
<1>2. Top(<<0>>, 0)
  BY <1>1 DEF Top
<1>3. ASSUME NEW o \in Orders PROVE JobOK(o) /\ Given(o, waitIndex[o])
  <2>1. Waits[o] \in Nat /\ 0 \in 0..Waits[o]
    BY MissionAssumption
  <2>2. segs[o] = <<0>> /\ done[o] = 0 /\ rds[o] = "CREATED" /\ waitIndex[o] = 0
    OBVIOUS
  <2> QED
    BY <1>1, <1>2, <2>1, <2>2 DEF JobOK, Given
<1>4. FleetInv
  BY <1>1, <1>3 DEF FleetInv, JobState
<1>5. TrackInv
  BY DEF TrackInv, JobState
<1>6. CycleInv
  BY DEF CycleInv, Reading, NoAnswer, JobState
<1>7. RowInv
  BY DEF RowInv, Booked
<1>8. ReleaseInv
  BY <1>3 DEF ReleaseInv
<1>9. DownInv
  BY DEF DownInv
<1> QED
  BY <1>4, <1>5, <1>6, <1>7, <1>8, <1>9 DEF IInv

\* Every step keeps the invariant.
LEMMA Inductive == IInv /\ [Next]_vars => IInv'
BY JobStep, TrackStep, CycleStep, RowStep, ReleaseStepInv, DownStep DEF IInv

\* The invariant holds always.
LEMMA AlwaysIInv == Spec => []IInv
BY InitIInv, Inductive, PTL DEF Spec

-----------------------------------------------------------------------------
(* The properties.                                                         *)

\* A fault deadline runs only for a tracked job last read as FAILED, for any
\* number of jobs (poll, checkGraceExpiry, loadActiveOrders).
THEOREM DeadlineOfThisFault == Spec => []DeadlineIsCurrent
<1>1. Init => DeadlineIsCurrent
  BY DEF Init, DeadlineIsCurrent
<1>2. IInv /\ DeadlineIsCurrent /\ [Next]_vars => DeadlineIsCurrent'
  <2> SUFFICES ASSUME IInv, DeadlineIsCurrent, [Next]_vars PROVE DeadlineIsCurrent'
    OBVIOUS
  <2> USE DEF DeadlineIsCurrent, IInv, TrackInv
  <2>1. CASE UNCHANGED tracker
    BY <2>1 DEF tracker
  <2>2. CASE Poll \/ PollEnd \/ HandleGraceExpired \/ StopExpired \/ LoadOrder
    BY <2>1, <2>2 DEF Poll, PollEnd, HandleGraceExpired, StopExpired, LoadOrder
  <2>3. CASE MarkStatus \/ FleetOrderCancelled
    BY <2>1, <2>3 DEF MarkStatus, FleetOrderCancelled
  <2>4. CASE DiffBlockStates
    BY <2>4 DEF DiffBlockStates
  <2>5. CASE Commit
    BY <2>5 DEF Commit, Drop
  <2>6. ASSUME NEW o \in Orders, GraceExpire(o) \/ GetOrderDetails(o) \/ DeadlinePasses(o)
        PROVE  DeadlineIsCurrent'
    BY <2>6 DEF GraceExpire, Drop, GetOrderDetails, DeadlinePasses, tracker
  <2>7. CASE Crash \/ Restart
    BY <2>7 DEF Crash, Restart, DownInv
  <2> QED
    BY <2>1, <2>2, <2>3, <2>4, <2>5, <2>6, <2>7, CycleFrame DEF CycleMoves, PollStep
<1> QED
  BY <1>1, <1>2, AlwaysIInv, PTL DEF Spec

\* Reports are not taken back.
LEMMA HistoryGrows ==
    ASSUME IInv, [Next]_vars, NEW o \in Orders
    PROVE  reported[o] \subseteq reported'[o] /\ missed[o] \subseteq missed'[o]
<1>1. CASE UNCHANGED <<reported, missed>>
  BY <1>1
<1>2. CASE DiffBlockStates
  BY <1>2 DEF DiffBlockStates, IInv, TrackInv
<1>3. CASE Poll \/ PollEnd \/ HandleGraceExpired \/ StopExpired \/ LoadOrder \/ Commit
  BY <1>1, <1>3 DEF Poll, PollEnd, HandleGraceExpired, StopExpired, LoadOrder, Commit, history
<1>4. CASE MarkStatus \/ FleetOrderCancelled \/ Crash \/ Restart
  BY <1>1, <1>4 DEF MarkStatus, FleetOrderCancelled, Crash, Restart, history
<1>5. CASE \E p \in Orders : GraceExpire(p) \/ GetOrderDetails(p) \/ DeadlinePasses(p)
  BY <1>1, <1>5 DEF GraceExpire, GetOrderDetails, DeadlinePasses, history
<1> QED
  BY <1>1, <1>2, <1>3, <1>4, <1>5, CycleFrame DEF CycleMoves, PollStep, history

\* When an order is booked delivered, every finished block of its job was
\* reported or missed first, for any number of orders and waits
\* (diffBlockStates before the change of state).
THEOREM BlocksFirst == Spec => []BlocksBeforeDelivery
<1>1. Init => BlocksBeforeDelivery
  BY DEF Init, BlocksBeforeDelivery
<1>2. IInv /\ BlocksBeforeDelivery /\ [Next]_vars => BlocksBeforeDelivery'
  <2> SUFFICES ASSUME IInv, BlocksBeforeDelivery, [Next]_vars,
                      NEW o \in Orders, status'[o] = "delivered"
               PROVE  Told(o)'
    BY DEF BlocksBeforeDelivery, Told
  <2>1. status \in [Orders -> Booked]
    BY DEF IInv, RowInv
  <2>2. rds[o] = "FINISHED" /\ Told(o)
    <3>1. CASE status[o] = "delivered"
      BY <3>1 DEF IInv, RowInv, BlocksBeforeDelivery, Told
    <3>2. ASSUME NEW p \in Orders, NEW s \in Booked, Rebooks(p, s), status[o] # "delivered"
          PROVE  rds[o] = "FINISHED" /\ Told(o)
      BY <2>1, <3>2 DEF Rebooks, Open
    <3> QED
      BY <3>1, <3>2, StatusStep
  <2>3. done'[o] = done[o]
    BY <2>2, JobStep DEF JobKept, Over
  <2> QED
    BY <2>2, <2>3, HistoryGrows DEF Told
<1> QED
  BY <1>1, <1>2, AlwaysIInv, PTL DEF Spec

\* A live job is polled, or its reading is in hand, or it is known to have
\* fallen out, for any number of orders and restarts (loadActiveOrders, poll,
\* checkGraceExpiry).
THEOREM AlwaysWatched == Spec => []WatchedWhileLive
<1>1. Init => WatchedWhileLive
  BY MissionAssumption DEF Init, WatchedWhileLive, Tracked, JobState
<1>2. IInv /\ WatchedWhileLive /\ [Next]_vars => WatchedWhileLive'
  <2> SUFFICES ASSUME IInv, WatchedWhileLive, [Next]_vars,
                      NEW o \in Orders, up', IsVendorTracked(status'[o])
               PROVE  \/ active'[o] # None \/ o \in unheard'
                      \/ cur' = o /\ ppc' \in {"expire", "load", "apply"}
    BY DEF WatchedWhileLive, Tracked
  <2>1. status \in [Orders -> Booked] /\ active \in [Orders -> JobState \cup {None}]
    BY DEF IInv, RowInv, TrackInv
  <2>2. IsVendorTracked(status[o])
    <3>1. ASSUME NEW p \in Orders, NEW s \in Booked, Rebooks(p, s) PROVE IsVendorTracked(status[o])
      BY <2>1, <3>1 DEF Rebooks, Open, IsVendorTracked
    <3> QED
      BY <3>1, StatusStep
  <2>3. CASE Restart
    BY <2>2, <2>3, MissionAssumption DEF Restart, row, JobState
  <2>4. CASE Crash
    BY <2>4 DEF Crash
  <2> DEFINE Seen == \/ active[o] # None \/ o \in unheard
                     \/ cur = o /\ ppc \in {"expire", "load", "apply"}
  <2>5. ASSUME ~Restart PROVE up
    <3>1. CASE CycleMoves
      BY <2>5, <3>1, <2>4 DEF CycleMoves, PollStep, Poll, PollEnd, HandleGraceExpired, StopExpired,
            LoadOrder, Commit, DiffBlockStates, MarkStatus, FleetOrderCancelled, GraceExpire,
            GetOrderDetails, DeadlinePasses, Crash
    <3> QED
      BY <3>1, CycleFrame
  <2>6. ASSUME ~Restart PROVE Seen
    BY <2>2, <2>5, <2>6 DEF WatchedWhileLive, Tracked
  <2> HIDE DEF Seen
  <2>7. CASE UNCHANGED <<tracker, cycle, up, history>> /\ ~Restart
    BY <2>6, <2>7 DEF tracker, cycle, history, Seen
  <2>8. ASSUME NEW p \in Orders, DeadlinePasses(p), ~Restart PROVE Seen'
    BY <2>6, <2>8 DEF DeadlinePasses, cycle, history, Seen
  <2>9. CASE PollStep /\ ~Restart
    <3> USE <2>6, <2>9
    <3> USE DEF Seen, IInv, CycleInv, tracker, history
    <3>1. CASE Poll \/ PollEnd \/ StopExpired
      BY <3>1 DEF Poll, PollEnd, StopExpired
    <3>2. CASE DiffBlockStates
      BY <3>2 DEF DiffBlockStates
    <3>3. CASE Commit
      BY <2>1, <3>3, MissionAssumption DEF Commit, Drop, Reading
    <3>4. CASE HandleGraceExpired
      BY <2>1, <2>2, <3>4 DEF HandleGraceExpired, Terminalize, IsVendorTracked, IsTerminal, Terminal
    <3>5. CASE LoadOrder
      BY <2>2, <3>5 DEF LoadOrder, GiveUp, MapState, IsVendorTracked, Over, Reading, JobState
    <3>6. CASE MarkStatus
      BY <2>1, <2>2, <3>6 DEF MarkStatus, GiveUp, Over, Reading, MapState, IsVendorTracked
    <3>7. CASE FleetOrderCancelled
      BY <2>1, <2>2, <3>7 DEF FleetOrderCancelled, GiveUp, Terminalize, Reading, Over, IsVendorTracked,
                              IsTerminal, Terminal
    <3>8. ASSUME NEW p \in Orders, GraceExpire(p) PROVE Seen'
      BY <2>1, <3>8 DEF GraceExpire, Drop
    <3>9. ASSUME NEW p \in Orders, GetOrderDetails(p) PROVE Seen'
      BY <3>9 DEF GetOrderDetails
    <3> QED
      BY <3>1, <3>2, <3>3, <3>4, <3>5, <3>6, <3>7, <3>8, <3>9 DEF PollStep
  <2> QED
    BY <2>3, <2>4, <2>7, <2>8, <2>9, CycleFrame DEF CycleMoves, Seen
<1> QED
  BY <1>1, <1>2, AlwaysIInv, PTL DEF Spec

-----------------------------------------------------------------------------
(* Each segment once.                                                      *)

UsedInv == used \in [Kinds -> Nat]

\* Disturbances are counted up.
LEMMA UsedStep ==
    ASSUME UsedInv, [Next]_vars
    PROVE  UsedInv' /\ \A k \in Kinds : used'[k] >= used[k]
<1> DEFINE Counts == UsedInv' /\ \A k \in Kinds : used'[k] >= used[k]
<1> USE DEF UsedInv
<1>1. UNCHANGED used => Counts
  OBVIOUS
<1>2. ASSUME NEW k \in Kinds, Spend(k) PROVE Counts
  BY <1>2 DEF Spend
<1>3. {"answer", "resolve", "load", "refuse", "write", "persist", "fault", "stop", "crash",
       "cancel", "release"} = Kinds
  BY DEF Kinds
<1> HIDE DEF Counts
<1> SUFFICES Counts
  BY DEF Counts
<1>4. CASE UNCHANGED vars
  BY <1>1, <1>4 DEF vars
<1>5. CASE PollStep
  BY <1>1, <1>2, <1>3, <1>5 DEF PollStep, Poll, PollEnd, HandleGraceExpired, StopExpired, TerminateJob,
     LoadOrder, Commit, DiffBlockStates, MarkStatus, FleetOrderCancelled, GraceExpire, GetOrderDetails
<1>6. CASE ReleaseStep
  BY <1>1, <1>2, <1>3, <1>6 DEF ReleaseStep, AppendSegment, AppendRefused, UpdateOrderWaitIndex, ReleaseOrder
<1>7. CASE Crash \/ Restart
  BY <1>1, <1>2, <1>3, <1>7 DEF Crash, Restart
<1>8. ASSUME NEW o \in Orders, Fleet(o) \/ DeadlinePasses(o) \/ HandleOrderRelease(o) \/ CancelEnd(o)
                                 \/ ConfirmReceipt(o)
      PROVE  Counts
  BY <1>1, <1>2, <1>3, <1>8 DEF Fleet, Start, FinishBlock, Fault, Recover, StopAtFleet, DeadlinePasses,
     HandleOrderRelease, CancelEnd, ConfirmReceipt
<1>9. ASSUME NEW o \in Orders, CancelBegin(o) PROVE Counts
  BY <1>3, <1>9 DEF CancelBegin, Counts
<1> QED
  BY <1>4, <1>5, <1>6, <1>7, <1>8, <1>9 DEF Next

Torn == used["write"] + used["crash"] > 0

\* The segments an order's robot has beyond the row's wait index.
Ahead(o) == IF rpc = "index" /\ rel.ord = o THEN 1 ELSE 0

\* The robot has segments 0, 1, ..., n - 1, once each.
Even(o, n) == Len(segs[o]) = n /\ \A i \in 1..n : segs[o][i] = i - 1

\* Each robot has the segments up to the wait index, and one more while the
\* index is being written.
InStep ==
    /\ rpc \in {"append", "index"} => rel.idx = waitIndex[rel.ord]
    /\ \A o \in Orders : Even(o, waitIndex[o] + 1 + Ahead(o))

Tally == UsedInv /\ (Torn \/ InStep)

\* A step of an unbroken history keeps the robots in step with the rows.
LEMMA InStepKept ==
    ASSUME IInv, UsedInv, InStep, [Next]_vars, ~Torn' PROVE InStep'
<1>1. UsedInv' /\ \A k \in Kinds : used'[k] >= used[k]
  BY UsedStep
<1>2. /\ used["write"] \in Nat /\ used["crash"] \in Nat
      /\ used'["write"] = 0 /\ used'["crash"] = 0
  BY <1>1 DEF Torn, UsedInv, Kinds
<1>3. ~Spend("write") /\ ~Spend("crash")
  BY <1>2 DEF Spend, UsedInv, Kinds
<1>4. waitIndex \in [Orders -> Nat] /\ segs \in [Orders -> Seq(Nat)]
  BY DEF IInv, RowInv, FleetInv
<1>5. AppendSegment \/ UNCHANGED segs
  <2>1. ASSUME NEW o \in Orders, JobMoves(o) PROVE AppendSegment \/ UNCHANGED segs
    BY <2>1 DEF JobMoves, Fleet, Start, FinishBlock, Fault, Recover, StopAtFleet, CancelBegin, StopExpired
  <2> QED
    BY <2>1, FleetFrame DEF fleet
<1>6. CASE UNCHANGED <<waitIndex, rpc, rel>> /\ ~AppendSegment
  <2>1. UNCHANGED <<segs, waitIndex, rpc, rel>>
    BY <1>5, <1>6
  <2> QED
    BY <2>1 DEF InStep, Even, Ahead
<1>7. CASE AppendSegment
  <2>1. /\ rpc = "append" /\ rpc' = "index" /\ UNCHANGED <<rel, waitIndex>>
        /\ segs' = [segs EXCEPT ![rel.ord] = Append(@, rel.idx + 1)]
    BY <1>7 DEF AppendSegment, row
  <2>2. rel.ord \in Orders /\ rel.idx \in Nat /\ rel.idx = waitIndex[rel.ord]
    BY <2>1 DEF IInv, ReleaseInv, InStep
  <2>3. ASSUME NEW o \in Orders PROVE Even(o, waitIndex[o] + 1)
    <3>1. Ahead(o) = 0 /\ waitIndex[o] + 1 + 0 = waitIndex[o] + 1
      BY <1>4, <2>1 DEF Ahead
    <3> QED
      BY <3>1 DEF InStep
  <2>4. ASSUME NEW o \in Orders PROVE Even(o, waitIndex[o] + 1 + Ahead(o))'
    <3>1. CASE o # rel.ord
      <4>1. Ahead(o)' = 0 /\ segs'[o] = segs[o] /\ waitIndex'[o] + 1 + 0 = waitIndex[o] + 1
        BY <1>4, <2>1, <2>2, <3>1 DEF Ahead
      <4> QED
        BY <2>3, <4>1 DEF Even
    <3>2. CASE o = rel.ord
      <4> DEFINE n == waitIndex[o] + 1
      <4>1. segs'[o] = Append(segs[o], n) /\ segs[o] \in Seq(Nat) /\ n \in Nat
        BY <1>4, <2>1, <2>2, <3>2
      <4>2. Len(segs[o]) = n /\ \A i \in 1..n : segs[o][i] = i - 1
        BY <2>3 DEF Even
      <4>3. waitIndex'[o] + 1 + Ahead(o)' = n + 1
        BY <1>4, <2>1, <3>2 DEF Ahead
      <4> HIDE DEF n
      <4>4. Len(segs'[o]) = n + 1 /\ \A i \in 1..(n + 1) : segs'[o][i] = i - 1
        BY <4>1, <4>2
      <4> QED
        BY <4>3, <4>4 DEF Even
    <3> QED
      BY <3>1, <3>2
  <2>5. rel'.idx = waitIndex'[rel'.ord]
    BY <2>1, <2>2
  <2> QED
    BY <2>4, <2>5 DEF InStep
<1>8. CASE AppendRefused \/ ReleaseOrder
  <2>1. rpc # "index" /\ rpc' = "idle" /\ waitIndex' = waitIndex /\ segs' = segs
    BY <1>8 DEF AppendRefused, ReleaseOrder, row, fleet
  <2> QED
    BY <2>1 DEF InStep, Even, Ahead
<1>9. CASE UpdateOrderWaitIndex
  <2>1. /\ rpc = "index" /\ rpc' = "move" /\ segs' = segs
        /\ waitIndex' = [waitIndex EXCEPT ![rel.ord] = rel.idx + 1]
    BY <1>3, <1>9 DEF UpdateOrderWaitIndex, fleet
  <2>2. rel.ord \in Orders /\ rel.idx \in Nat /\ rel.idx = waitIndex[rel.ord]
    BY <2>1 DEF IInv, ReleaseInv, InStep
  <2>3. ASSUME NEW o \in Orders PROVE Even(o, waitIndex[o] + 1 + Ahead(o))'
    <3>1. waitIndex'[o] + 1 + Ahead(o)' = waitIndex[o] + 1 + Ahead(o)
      BY <1>4, <2>1, <2>2 DEF Ahead
    <3> QED
      BY <2>1, <3>1 DEF InStep, Even
  <2> QED
    BY <2>1, <2>3 DEF InStep
<1>10. ~Crash
  BY <1>3 DEF Crash
<1>11. ASSUME NEW o \in Orders, HandleOrderRelease(o) PROVE InStep'
  <2>1. /\ rpc = "idle" /\ rpc' = "append" /\ UNCHANGED <<waitIndex, segs>>
        /\ rel'.ord = o /\ rel'.idx = waitIndex[o]
    BY <1>11 DEF HandleOrderRelease, row, fleet
  <2> QED
    BY <2>1 DEF InStep, Even, Ahead
<1> QED
  BY <1>6, <1>7, <1>8, <1>9, <1>10, <1>11, ReleaseFrame DEF ReleaseMoves, ReleaseStep

\* Every step keeps the tally.
LEMMA TallyStep == ASSUME IInv, Tally, [Next]_vars PROVE Tally'
<1>1. UsedInv' /\ \A k \in Kinds : used'[k] >= used[k]
  BY UsedStep DEF Tally
<1>2. Torn => Torn'
  BY <1>1 DEF Torn, Tally, UsedInv, Kinds
<1> QED
  BY <1>1, <1>2, InStepKept DEF Tally

\* A segment reaches the robot twice only after a failed write of wait_index or a
\* restart, for any number of orders, waits and releases
\* (appendSegmentAndAdvance).
THEOREM SegmentsOnce == Spec => []AppendedOnce
<1>1. Init => Tally
  <2> SUFFICES ASSUME Init PROVE Tally
    OBVIOUS
  <2>1. UsedInv
    BY DEF Init, UsedInv
  <2>2. ASSUME NEW o \in Orders PROVE Even(o, waitIndex[o] + 1 + Ahead(o))
    BY DEF Init, Ahead, Even
  <2>3. rpc = "idle"
    BY DEF Init
  <2> QED
    BY <2>1, <2>2, <2>3 DEF Tally, InStep
<1>2. IInv /\ Tally /\ [Next]_vars => Tally'
  BY TallyStep
<1>3. IInv /\ Tally => AppendedOnce
  <2> SUFFICES ASSUME Tally, NEW o \in Orders,
                      NEW i \in 1..Len(segs[o]), NEW j \in 1..Len(segs[o]),
                      i < j, segs[o][i] = segs[o][j]
               PROVE  Torn
    BY DEF AppendedOnce, Torn
  <2> QED
    BY DEF Tally, InStep, Even
<1> QED
  BY <1>1, <1>2, <1>3, AlwaysIInv, PTL DEF Spec

-----------------------------------------------------------------------------
(* The refinement.                                                         *)

\* The furthest segment is the top one.
LEMMA FurthestIsTop ==
    ASSUME NEW s, NEW w, NEW n \in 0..w, Top(s, n), w \in Nat, s \in Seq(Nat)
    PROVE  Furthest(s, w) = n
<1>1. Furthest(s, w) \in 0..w /\ Top(s, Furthest(s, w))
  BY DEF Furthest, Top
<1>2. ASSUME NEW a \in 0..w, NEW b \in 0..w, Top(s, a), Top(s, b) PROVE a <= b
  BY <1>2 DEF Top
<1> QED
  BY <1>1, <1>2

\* A step that leaves the jobs alone books an order as the waybill does.
LEMMA BookStep ==
    ASSUME IInv, [Next]_vars, UNCHANGED fleet PROVE [WB!Next]_WB!vars
<1>1. UNCHANGED <<mapGiven, mapRun>>
  BY DEF fleet, mapGiven, mapRun
<1>2. status \in [Orders -> Booked]
  BY DEF IInv, RowInv
<1>3. CASE UNCHANGED status
  BY <1>1, <1>3 DEF WB!vars, mapBook
<1>4. ASSUME NEW o \in Orders, NEW s \in Booked, Rebooks(o, s) PROVE [WB!Next]_WB!vars
  <2>1. \A p \in Orders : p # o => mapBook'[p] = mapBook[p]
    BY <1>2, <1>4 DEF Rebooks, mapBook
  <2>2. status'[o] = s
    BY <1>2, <1>4 DEF Rebooks
  <2>3. mapBook' = [mapBook EXCEPT ![o] = mapBook'[o]]
    BY <2>1 DEF mapBook
  <2>4. CASE mapBook'[o] = mapBook[o]
    <3>1. UNCHANGED mapBook
      BY <2>1, <2>4 DEF mapBook
    <3> QED
      BY <1>1, <3>1 DEF WB!vars
  <2>5. CASE status[o] \in Open /\ s \in Open
    BY <2>2, <2>4, <2>5 DEF mapBook, Open
  <2>6. CASE s = status[o]
    BY <2>2, <2>4, <2>6 DEF mapBook
  <2>7. CASE status[o] \in Open \cup {"delivered"} /\ s \in {"failed", "cancelled"}
    <3>1. mapBook[o] \in {"open", "delivered"} /\ mapBook'[o] = "ended"
      BY <2>2, <2>7 DEF mapBook, Open
    <3>2. WB!End(o)
      BY <1>1, <2>3, <3>1 DEF WB!End
    <3> QED
      BY <3>2 DEF WB!Next
  <2>8. CASE status[o] \in Open /\ s = "delivered" /\ rds[o] = "FINISHED"
    <3>1. mapBook[o] = "open" /\ mapBook'[o] = "delivered" /\ mapRun[o] = "finished"
      BY <2>2, <2>8 DEF mapBook, mapRun, Open
    <3>2. WB!Deliver(o)
      BY <1>1, <2>3, <3>1 DEF WB!Deliver
    <3> QED
      BY <3>2 DEF WB!Next
  <2>9. CASE status[o] = "delivered" /\ s = "confirmed"
    <3>1. mapBook[o] = "delivered" /\ mapBook'[o] = "confirmed"
      BY <2>2, <2>9 DEF mapBook
    <3>2. WB!Confirm(o)
      BY <1>1, <2>3, <3>1 DEF WB!Confirm
    <3> QED
      BY <3>2 DEF WB!Next
  <2> QED
    BY <1>4, <2>5, <2>6, <2>7, <2>8, <2>9 DEF Rebooks
<1> QED
  BY <1>3, <1>4, StatusStep

\* A step of the job gives a segment, ends the job, or is not seen.
LEMMA RunStep ==
    ASSUME IInv, [Next]_vars, NEW o \in Orders, JobMoves(o) PROVE [WB!Next]_WB!vars
<1>1. UNCHANGED status
  BY DEF JobMoves, Fleet, Start, FinishBlock, Fault, Recover, StopAtFleet, CancelBegin, StopExpired,
         AppendSegment, row
<1>2. UNCHANGED mapBook
  BY <1>1 DEF mapBook
<1>3. /\ rds \in [Orders -> JobState] /\ segs \in [Orders -> Seq(Nat)] /\ Waits[o] \in Nat
      /\ JobOK(o)
  BY MissionAssumption DEF IInv, FleetInv
<1>4. CASE rds' = [rds EXCEPT ![o] = "STOPPED"] /\ UNCHANGED segs /\ ~Over(rds[o])
  <2>1. mapRun[o] = "live" /\ mapRun' = [mapRun EXCEPT ![o] = "stopped"] /\ UNCHANGED mapGiven
    BY <1>3, <1>4 DEF mapRun, mapGiven, Over
  <2>2. WB!Stop(o)
    BY <1>2, <2>1 DEF WB!Stop
  <2> QED
    BY <2>2 DEF WB!Next
<1>5. ASSUME NEW t \in {"CREATED", "RUNNING", "WAITING", "FAILED"},
             rds' = [rds EXCEPT ![o] = t], ~Over(rds[o])
      PROVE  UNCHANGED mapRun
  BY <1>3, <1>5 DEF mapRun, Over
<1>6. CASE UNCHANGED rds /\ UNCHANGED segs
  BY <1>2, <1>6 DEF mapRun, mapGiven, WB!vars
<1>7. ASSUME UNCHANGED <<mapRun, segs>> PROVE [WB!Next]_WB!vars
  BY <1>2, <1>7 DEF mapGiven, WB!vars
<1>8. CASE Start(o) \/ Fault(o) \/ Recover(o)
  <2>1. UNCHANGED segs /\ ~Over(rds[o])
    BY <1>8 DEF Start, Fault, Recover, Over
  <2>2. \E t \in {"CREATED", "RUNNING", "WAITING", "FAILED"} : rds' = [rds EXCEPT ![o] = t]
    BY <1>8 DEF Start, Fault, Recover
  <2> QED
    BY <1>5, <1>7, <2>1, <2>2
<1>9. CASE StopAtFleet(o)
  BY <1>4, <1>9 DEF StopAtFleet
<1>10. CASE CancelBegin(o) \/ (StopExpired /\ o = cur)
  <2>1. /\ UNCHANGED segs
        /\ UNCHANGED rds \/ (rds' = [rds EXCEPT ![o] = "STOPPED"] /\ ~Over(rds[o]))
    BY <1>10 DEF CancelBegin, StopExpired, TerminateJob
  <2> QED
    BY <1>4, <1>6, <2>1
<1>11. CASE FinishBlock(o)
  <2>1. /\ rds[o] = "RUNNING" /\ UNCHANGED segs
        /\ \/ rds' = [rds EXCEPT ![o] = "RUNNING"] \/ rds' = [rds EXCEPT ![o] = "WAITING"]
           \/ rds' = [rds EXCEPT ![o] = "FINISHED"] /\ Sealed(o)
    BY <1>11 DEF FinishBlock
  <2>2. CASE rds' = [rds EXCEPT ![o] = "FINISHED"] /\ Sealed(o)
    <3>1. PICK n \in 0..Waits[o] : Top(segs[o], n)
      BY <1>3 DEF JobOK
    <3>2. n = Waits[o]
      BY <1>3, <2>2, <3>1 DEF Top, Sealed
    <3>3. mapGiven[o] = Waits[o]
      BY <1>3, <3>1, <3>2, FurthestIsTop DEF mapGiven
    <3>4. mapRun[o] = "live" /\ mapRun' = [mapRun EXCEPT ![o] = "finished"] /\ UNCHANGED mapGiven
      BY <1>3, <2>1, <2>2 DEF mapRun, mapGiven
    <3>5. WB!Finish(o)
      BY <1>2, <3>3, <3>4 DEF WB!Finish
    <3> QED
      BY <3>5 DEF WB!Next
  <2>3. CASE rds' = [rds EXCEPT ![o] = "RUNNING"] \/ rds' = [rds EXCEPT ![o] = "WAITING"]
    BY <1>5, <1>7, <2>1, <2>3 DEF Over
  <2> QED
    BY <2>1, <2>2, <2>3
<1>12. CASE AppendSegment /\ o = rel.ord
  <2>1. /\ rel.idx \in Nat /\ rel.idx < Waits[o]
        /\ \E i \in 1..Len(segs[o]) : segs[o][i] >= rel.idx
    BY <1>12 DEF IInv, ReleaseInv, AppendSegment, Given
  <2>2. /\ segs' = [segs EXCEPT ![o] = Append(@, rel.idx + 1)]
        /\ rds[o] \in {"RUNNING", "WAITING", "FAILED"}
        /\ rds' = rds \/ rds' = [rds EXCEPT ![o] = "RUNNING"]
    BY <1>12 DEF AppendSegment
  <2>3. UNCHANGED mapRun /\ mapRun[o] = "live"
    BY <1>5, <2>2 DEF mapRun, Over
  <2>4. PICK n \in 0..Waits[o] : Top(segs[o], n)
    BY <1>3 DEF JobOK
  <2> DEFINE t == Append(segs[o], rel.idx + 1)
  <2>5. t \in Seq(Nat) /\ IF rel.idx = n THEN Top(t, n + 1) ELSE Top(t, n)
    BY <1>3, <2>1, <2>4, AppendTop
  <2>6. segs'[o] = t /\ \A p \in Orders : p # o => segs'[p] = segs[p]
    BY <1>3, <2>2
  <2> HIDE DEF t
  <2>7. mapGiven[o] = n /\ \A p \in Orders : p # o => mapGiven'[p] = mapGiven[p]
    BY <1>3, <2>4, <2>6, FurthestIsTop DEF mapGiven
  <2>8. mapGiven'[o] = Furthest(t, Waits[o])
    BY <2>6 DEF mapGiven
  <2>9. CASE rel.idx = n
    <3> n + 1 \in 0..Waits[o] /\ Top(t, n + 1)
      BY <1>3, <2>1, <2>5, <2>9
    <3>1. mapGiven'[o] = n + 1
      BY <1>3, <2>5, <2>8, FurthestIsTop
    <3>2. mapGiven' = [mapGiven EXCEPT ![o] = @ + 1]
      BY <2>7, <3>1 DEF mapGiven
    <3>3. WB!Give(o)
      BY <1>2, <2>1, <2>3, <2>7, <2>9, <3>2 DEF WB!Give
    <3> QED
      BY <3>3 DEF WB!Next
  <2>10. CASE rel.idx # n
    <3>1. mapGiven'[o] = n
      BY <1>3, <2>4, <2>5, <2>8, <2>10, FurthestIsTop
    <3>2. UNCHANGED mapGiven
      BY <2>7, <3>1 DEF mapGiven
    <3> QED
      BY <1>2, <2>3, <3>2 DEF WB!vars
  <2> QED
    BY <2>9, <2>10
<1> QED
  BY <1>8, <1>9, <1>10, <1>11, <1>12 DEF JobMoves, Fleet

\* Tracking and releasing fleet jobs implements the waybill, for any number of
\* orders, waits, releases and restarts: segments in order with none skipped,
\* one end of a job, and delivery booked only for a job that ran its whole plan
\* (poller, handleVendorStatusChange, appendSegmentAndAdvance).
THEOREM Implements == Spec => ImplementsWaybill
<1>1. Init => WB!Init
  <2> SUFFICES ASSUME Init PROVE WB!Init
    OBVIOUS
  <2>1. ASSUME NEW o \in Orders PROVE Furthest(segs[o], Waits[o]) = 0
    <3>1. segs[o] = <<0>> /\ Waits[o] \in Nat /\ <<0>> \in Seq(Nat) /\ 0 \in 0..Waits[o]
      BY MissionAssumption DEF Init
    <3>2. \A i \in 1..Len(<<0>>) : i = 1 /\ <<0>>[i] = 0
      OBVIOUS
    <3>3. Top(<<0>>, 0)
      BY <3>2 DEF Top
    <3> QED
      BY <3>1, <3>3, FurthestIsTop
  <2>2. mapGiven = [o \in Orders |-> 0]
    BY <2>1 DEF mapGiven
  <2>3. mapRun = [o \in Orders |-> "live"] /\ mapBook = [o \in Orders |-> "open"]
    BY DEF Init, mapRun, mapBook
  <2> QED
    BY <2>2, <2>3 DEF WB!Init
<1>2. IInv /\ [Next]_vars => [WB!Next]_WB!vars
  BY BookStep, RunStep, FleetFrame
<1> QED
  BY <1>1, <1>2, AlwaysIInv, PTL DEF Spec, ImplementsWaybill, WB!Spec
=============================================================================
