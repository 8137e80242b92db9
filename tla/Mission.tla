------------------------------ MODULE Mission -------------------------------
(***************************************************************************)
(* A dispatched order and its fleet job: the poller that samples the job   *)
(* (rds/poller.go), the engine's handling of what it emits, the release of *)
(* a waiting robot segment by segment (dispatch/complex_release.go), and a *)
(* restart that starts the poller from the order rows.                     *)
(*                                                                         *)
(* A plan with Waits[o] waits has segments 0..Waits[o]; the job is created *)
(* with segment 0.  The poller runs one cycle at a time and its emitter    *)
(* calls the engine in the same goroutine, so ppc is one program counter   *)
(* for both.  A release runs on the message goroutine, beside it.          *)
(***************************************************************************)
EXTENDS OrderStatus, Integers, Sequences, FiniteSets

CONSTANTS
    Orders,
    Waits,      \* the waits in an order's plan
    None,
    Budget,     \* bound: how often each kind of disturbance happens
    MaxHits     \* bound: disturbances of all kinds together, releases aside

\* answer: the fleet does not answer a poll; resolve: the lookup of the order
\* for a vendor id fails; load: the engine's read of the order's row fails;
\* refuse: the fleet refuses a cancel or an append; write: the write of
\* wait_index fails; persist: a write of the status fails.
Kinds == {"answer", "resolve", "load", "refuse", "write", "persist", "fault", "stop",
          "crash", "cancel", "release"}

JobState == {"CREATED", "RUNNING", "WAITING", "FINISHED", "FAILED", "STOPPED"}

ASSUME MissionAssumption ==
    /\ None \notin Orders \cup JobState
    /\ Waits \in [Orders -> Nat]
    /\ Budget \in [Kinds -> Nat] /\ MaxHits \in Nat

VARIABLES
    rds,        \* the job's state at the fleet
    segs,       \* the segments appended to it, in order
    done,       \* how many of its segments are finished
    active,     \* Poller.active: the state last recorded, None if not tracked
    seen,       \* Poller.blockStates: finished segments already seen
    deadline,   \* Poller.faultedDeadline
    ppc,        \* the poll cycle: next step
    cur,        \* the poll cycle: the order in hand
    todo,       \* the poll cycle: orders still to be asked for
    expired,    \* the poll cycle: grace periods that were over when it began
    got,        \* the poll cycle: the fleet's answer
    loaded,     \* the poll cycle: the status the engine loaded
    status,     \* orders.status
    waitIndex,  \* orders.wait_index
    rpc,        \* the release: next step
    rel,        \* the release: the order as loaded
    cancelling, \* orders a CancelOrder call has stopped and not yet ended
    up,         \* Core is running
    reported,   \* segments whose completion the engine has heard (history)
    missed,     \* segments whose completion was dropped (history)
    unheard,    \* orders that fell out of the poller unsettled (history)
    used        \* disturbances so far

fleet == <<rds, segs, done>>
tracker == <<active, seen, deadline>>
cycle == <<ppc, cur, todo, expired, got, loaded>>
row == <<status, waitIndex>>
release == <<rpc, rel>>
history == <<reported, missed, unheard>>
vars == <<fleet, tracker, cycle, row, release, cancelling, up, history, used>>

\* OrderState.IsTerminal: FAILED is not terminal.
Over(s) == s \in {"FINISHED", "STOPPED"}
Sealed(o) == \E i \in 1..Len(segs[o]) : segs[o][i] = Waits[o]

NoAnswer == [st |-> "CREATED", done |-> 0]
NoRelease == [ord |-> None, from |-> "dispatched", idx |-> 0]

Init ==
    /\ rds = [o \in Orders |-> "CREATED"]
    /\ segs = [o \in Orders |-> <<0>>]
    /\ done = [o \in Orders |-> 0]
    /\ active = [o \in Orders |-> "CREATED"]
    /\ seen = [o \in Orders |-> 0]
    /\ deadline = [o \in Orders |-> "none"]
    /\ ppc = "idle" /\ cur = None /\ todo = {} /\ expired = {}
    /\ got = NoAnswer /\ loaded = "dispatched"
    /\ status = [o \in Orders |-> "dispatched"]
    /\ waitIndex = [o \in Orders |-> 0]
    /\ rpc = "idle" /\ rel = NoRelease
    /\ cancelling = {} /\ up = TRUE
    /\ reported = [o \in Orders |-> {}]
    /\ missed = [o \in Orders |-> {}]
    /\ unheard = {}
    /\ used = [k \in Kinds |-> 0]

Hits == {h \in (Kinds \ {"release"}) \X (1..MaxHits) : h[2] <= used[h[1]]}
CanSpend(k) == used[k] < Budget[k] /\ (k = "release" \/ Cardinality(Hits) < MaxHits)
Spend(k) == CanSpend(k) /\ used' = [used EXCEPT ![k] = @ + 1]

-----------------------------------------------------------------------------
(* The fleet: a robot runs the job's segments, and waits at the end of an  *)
(* unsealed job for more.                                                  *)

Start(o) ==
    /\ rds[o] = "CREATED"
    /\ rds' = [rds EXCEPT ![o] = "RUNNING"]
    /\ UNCHANGED <<segs, done, tracker, cycle, row, release, cancelling, up, history, used>>

FinishBlock(o) ==
    /\ rds[o] = "RUNNING"
    /\ done' = [done EXCEPT ![o] = @ + 1]
    /\ rds' = [rds EXCEPT ![o] = IF done[o] + 1 < Len(segs[o]) THEN "RUNNING"
                                 ELSE IF Sealed(o) THEN "FINISHED" ELSE "WAITING"]
    /\ UNCHANGED <<segs, tracker, cycle, row, release, cancelling, up, history, used>>

Fault(o) ==
    /\ rds[o] \in {"RUNNING", "WAITING"}
    /\ rds' = [rds EXCEPT ![o] = "FAILED"]
    /\ Spend("fault")
    /\ UNCHANGED <<segs, done, tracker, cycle, row, release, cancelling, up, history>>

Recover(o) ==
    /\ rds[o] = "FAILED"
    /\ rds' = [rds EXCEPT ![o] = IF done[o] < Len(segs[o]) THEN "RUNNING" ELSE "WAITING"]
    /\ UNCHANGED <<segs, done, tracker, cycle, row, release, cancelling, up, history, used>>

\* Someone stops the job at the fleet's own console.
StopAtFleet(o) ==
    /\ ~Over(rds[o])
    /\ rds' = [rds EXCEPT ![o] = "STOPPED"]
    /\ Spend("stop")
    /\ UNCHANGED <<segs, done, tracker, cycle, row, release, cancelling, up, history>>

\* The vendor call of a cancel: it stops the job, or is refused.
TerminateJob(o) ==
    \/ /\ rds' = IF Over(rds[o]) THEN rds ELSE [rds EXCEPT ![o] = "STOPPED"]
       /\ UNCHANGED used
    \/ UNCHANGED rds /\ Spend("refuse")

-----------------------------------------------------------------------------
(* The status writes.                                                      *)

\* MapState.
MapState(s) ==
    CASE s = "CREATED" -> "dispatched"
      [] s = "RUNNING" -> "in_transit"
      [] s = "WAITING" -> "staged"
      [] s = "FINISHED" -> "delivered"
      [] s = "FAILED" -> "faulted"
      [] s = "STOPPED" -> "cancelled"

\* transition to a live status: legal from the loaded one, which still stands.
CanSwap(o, from, to) == status[o] = from /\ IsValidTransition(from, to)

\* TerminalizeOrderWithReason: the first terminal status wins.
Terminalize(o, to) ==
    status' = IF IsTerminal(status[o]) THEN status ELSE [status EXCEPT ![o] = to]

-----------------------------------------------------------------------------
(* The poll cycle.                                                         *)

Tracked(o) == active[o] # None

\* delete from active, blockStates and faultedDeadline.
Drop(o) ==
    /\ active' = [active EXCEPT ![o] = None]
    /\ seen' = [seen EXCEPT ![o] = 0]
    /\ deadline' = [deadline EXCEPT ![o] = "none"]

DeadlinePasses(o) ==
    /\ deadline[o] = "running"
    /\ deadline' = [deadline EXCEPT ![o] = "past"]
    /\ UNCHANGED <<fleet, active, seen, cycle, row, release, cancelling, up, history, used>>

\* poll: the orders to ask for, and the grace periods that are over.
Poll ==
    /\ up /\ ppc = "idle"
    /\ \E o \in Orders : Tracked(o)
    /\ todo' = {o \in Orders : Tracked(o)}
    /\ expired' = {o \in Orders : deadline[o] = "past" /\ active[o] = "FAILED"}
    /\ ppc' = "poll"
    /\ UNCHANGED <<fleet, tracker, cur, got, loaded, row, release, cancelling, up, history, used>>

\* checkGraceExpiry untracks the job first and looks its order up second; a
\* lookup that fails loses the expiry.
GraceExpire(o) ==
    /\ ppc = "poll" /\ o \in expired
    /\ expired' = expired \ {o}
    /\ Drop(o)
    /\ \/ ppc' = "expire" /\ cur' = o /\ UNCHANGED <<unheard, used>>
       \/ Spend("resolve") /\ unheard' = unheard \cup {o} /\ UNCHANGED <<ppc, cur>>
    /\ UNCHANGED <<fleet, todo, got, loaded, row, release, cancelling, up, reported, missed>>

\* handleGraceExpired: an order that has not ended is failed, and then its job
\* is stopped, also when the write of the failure failed.  Nobody polls the job
\* any more: if the row cannot be read or written, the expiry is lost.
HandleGraceExpired ==
    /\ ppc = "expire"
    /\ \/ /\ Terminalize(cur, "failed")
          /\ ppc' = IF IsTerminal(status[cur]) THEN "poll" ELSE "stop"
          /\ UNCHANGED <<unheard, used>>
       \/ /\ ~IsTerminal(status[cur]) /\ Spend("persist")
          /\ ppc' = "stop" /\ unheard' = unheard \cup {cur}
          /\ UNCHANGED status
       \/ /\ Spend("load")
          /\ ppc' = "poll" /\ unheard' = unheard \cup {cur}
          /\ UNCHANGED status
    /\ UNCHANGED <<fleet, tracker, cur, todo, expired, got, loaded, waitIndex, release,
                   cancelling, up, reported, missed>>

StopExpired ==
    /\ ppc = "stop"
    /\ TerminateJob(cur)
    /\ ppc' = "poll"
    /\ UNCHANGED <<segs, done, tracker, cur, todo, expired, got, loaded, row, release,
                   cancelling, up, history>>

\* GetOrderDetails for one order.  An order untracked meanwhile is skipped.
GetOrderDetails(o) ==
    /\ ppc = "poll" /\ expired = {} /\ o \in todo
    /\ todo' = todo \ {o}
    /\ \/ /\ ppc' = IF Tracked(o) THEN "diff" ELSE "poll"
          /\ cur' = o /\ got' = [st |-> rds[o], done |-> done[o]]
          /\ UNCHANGED used
       \/ Spend("answer") /\ UNCHANGED <<ppc, cur, got>>
    /\ UNCHANGED <<fleet, tracker, expired, loaded, row, release, cancelling, up, history>>

PollEnd ==
    /\ ppc = "poll" /\ todo = {} /\ expired = {}
    /\ ppc' = "idle" /\ cur' = None /\ got' = NoAnswer /\ loaded' = "dispatched"
    /\ UNCHANGED <<fleet, tracker, todo, expired, row, release, cancelling, up, history, used>>

Fresh == (seen[cur] + 1)..got.done
Changed == got.st # active[cur]
\* Mutant: a change of state goes ahead of the finished blocks beneath it.
DiffBlockStatesLast ==
    /\ ppc = "diff"
    /\ IF Changed
       THEN ppc' = "commit" /\ UNCHANGED <<seen, reported>>
       ELSE /\ seen' = [seen EXCEPT ![cur] = got.done]
            /\ reported' = [reported EXCEPT ![cur] = @ \cup Fresh]
            /\ ppc' = "poll"
    /\ UNCHANGED <<fleet, active, deadline, cur, todo, expired, got, loaded, row, release,
                   cancelling, up, missed, unheard, used>>

\* diffBlockStates records what it has seen, then emits the newly finished
\* blocks if the order can be looked up.  One lookup serves the blocks and the
\* change of state: when it fails the blocks are dropped for good, and the
\* change is kept for the next cycle.
DiffBlockStates ==
    /\ ppc = "diff"
    /\ seen' = [seen EXCEPT ![cur] = got.done]
    /\ \/ /\ reported' = [reported EXCEPT ![cur] = @ \cup Fresh]
          /\ ppc' = IF Changed THEN "commit" ELSE "poll"
          /\ UNCHANGED <<missed, used>>
       \/ /\ Fresh # {} \/ Changed
          /\ Spend("resolve")
          /\ missed' = [missed EXCEPT ![cur] = @ \cup Fresh]
          /\ ppc' = "poll"
          /\ UNCHANGED reported
    /\ UNCHANGED <<fleet, active, deadline, cur, todo, expired, got, loaded, row, release,
                   cancelling, up, unheard>>

\* Mutant: the deadline of a fault is left standing when the job recovers.
CommitKeepsDeadline ==
    /\ ppc = "commit"
    /\ IF Over(got.st) THEN Drop(cur)
       ELSE /\ active' = [active EXCEPT ![cur] = got.st]
            /\ deadline' = [deadline EXCEPT ![cur] =
                   IF got.st = "FAILED" /\ @ = "none" THEN "running" ELSE @]
            /\ UNCHANGED seen
    /\ ppc' = "load"
    /\ UNCHANGED <<fleet, cur, todo, expired, got, loaded, row, release, cancelling, up,
                   history, used>>

\* The tracked state moves; the grace deadline is set on entering FAILED and
\* cleared on leaving it.
Commit ==
    /\ ppc = "commit"
    /\ IF Over(got.st) THEN Drop(cur)
       ELSE /\ active' = [active EXCEPT ![cur] = got.st]
            /\ deadline' = [deadline EXCEPT ![cur] =
                   IF got.st # "FAILED" THEN "none" ELSE IF @ = "none" THEN "running" ELSE @]
            /\ UNCHANGED seen
    /\ ppc' = "load"
    /\ UNCHANGED <<fleet, cur, todo, expired, got, loaded, row, release, cancelling, up,
                   history, used>>

-----------------------------------------------------------------------------
(* handleVendorStatusChange.                                               *)

\* A change that is logged and not applied.  The poller has recorded it and will
\* not report it again; behind the end of a job there is no other to come.
GiveUp == unheard' = IF Over(got.st) /\ IsVendorTracked(status[cur])
                     THEN unheard \cup {cur} ELSE unheard

LoadOrder ==
    /\ ppc = "load"
    /\ \/ /\ loaded' = status[cur]
          /\ ppc' = IF status[cur] = MapState(got.st) THEN "poll" ELSE "apply"
          /\ UNCHANGED <<unheard, used>>
       \/ /\ Spend("load") /\ GiveUp
          /\ ppc' = "poll" /\ UNCHANGED loaded
    /\ UNCHANGED <<fleet, tracker, cur, todo, expired, got, row, release, cancelling, up,
                   reported, missed>>

\* MarkInTransit, MarkStaged, MarkDelivered, MarkFaulted, MarkFaultedRecovered:
\* one swap from the loaded status.  A refused or failed one is logged and not
\* retried.  A job read as CREATED again would be skipped, and never is: it has
\* no change.
MarkStatus ==
    /\ ppc = "apply" /\ got.st \in {"RUNNING", "WAITING", "FINISHED", "FAILED"}
    /\ LET to == MapState(got.st) IN
       \/ /\ CanSwap(cur, loaded, to)
          /\ status' = [status EXCEPT ![cur] = to] /\ UNCHANGED <<unheard, used>>
       \/ ~CanSwap(cur, loaded, to) /\ GiveUp /\ UNCHANGED <<status, used>>
       \/ CanSwap(cur, loaded, to) /\ Spend("persist") /\ GiveUp /\ UNCHANGED status
    /\ ppc' = "poll"
    /\ UNCHANGED <<fleet, tracker, cur, todo, expired, got, loaded, waitIndex, release,
                   cancelling, up, reported, missed>>

\* handleFleetOrderCancelled, through CancelOrder: nothing if the loaded order
\* had ended.
FleetOrderCancelled ==
    /\ ppc = "apply" /\ got.st = "STOPPED"
    /\ \/ /\ IF IsTerminal(loaded) THEN UNCHANGED status ELSE Terminalize(cur, "cancelled")
          /\ UNCHANGED <<unheard, used>>
       \/ ~IsTerminal(loaded) /\ Spend("persist") /\ GiveUp /\ UNCHANGED status
    /\ ppc' = "poll"
    /\ UNCHANGED <<fleet, tracker, cur, todo, expired, got, loaded, waitIndex, release,
                   cancelling, up, reported, missed>>

-----------------------------------------------------------------------------
(* The release of a waiting robot.                                         *)

\* HandleOrderRelease up to its decision: a faulted order is left alone, any
\* status but staged and in_transit is refused, and a plan with no segment left
\* has nothing to append.
HandleOrderRelease(o) ==
    /\ up /\ rpc = "idle"
    /\ status[o] \in {"staged", "in_transit"}
    /\ waitIndex[o] < Waits[o]
    /\ rel' = [ord |-> o, from |-> status[o], idx |-> waitIndex[o]]
    /\ rpc' = "append"
    /\ Spend("release")
    /\ UNCHANGED <<fleet, tracker, cycle, row, cancelling, up, history>>

\* Mutant: the segment is cut at the wait after the current one.
AppendSegmentNext ==
    /\ rpc = "append"
    /\ LET o == rel.ord IN
       /\ rds[o] \in {"RUNNING", "WAITING", "FAILED"}
       /\ segs' = [segs EXCEPT ![o] =
              Append(@, IF rel.idx + 2 > Waits[o] THEN Waits[o] ELSE rel.idx + 2)]
       /\ rds' = IF rds[o] = "WAITING" THEN [rds EXCEPT ![o] = "RUNNING"] ELSE rds
    /\ rpc' = "index"
    /\ UNCHANGED <<done, tracker, cycle, row, rel, cancelling, up, history, used>>

\* Backend.ReleaseOrder: the fleet takes the segment behind the loaded wait if
\* it holds a live job with a robot on it.
AppendSegment ==
    /\ rpc = "append"
    /\ LET o == rel.ord IN
       /\ rds[o] \in {"RUNNING", "WAITING", "FAILED"}
       /\ segs' = [segs EXCEPT ![o] = Append(@, rel.idx + 1)]
       /\ rds' = IF rds[o] = "WAITING" THEN [rds EXCEPT ![o] = "RUNNING"] ELSE rds
    /\ rpc' = "index"
    /\ UNCHANGED <<done, tracker, cycle, row, rel, cancelling, up, history, used>>

\* The fleet does not take it, and nothing has changed.
AppendRefused ==
    /\ rpc = "append"
    /\ IF rds[rel.ord] \in {"RUNNING", "WAITING", "FAILED"} THEN Spend("refuse")
       ELSE UNCHANGED used
    /\ rpc' = "idle" /\ rel' = NoRelease
    /\ UNCHANGED <<fleet, tracker, cycle, row, cancelling, up, history>>

\* Mutant: only a release out of staging advances the index.
UpdateOrderWaitIndexStaged ==
    /\ rpc = "index"
    /\ waitIndex' = IF rel.from = "staged" THEN [waitIndex EXCEPT ![rel.ord] = rel.idx + 1]
                    ELSE waitIndex
    /\ rpc' = "move"
    /\ UNCHANGED <<fleet, tracker, cycle, status, rel, cancelling, up, history, used>>

\* UpdateOrderWaitIndex.  When it fails the row still says a segment is owed
\* that the robot already has.
UpdateOrderWaitIndex ==
    /\ rpc = "index"
    /\ \/ /\ waitIndex' = [waitIndex EXCEPT ![rel.ord] = rel.idx + 1]
          /\ rpc' = "move" /\ UNCHANGED <<rel, used>>
       \/ /\ Spend("write")
          /\ rpc' = "idle" /\ rel' = NoRelease
          /\ UNCHANGED waitIndex
    /\ UNCHANGED <<fleet, tracker, cycle, status, cancelling, up, history>>

\* LifecycleService.Release: staged to in_transit, from the loaded status.
ReleaseOrder ==
    /\ rpc = "move"
    /\ \/ /\ status' = IF CanSwap(rel.ord, rel.from, "in_transit")
                       THEN [status EXCEPT ![rel.ord] = "in_transit"] ELSE status
          /\ UNCHANGED used
       \/ Spend("persist") /\ UNCHANGED status
    /\ rpc' = "idle" /\ rel' = NoRelease
    /\ UNCHANGED <<fleet, tracker, cycle, waitIndex, cancelling, up, history>>

-----------------------------------------------------------------------------
(* Cancels, receipts and restarts.                                         *)

\* CancelOrder: the job first, the order row second.
CancelBegin(o) ==
    /\ up /\ ~IsTerminal(status[o]) /\ o \notin cancelling
    /\ CanSpend("cancel")
    /\ \/ /\ rds' = IF Over(rds[o]) THEN rds ELSE [rds EXCEPT ![o] = "STOPPED"]
          /\ used' = [used EXCEPT !["cancel"] = @ + 1]
       \/ /\ CanSpend("refuse")
          /\ used' = [used EXCEPT !["cancel"] = @ + 1, !["refuse"] = @ + 1]
          /\ UNCHANGED rds
    /\ cancelling' = cancelling \cup {o}
    /\ UNCHANGED <<segs, done, tracker, cycle, row, release, up, history>>

CancelEnd(o) ==
    /\ o \in cancelling
    /\ cancelling' = cancelling \ {o}
    /\ \/ Terminalize(o, "cancelled") /\ UNCHANGED used
       \/ Spend("persist") /\ UNCHANGED status
    /\ UNCHANGED <<fleet, tracker, cycle, waitIndex, release, up, history>>

\* ConfirmReceipt, by the station or the auto-confirm sweep.
ConfirmReceipt(o) ==
    /\ up /\ status[o] = "delivered"
    /\ status' = [status EXCEPT ![o] = "confirmed"]
    /\ UNCHANGED <<fleet, tracker, cycle, waitIndex, release, cancelling, up, history, used>>

Crash ==
    /\ up /\ Spend("crash")
    /\ up' = FALSE
    /\ active' = [o \in Orders |-> None]
    /\ seen' = [o \in Orders |-> 0]
    /\ deadline' = [o \in Orders |-> "none"]
    /\ ppc' = "idle" /\ cur' = None /\ todo' = {} /\ expired' = {}
    /\ got' = NoAnswer /\ loaded' = "dispatched"
    /\ rpc' = "idle" /\ rel' = NoRelease /\ cancelling' = {}
    /\ UNCHANGED <<fleet, row, history>>

\* Mutant: the orders tracked again are those a robot is working on now.
RestartActive ==
    /\ ~up /\ up' = TRUE
    /\ active' = [o \in Orders |-> IF status[o] \in {"dispatched", "in_transit", "staged"}
                                   THEN "CREATED" ELSE None]
    /\ unheard' = unheard \ {o \in Orders : IsVendorTracked(status[o])}
    /\ UNCHANGED <<fleet, seen, deadline, cycle, row, release, cancelling, reported, missed, used>>

\* loadActiveOrders: every vendor-tracked order is tracked from CREATED.
Restart ==
    /\ ~up /\ up' = TRUE
    /\ active' = [o \in Orders |-> IF IsVendorTracked(status[o]) THEN "CREATED" ELSE None]
    /\ unheard' = unheard \ {o \in Orders : IsVendorTracked(status[o])}
    /\ UNCHANGED <<fleet, seen, deadline, cycle, row, release, cancelling, reported, missed, used>>

-----------------------------------------------------------------------------
Fleet(o) == \/ Start(o) \/ FinishBlock(o) \/ Fault(o) \/ Recover(o) \/ StopAtFleet(o)
PollStep ==
    \/ Poll \/ PollEnd \/ HandleGraceExpired \/ StopExpired
    \/ DiffBlockStates \/ Commit \/ LoadOrder
    \/ MarkStatus \/ FleetOrderCancelled
    \/ \E o \in Orders : GraceExpire(o) \/ GetOrderDetails(o)
ReleaseStep == \/ AppendSegment \/ AppendRefused \/ UpdateOrderWaitIndex \/ ReleaseOrder

Next ==
    \/ PollStep \/ ReleaseStep \/ Crash \/ Restart
    \/ \E o \in Orders :
        \/ Fleet(o) \/ DeadlinePasses(o) \/ HandleOrderRelease(o)
        \/ CancelBegin(o) \/ CancelEnd(o) \/ ConfirmReceipt(o)

Spec == Init /\ [][Next]_vars

\* The poll ticker and the calls in hand go on, robots move, clocks run and
\* Core is restarted.  Nothing is asked of operators.
FairSpec ==
    /\ Spec
    /\ WF_vars(PollStep) /\ WF_vars(ReleaseStep) /\ WF_vars(Restart)
    /\ \A o \in Orders : /\ WF_vars(Start(o)) /\ WF_vars(FinishBlock(o)) /\ WF_vars(Recover(o))
                         /\ WF_vars(DeadlinePasses(o)) /\ WF_vars(CancelEnd(o))

-----------------------------------------------------------------------------
\* Every variable has its type; the poll cycle never has a reading of an order
\* it does not hold in hand.
TypeOK ==
    /\ rds \in [Orders -> JobState]
    /\ \A o \in Orders : segs[o] \in Seq(0..Waits[o]) /\ done[o] \in 0..Len(segs[o])
    /\ active \in [Orders -> (JobState \ {"FINISHED", "STOPPED"}) \cup {None}]
    /\ \A o \in Orders : seen[o] \in 0..done[o]
    /\ deadline \in [Orders -> {"none", "running", "past"}]
    /\ ppc \in {"idle", "poll", "expire", "stop", "diff", "commit", "load", "apply"}
    /\ cur \in Orders \cup {None} /\ (cur = None => ppc \in {"idle", "poll"})
    /\ todo \subseteq Orders /\ expired \subseteq Orders
    /\ got \in [st : JobState, done : Nat] /\ loaded \in Status
    /\ status \in [Orders -> {"dispatched", "in_transit", "staged", "faulted", "delivered",
                              "confirmed", "failed", "cancelled"}]
    /\ \A o \in Orders : waitIndex[o] \in 0..Waits[o]
    /\ rpc \in {"idle", "append", "index", "move"}
    /\ rel \in [ord : Orders \cup {None}, from : Status, idx : Nat]
    /\ (rel.ord = None) = (rpc = "idle")
    /\ cancelling \subseteq Orders /\ unheard \subseteq Orders /\ up \in BOOLEAN
    /\ used \in [Kinds -> Nat]

\* While Core runs, an order the fleet may still be working for is polled, or
\* its last reading is in the engine's hands, or the reading that dropped it from
\* the poller (its expiry or the end of its job) was lost: the order could not be
\* looked up, read or written, or the delivery lost the status swap.  A change on
\* the way, a release, a cancel, a refusal or a restart never unwatches it
\* (checkGraceExpiry, poll, handleVendorStatusChange, loadActiveOrders).
WatchedWhileLive ==
    \A o \in Orders : up /\ IsVendorTracked(status[o]) =>
        \/ Tracked(o) \/ o \in unheard
        \/ cur = o /\ ppc \in {"expire", "load", "apply"}

\* A fault deadline runs only for a tracked job last read as FAILED: a job
\* that recovered is not failed by a deadline of its earlier fault (poll,
\* checkGraceExpiry).
DeadlineIsCurrent ==
    \A o \in Orders : deadline[o] # "none" => active[o] = "FAILED"

\* When an order is delivered the engine has heard of every finished block of
\* its job, but for those a failed lookup dropped: the pickups are applied
\* before the arrival (diffBlockStates before the change of state).
BlocksBeforeDelivery ==
    \A o \in Orders : status[o] = "delivered" => 1..done[o] \subseteq reported[o] \cup missed[o]

\* A segment reaches the robot twice only if the write of wait_index failed or
\* Core died behind the append, however often a release is repeated
\* (appendSegmentAndAdvance).
AppendedOnce ==
    \A o \in Orders : \A i, j \in 1..Len(segs[o]) :
        i < j /\ segs[o][i] = segs[o][j] => used["write"] + used["crash"] > 0

\* The furthest segment of a plan with w waits that is in s.
Furthest(s, w) ==
    CHOOSE n \in 0..w : (\E i \in 1..Len(s) : s[i] = n) /\ (\A i \in 1..Len(s) : s[i] <= n)

\* The refinement mapping: the last segment given, the job's end, the booking.
mapGiven == [o \in Orders |-> Furthest(segs[o], Waits[o])]
mapRun == [o \in Orders |-> CASE rds[o] = "FINISHED" -> "finished"
                              [] rds[o] = "STOPPED" -> "stopped"
                              [] OTHER -> "live"]
mapBook == [o \in Orders |-> CASE status[o] \in {"delivered", "confirmed"} -> status[o]
                               [] status[o] \in {"failed", "cancelled"} -> "ended"
                               [] OTHER -> "open"]
WB == INSTANCE Waybill WITH given <- mapGiven, run <- mapRun, book <- mapBook

\* Core's tracking and releasing of the job implements the waybill: segments
\* are given in order with none skipped, the job's end is final, and an order
\* is booked delivered only when its job has run its whole plan.
ImplementsWaybill == WB!Spec

\* A job that ended is settled: its order leaves the tracked statuses, through
\* fleet silence, failed lookups and a restart, unless the one reading of the end
\* was lost behind the poller: the order's row could not be read or written, or
\* the swap was lost (poll keeps the old state for the next cycle only when it
\* cannot look the order up).
JobEndSettles ==
    \A o \in Orders :
        Over(rds[o]) ~> (~IsVendorTracked(status[o]) \/ o \in unheard)

\* A faulted order recovers or ends: its job resumes and is seen to, or the
\* grace period runs out (handleVendorStatusChange, handleGraceExpired).
FaultClears ==
    \A o \in Orders : (status[o] = "faulted") ~> (status[o] # "faulted")
=============================================================================
