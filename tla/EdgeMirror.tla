----------------------------- MODULE EdgeMirror -----------------------------
(***************************************************************************)
(* One order as two rows: Core's, which decides, and the station's, which  *)
(* mirrors it (shingo-edge/orders) and from which an operator releases,    *)
(* aborts and confirms.  Between them run two outboxes (module Outbox).    *)
(*                                                                         *)
(* Core works on the order in two goroutines, each of which reads the row, *)
(* acts, and then writes: hand is the message being handled, poll the      *)
(* fleet report being handled.  The Edge has two as well: reply is the     *)
(* status its message handler is about to write, click the one an          *)
(* operator's request is about to write; neither write is conditional.     *)
(***************************************************************************)
EXTENDS OrderStatus, Integers, Sequences

CONSTANTS
    Waits,      \* the waits in the order's plan
    Faults,     \* the kinds of disturbance that may happen
    MaxHits,    \* bound: disturbances of all kinds together
    MaxClicks,  \* bound: operator requests
    MaxQueue    \* bound: rows in Core's outbox before new work is begun

\* lose: an outbox row dies; defer: a failed publish is overtaken by the next
\* row; again: a row is published twice; sync: the manifest write of a release
\* fails; append: the fleet refuses a segment; write: the read or the write
\* of a cancel fails; crash: Core restarts; boot: the Edge restarts; ask: the Edge
\* asks for Core's status; the others are Core's and the fleet's own decisions.
Kinds == {"lose", "defer", "again", "sync", "append", "write", "crash", "boot", "ask",
          "cancel", "end", "dig", "fault", "stop"}

ASSUME EdgeMirrorAssumption ==
    /\ Waits \in Nat /\ MaxHits \in Nat /\ MaxClicks \in Nat /\ MaxQueue \in Nat
    /\ Faults \subseteq Kinds

VARIABLES
    core,       \* Core's orders.status, "none" before the request is handled
    waitIndex,  \* orders.wait_index
    robot,      \* orders.robot_id is set
    owed,       \* the scanner has still to send the ack and the waybill
    plain,      \* a plain order, whose waits are lane waits that Core releases,
                \* or else a complex one, whose waits the station releases
    job,        \* what the fleet would report of the job, as a status
    told,       \* what the poller reported last
    hand,       \* Core: the message in hand and the status it read
    poll,       \* Core: the report in hand and the status it read
    edge,       \* the Edge's orders.status
    old,        \* the Edge's row was created more than seven days ago
    reply,      \* the Edge: the status the message handler will write
    click,      \* the Edge: the status an operator's request will write
    up, down,   \* the outboxes to Core and to the Edge
    clicks,     \* operator requests so far
    lapse,      \* what happened that the two rows need not survive (history)
    hits        \* disturbances so far

mission == <<waitIndex, robot, owed, plain, job, told>>
board == <<edge, old, reply, click, clicks>>
vars == <<core, mission, hand, poll, board, up, down, lapse, hits>>

Msg(t, s) == [t |-> t, s |-> s]
Idle == [m |-> Msg("none", "none"), row |-> "none"]
Held(m) == [m |-> m, row |-> core]
When(p, x) == IF p THEN {x} ELSE {}
Codes == {"not_found", "rejected", "invalid_state", "manifest_sync_failed", "fleet_failed"}

Init ==
    /\ core = "none" /\ waitIndex = 0 /\ robot = FALSE /\ owed = FALSE
    /\ plain \in BOOLEAN /\ job = "none" /\ told = "none"
    /\ hand = Idle /\ poll = Idle
    /\ edge = "submitted" /\ old = FALSE /\ reply = "none" /\ click = "none" /\ clicks = 0
    /\ up = <<Msg("request", "none")>> /\ down = <<>>
    /\ lapse = {} /\ hits = 0

Spend(k) == k \in Faults /\ hits < MaxHits /\ hits' = hits + 1
Room == Len(down) < MaxQueue

\* sendToEdge and the ReplySender: rows of Core's outbox.
Send(ms) == down' = down \o ms
Update(s) == <<Msg("update", s)>>

\* TerminalizeOrderWithReason wins from every live status; the winner's event
\* tells the Edge.
Ended == core \in Terminal
Terminalize(s) == core' = IF Ended THEN core ELSE s
Event(ms) == IF Ended THEN <<>> ELSE ms

-----------------------------------------------------------------------------
(* Core's own steps.                                                       *)

\* The scanner dispatches the order; the fleet takes it.  The Edge is told of a
\* plain order's dispatch only.
Dispatch ==
    /\ core = "queued" /\ Room
    /\ core' = "dispatched" /\ job' = "dispatched" /\ told' = "dispatched" /\ owed' = plain
    /\ UNCHANGED <<waitIndex, robot, plain, hand, poll, board, up, down, lapse, hits>>

\* notifyEdgeDispatched.
NotifyEdgeDispatched ==
    /\ owed
    /\ owed' = FALSE
    /\ Send(<<Msg("ack", "none"), Msg("waybill", "none")>>)
    /\ UNCHANGED <<core, waitIndex, robot, plain, job, told, hand, poll, board, up, lapse, hits>>

\* A dig begins without a word to the Edge, and ends with one.
BeginReshuffle ==
    /\ core = "queued" /\ Spend("dig")
    /\ core' = "reshuffling"
    /\ UNCHANGED <<mission, hand, poll, board, up, down, lapse>>

ResumeCompound ==
    /\ core = "reshuffling" /\ Room
    /\ core' = "queued" /\ Send(Update("queued"))
    /\ UNCHANGED <<mission, hand, poll, board, up, lapse, hits>>

\* Planning ends the order: it cannot work, or was never needed.
EndInPlanning ==
    /\ core = "queued" /\ Spend("end")
    /\ \/ core' = "failed" /\ Send(<<Msg("error", "rejected")>>)
       \/ core' = "skipped" /\ Send(<<Msg("skipped", "none")>>)
    /\ UNCHANGED <<mission, hand, poll, board, up, lapse>>

StopJob == job' = IF job \in {"none", "delivered"} THEN job ELSE "cancelled"

\* CancelOrder from Core's own pages.
CancelAtCore ==
    /\ core \in Live /\ Spend("cancel")
    /\ core' = "cancelled" /\ StopJob /\ Send(<<Msg("cancelled", "none")>>)
    /\ UNCHANGED <<waitIndex, robot, owed, plain, told, hand, poll, board, up, lapse>>

\* handleGraceExpired.
GraceExpires ==
    /\ core = "faulted" /\ poll = Idle /\ Room
    /\ core' = "failed" /\ StopJob /\ Send(<<Msg("error", "rejected")>>)
    /\ UNCHANGED <<waitIndex, robot, owed, plain, told, hand, poll, board, up, lapse, hits>>

\* AutoConfirmStuckDeliveredOrders.
AutoConfirm ==
    /\ core = "delivered" /\ Room
    /\ core' = "confirmed" /\ Send(Update("confirmed"))
    /\ UNCHANGED <<mission, hand, poll, board, up, lapse, hits>>

\* The lane evaluator releases a lane wait, without a word to the Edge.
ReleaseGate ==
    /\ plain /\ core = "staged" /\ job = "staged" /\ waitIndex < Waits
    /\ core' = "in_transit" /\ waitIndex' = waitIndex + 1 /\ job' = "in_transit"
    /\ UNCHANGED <<robot, owed, plain, told, hand, poll, board, up, down, lapse, hits>>

-----------------------------------------------------------------------------
(* The fleet, and the poller's reports of it.                              *)

\* The robot drives on.  It reaches no wait, and meets with nothing, before the
\* scanner has made its two sends.
Drive ==
    /\ \/ job = "dispatched" /\ job' = "in_transit"
       \/ job = "in_transit" /\ ~owed /\ job' = IF waitIndex < Waits THEN "staged" ELSE "delivered"
    /\ UNCHANGED <<core, waitIndex, robot, owed, plain, told, hand, poll, board, up, down, lapse, hits>>

Fault ==
    /\ job \in {"in_transit", "staged"} /\ ~owed /\ Spend("fault")
    /\ job' = "faulted"
    /\ UNCHANGED <<core, waitIndex, robot, owed, plain, told, hand, poll, board, up, down, lapse>>

Recover ==
    /\ job = "faulted"
    /\ job' \in {"in_transit"} \cup (IF waitIndex < Waits THEN {"staged"} ELSE {})
    /\ UNCHANGED <<core, waitIndex, robot, owed, plain, told, hand, poll, board, up, down, lapse, hits>>

StopAtFleet ==
    /\ job \in {"in_transit", "staged"} /\ ~owed /\ Spend("stop")
    /\ job' = "cancelled"
    /\ UNCHANGED <<core, waitIndex, robot, owed, plain, told, hand, poll, board, up, down, lapse>>

\* handleVendorStatusChange, up to its write: the first report of a robot sends
\* a waybill, and a delivery is announced before it is recorded.
Report ==
    /\ poll = Idle /\ told # "none" /\ job # told /\ Room
    /\ told' = IF job \in {"delivered", "cancelled"} THEN "none" ELSE job
    /\ robot' = TRUE
    /\ poll' = IF job = core THEN Idle ELSE Held(Msg("report", job))
    /\ Send((IF robot THEN <<>> ELSE <<Msg("waybill", "none")>>)
            \o (IF job = "delivered" /\ job # core THEN <<Msg("delivered", "none")>> ELSE <<>>))
    /\ UNCHANGED <<core, waitIndex, owed, plain, job, hand, board, up, lapse, hits>>

CanMark(s) == core = poll.row /\ IsValidTransition(core, s)

\* The rest of it: the write, which is conditional on the status that was
\* read, and the messages, which are not.
MarkStatus ==
    LET s == poll.m.s IN
    /\ s \in {"in_transit", "staged", "faulted", "delivered"}
    /\ core' = IF CanMark(s) THEN s ELSE core
    /\ lapse' = IF CanMark(s) \/ Ended THEN lapse ELSE lapse \cup {"unmarked"}
    /\ Send(Update(s) \o (IF s = "staged" THEN <<Msg("staged", "none")>> ELSE <<>>))
    /\ poll' = Idle
    /\ UNCHANGED <<mission, hand, board, up, hits>>

\* handleFleetOrderCancelled.
FleetOrderCancelled ==
    /\ poll.m.s = "cancelled" /\ poll # Idle
    /\ IF poll.row \in Terminal
       THEN UNCHANGED core /\ Send(Update("cancelled"))
       ELSE Terminalize("cancelled")
            /\ Send(Update("cancelled") \o Event(<<Msg("cancelled", "none")>>))
    /\ poll' = Idle
    /\ UNCHANGED <<mission, hand, board, up, lapse, hits>>

-----------------------------------------------------------------------------
(* Core's message goroutine.  The inbox row is written when the message is *)
(* taken, so a restart before the handler is done loses it.                *)

Take ==
    /\ hand = Idle /\ up # <<>> /\ Room
    /\ hand' = Held(Head(up)) /\ up' = Tail(up)
    /\ UNCHANGED <<core, mission, poll, board, down, lapse, hits>>

Handling(t) == hand.m.t = t /\ hand' = Idle
Reject(code) == Send(<<Msg("error", code)>>)

\* HandleOrderRequest: the order is queued, which runs the scanner before the
\* answer is sent (ReplyQueued), or it is failed.
HandleOrderRequest ==
    /\ plain /\ hand.m.t = "request"
    /\ \/ /\ core' = "queued" /\ hand' = [m |-> Msg("queued", "none"), row |-> "queued"]
          /\ UNCHANGED <<down, hits>>
       \/ /\ core' = "failed" /\ hand' = Idle /\ Spend("end")
          /\ Send(<<Msg("error", "rejected"), Msg("error", "rejected")>>)
    /\ UNCHANGED <<mission, poll, board, up, lapse>>

\* queueOrder's answer says queued, whatever the scanner did.
ReplyQueued ==
    /\ plain /\ Handling("queued") /\ Send(Update("queued"))
    /\ lapse' = lapse \cup When(\/ core \notin {"queued", "reshuffling", "dispatched"}
                               \/ poll.m.s = "delivered", "late")
    /\ UNCHANGED <<core, mission, poll, board, up, hits>>

\* HandleComplexOrderRequest: the order is queued and acknowledged, then the
\* scanner runs, or it is refused and not created.
HandleComplexOrderRequest ==
    /\ ~plain /\ hand.m.t = "request"
    /\ \/ /\ core' = "queued" /\ hand' = [m |-> Msg("queued", "none"), row |-> "queued"]
          /\ Send(<<Msg("ack", "none")>>) /\ UNCHANGED hits
       \/ UNCHANGED core /\ hand' = Idle /\ Spend("end") /\ Reject("rejected")
    /\ UNCHANGED <<mission, poll, board, up, lapse>>

\* The queue-reason push after the scan, if it left a reason.
PushQueueReason ==
    /\ ~plain /\ Handling("queued")
    /\ \/ UNCHANGED down
       \/ IsAcquiring(core) /\ Send(Update(core))
    /\ UNCHANGED <<core, mission, poll, board, up, lapse, hits>>

\* HandleOrderRelease: the early returns, each with its answer.  (An order is
\* not released before Core told of it, so it is always found.)
RefuseRelease ==
    /\ Handling("release")
    /\ LET row == hand.row IN
       \/ row = "faulted" /\ UNCHANGED <<down, hits>>
       \/ row \notin {"faulted", "staged", "in_transit"} /\ Reject("invalid_state") /\ UNCHANGED hits
       \/ /\ row \in {"staged", "in_transit"}
          /\ \/ Reject("manifest_sync_failed") /\ Spend("sync")
             \/ row = "staged" /\ (plain \/ waitIndex = Waits) /\ Reject("invalid_state") /\ UNCHANGED hits
             \/ row = "in_transit" /\ waitIndex = Waits /\ UNCHANGED <<down, hits>>
             \/ waitIndex < Waits /\ Reject("fleet_failed") /\ Spend("append")
    /\ lapse' = lapse \cup When(hand.row = "faulted", "swallowed")
                     \cup When(core # "staged" /\ (Reject("manifest_sync_failed")
                                \/ (~plain /\ hand.row = "staged" /\ Reject("invalid_state"))), "reopened")
    /\ UNCHANGED <<core, mission, poll, board, up>>

\* appendSegmentAndAdvance: the fleet has the segment whatever the row says.
AppendSegment ==
    /\ Handling("release")
    /\ waitIndex < Waits /\ waitIndex' = waitIndex + 1
    /\ job' = IF job = "staged" THEN "in_transit" ELSE job
    /\ \/ hand.row = "in_transit" /\ UNCHANGED <<core, down>>
       \/ hand.row = "staged" /\ ~plain /\ core = "staged" /\ core' = "in_transit" /\ UNCHANGED down
       \/ hand.row = "staged" /\ ~plain /\ core # "staged" /\ UNCHANGED core /\ Reject("fleet_failed")
    /\ lapse' = lapse \cup When("in_transit" \notin {edge, click} \/ reply # "none" \/ down # <<>>, "crossed")
    /\ UNCHANGED <<robot, owed, plain, told, poll, board, up, hits>>

\* Mutant: the row is only ended from the status that was read.
HandleOrderCancelAsRead ==
    /\ Handling("cancel")
    /\ core' = IF core = hand.row /\ core \in Live THEN "cancelled" ELSE core
    /\ StopJob /\ Send(<<Msg("cancelled", "none")>>)
    /\ UNCHANGED <<waitIndex, robot, owed, plain, told, poll, board, up, lapse, hits>>

\* HandleOrderCancel: an order is ended whatever became of it since it was
\* read, and the Edge hears of it twice, from the handler and from the event.
\* The job is stopped if the row that was read had one.  A read that fails counts
\* as no order; a write that fails is logged, and the answer is sent all the same.
HandleOrderCancel ==
    /\ Handling("cancel")
    /\ LET row == hand.row IN
       \/ /\ Reject("not_found") /\ UNCHANGED <<core, job>>
          /\ \/ row = "none" /\ UNCHANGED <<lapse, hits>>
             \/ row # "none" /\ Spend("write") /\ lapse' = lapse \cup {"unwritten"}
       \/ /\ row = "cancelled" /\ UNCHANGED <<core, job, down, lapse, hits>>
       \/ /\ row \in Terminal \ {"cancelled"} /\ Send(<<Msg("cancelled", "none")>>)
          /\ UNCHANGED <<core, job, lapse, hits>>
       \/ /\ row \in Live
          /\ IF IsAcquiring(row) \/ row = "reshuffling" THEN UNCHANGED job ELSE StopJob
          /\ \/ /\ Terminalize("cancelled") /\ UNCHANGED <<lapse, hits>>
                /\ Send(Event(<<Msg("cancelled", "none")>>) \o <<Msg("cancelled", "none")>>)
             \/ /\ Spend("write") /\ lapse' = lapse \cup {"unwritten"}
                /\ UNCHANGED core /\ Send(<<Msg("cancelled", "none")>>)
    /\ UNCHANGED <<waitIndex, robot, owed, plain, told, poll, board, up>>

\* HandleOrderReceipt: only a delivered order is confirmed.
HandleOrderReceipt ==
    /\ Handling("receipt")
    /\ IF IsValidTransition(hand.row, "confirmed")
       THEN Terminalize("confirmed") /\ Send(Event(Update("confirmed"))) /\ UNCHANGED lapse
       ELSE UNCHANGED <<core, down>> /\ lapse' = lapse \cup {"premature"}
    /\ UNCHANGED <<mission, poll, board, up, hits>>

\* HandleOrderStatusRequest.
HandleOrderStatusRequest ==
    /\ Handling("ask")
    /\ Send(<<Msg("snapshot", core)>>)
    /\ UNCHANGED <<core, mission, poll, board, up, lapse, hits>>

-----------------------------------------------------------------------------
(* The Edge: what a message makes of the row, "none" for no write.         *)

\* Transition: no write when already there, ended, or illegal.
Transition(s) == IF IsValidTransition(edge, s) THEN s ELSE "none"
\* ForceTransition, a write whatever the table says.
ForceTransition(s) == IF edge = s THEN "none" ELSE s
ForceLive(s) == IF edge \in Terminal THEN "none" ELSE ForceTransition(s)

\* The statuses one or more legal steps away: as far again, four times over, is
\* farther than there are statuses.
Further(near) == [s \in Status |-> near[s] \cup UNION {near[t] : t \in near[s]}]
Reachable ==
    Further(Further(Further(Further([s \in Status |-> IF s \in Live THEN ValidTransitions[s] ELSE {}]))))
IsForwardJump(s, t) == s # t /\ ~IsValidTransition(s, t) /\ t \in Reachable[s]

\* mirrorTransition: a legal step, or a jump over steps that were not told.
Mirror(s) == IF IsForwardJump(edge, s) THEN s ELSE Transition(s)

\* ApplyCoreStatus: the statuses with an envelope of their own are not taken
\* from an update.
ApplyCoreStatus(s) ==
    IF s \in {"queued", "sourcing", "dispatched", "in_transit", "faulted", "confirmed"}
    THEN ForceLive(s) ELSE "none"

\* Mutant: a refused release fails the row.
HandleOrderErrorFails(code) ==
    IF code = "manifest_sync_failed" THEN ForceTransition("staged") ELSE Transition("failed")

\* HandleOrderError: two codes are answers to a release, and bring it back.
HandleOrderError(code) ==
    CASE code = "manifest_sync_failed" -> ForceTransition("staged")
      [] code = "invalid_state" -> IF edge = "in_transit" THEN "staged" ELSE "none"
      [] OTHER -> Transition("failed")

\* Mutant: Core's answer is applied where the table allows the step.
ApplyCoreStatusSnapshotLegal(s) == IF s = "none" THEN "none" ELSE Transition(s)

\* ApplyCoreStatusSnapshot: Core's answer stands, whatever the row says.
ApplyCoreStatusSnapshot(s) == IF s = "none" THEN "none" ELSE ForceTransition(s)

Target(m) ==
    CASE m.t = "ack" -> Mirror("acknowledged")
      [] m.t = "waybill" -> Mirror("in_transit")
      [] m.t = "staged" -> Mirror("staged")
      [] m.t = "cancelled" -> Mirror("cancelled")
      [] m.t = "update" -> ApplyCoreStatus(m.s)
      [] m.t = "delivered" -> Transition("delivered")
      [] m.t = "error" -> HandleOrderError(m.s)
      [] m.t = "skipped" -> ForceTransition("skipped")
      [] m.t = "snapshot" -> ApplyCoreStatusSnapshot(m.s)

\* The message handler reads the row and decides.
HandleMessage ==
    /\ reply = "none" /\ down # <<>>
    /\ LET m == Head(down) IN
       /\ reply' = Target(m)
       /\ lapse' = lapse \cup When(click # "none", "raced")
            \cup When(m = Msg("error", "fleet_failed") /\ edge \in Live, "killed")
            \cup When(m = Msg("error", "manifest_sync_failed") /\ edge \notin {"staged", "in_transit"}, "reopened")
    /\ down' = Tail(down)
    /\ UNCHANGED <<core, mission, hand, poll, edge, old, click, clicks, up, hits>>

\* applyTransition: the row is written whatever it says by now.
WriteReply ==
    /\ reply # "none"
    /\ edge' = reply /\ reply' = "none"
    /\ UNCHANGED <<core, mission, hand, poll, old, click, clicks, up, down, lapse, hits>>

WriteClick ==
    /\ click # "none"
    /\ edge' = click /\ click' = "none"
    /\ UNCHANGED <<core, mission, hand, poll, old, reply, clicks, up, down, lapse, hits>>

\* An operator's request: the message is queued, then the row moved.
Request(t, s) ==
    /\ click = "none" /\ clicks < MaxClicks
    /\ clicks' = clicks + 1
    /\ up' = Append(up, Msg(t, "none"))
    /\ click' = Transition(s)
    /\ lapse' = lapse \cup When(reply # "none", "raced")
                     \cup When(t = "release" /\ edge # "staged", "early")
    /\ UNCHANGED <<core, mission, hand, poll, edge, old, reply, down, hits>>

ReleaseOrder == edge \in Live \ {"pending", "submitted"} /\ Request("release", "in_transit")
AbortOrder == edge \in Live /\ Request("cancel", "cancelled")
ConfirmDelivery == edge = "delivered" /\ Request("receipt", "confirmed")

\* RequestOrderStatusSync asks for the orders ListActive has: these not at all,
\* those for seven days.
Asks ==
    /\ edge \notin {"cancelled", "skipped"}
    /\ edge \in {"confirmed", "failed", "faulted"} => ~old
Asked == IF Asks THEN Append(up, Msg("ask", "none")) ELSE up

Still == hand = Idle /\ poll = Idle /\ reply = "none" /\ click = "none"
Quiet == Still /\ up = <<>> /\ down = <<>> /\ ~owed /\ (told = "none" \/ job = told)

\* The seven days pass.
Age ==
    /\ ~old /\ old' = TRUE
    /\ UNCHANGED <<core, mission, hand, poll, edge, reply, click, clicks, up, down, lapse, hits>>

\* Core registers the Edge anew or finds it stale, or somebody asks by hand, when
\* nothing is on its way; at other times that is Resync.
Reconnect ==
    /\ Quiet /\ Asks
    /\ up' = Asked /\ lapse' = lapse \cup {"wire"}
    /\ UNCHANGED <<core, mission, hand, poll, board, down, hits>>

-----------------------------------------------------------------------------
(* Restarts and the wire.                                                  *)

\* Core restarts: what its goroutines held is gone, the poller starts from
\* CREATED, and the ETA backfill repeats the status of an order on its way.
CoreRestart ==
    /\ Spend("crash")
    /\ hand' = Idle /\ poll' = Idle /\ owed' = FALSE
    /\ told' = IF IsVendorTracked(core) THEN "dispatched" ELSE "none"
    /\ \/ UNCHANGED down
       \/ core \in {"in_transit", "staged"} /\ Send(Update(core))
    /\ lapse' = lapse \cup {"wire"} \cup When(hand # Idle, "lost")
    /\ UNCHANGED <<core, waitIndex, robot, plain, job, board, up>>

\* The Edge restarts and reconciles (StartupReconcile).
EdgeRestart ==
    /\ Spend("boot")
    /\ reply' = "none" /\ click' = "none" /\ up' = Asked
    /\ lapse' = lapse \cup {"wire"}
    /\ UNCHANGED <<core, mission, hand, poll, edge, old, clicks, down>>

\* The same at any time.
Resync ==
    /\ Spend("ask") /\ up' = Asked /\ lapse' = lapse \cup {"wire"}
    /\ UNCHANGED <<core, mission, hand, poll, board, down>>

Swap(q) == <<q[2], q[1]>> \o SubSeq(q, 3, Len(q))

DropUp ==
    /\ up # <<>> /\ Spend("lose")
    /\ up' = Tail(up) /\ lapse' = lapse \cup {"wire", "lost"}
    /\ UNCHANGED <<core, mission, hand, poll, board, down>>

DropDown ==
    /\ down # <<>> /\ Spend("lose")
    /\ down' = Tail(down) /\ lapse' = lapse \cup {"wire"}
    /\ UNCHANGED <<core, mission, hand, poll, board, up>>

Overtake ==
    /\ Spend("defer")
    /\ \/ Len(up) > 1 /\ up' = Swap(up) /\ UNCHANGED down /\ lapse' = lapse \cup {"overtaken"}
       \/ Len(down) > 1 /\ down' = Swap(down) /\ UNCHANGED up /\ lapse' = lapse \cup {"wire"}
    /\ UNCHANGED <<core, mission, hand, poll, board>>

PublishAgain ==
    /\ down # <<>> /\ Spend("again")
    /\ down' = <<Head(down)>> \o down /\ lapse' = lapse \cup {"wire"}
    /\ UNCHANGED <<core, mission, hand, poll, board, up>>

-----------------------------------------------------------------------------
CoreStep ==
    \/ NotifyEdgeDispatched \/ Report \/ MarkStatus \/ FleetOrderCancelled \/ Take
    \/ HandleOrderRequest \/ ReplyQueued \/ HandleComplexOrderRequest \/ PushQueueReason
    \/ RefuseRelease \/ AppendSegment \/ HandleOrderCancel
    \/ HandleOrderReceipt \/ HandleOrderStatusRequest
EdgeStep == HandleMessage \/ WriteReply
Next ==
    \/ CoreStep \/ EdgeStep \/ WriteClick
    \/ Dispatch \/ BeginReshuffle \/ ResumeCompound \/ EndInPlanning \/ CancelAtCore
    \/ GraceExpires \/ AutoConfirm \/ ReleaseGate
    \/ Drive \/ Fault \/ Recover \/ StopAtFleet
    \/ ReleaseOrder \/ AbortOrder \/ ConfirmDelivery
    \/ Age \/ Reconnect \/ CoreRestart \/ EdgeRestart \/ Resync
    \/ DropUp \/ DropDown \/ Overtake \/ PublishAgain

Spec == Init /\ [][Next]_vars
FairSpec ==
    /\ Spec
    /\ WF_vars(CoreStep) /\ WF_vars(EdgeStep) /\ WF_vars(WriteClick)

-----------------------------------------------------------------------------
TypeOK ==
    /\ core \in Status \cup {"none"} /\ edge \in Status
    /\ waitIndex \in 0..Waits /\ {robot, owed, plain, old} \subseteq BOOLEAN
    /\ {job, told} \subseteq {"none", "dispatched", "in_transit", "staged", "faulted", "delivered", "cancelled"}
    /\ {reply, click} \subseteq Status \cup {"none"}

\* What an operator can tell of a status.
Phase(s) ==
    CASE s \in {"dispatched", "in_transit"} -> "moving"
      [] s \in {"staged", "faulted", "delivered"} -> s
      [] s \in Terminal -> "ended"
      [] OTHER -> "acquiring"

\* When nothing is on its way and nothing went wrong, the board shows the phase
\* Core has the order in.  By design it may not yet show a dispatch, which the
\* fleet's first report brings, nor a released lane wait, which nobody tells.
QuietBoardsAgree ==
    Quiet /\ lapse = {} =>
        \/ Phase(core) = Phase(edge)
        \/ core = "dispatched" /\ Phase(edge) = "acquiring"
        \/ plain /\ core = "in_transit" /\ edge = "staged"
        \/ core = "none" /\ edge \in Terminal

\* However the rows were driven apart, an Edge that goes on asking Core about the
\* order shows Core's phase again and again.  Nothing makes it ask: syncs come with
\* a start, with Core's register or stale notice, or by hand; and it does not ask
\* about an order ListActive leaves out.
BoardsMeet == []<><<Reconnect>>_vars => []<>(Phase(core) = Phase(edge) \/ core = "none")

\* Once all messages are handled, an order the Edge cancelled has ended at Core,
\* or Core never had it, unless a message to Core was lost or came out of turn, or
\* Core's read or write for the cancel failed.
AbortReachesCore ==
    Quiet /\ edge = "cancelled" /\ lapse \cap {"lost", "overtaken", "unwritten"} = {}
        => core \in Terminal \cup {"none"}

\* What the Edge's documentation says and MCEdgeMirrorKilled.cfg refutes: a
\* refused release never ends the Edge's row while Core's order lives.
RefusalSparesRow == Quiet /\ edge = "failed" => core \in Terminal \cup {"none"}

\* What it says and MCEdgeMirrorAbort.cfg refutes: Core is guaranteed to
\* receive the cancellation, for no message is lost here.
AbortGuaranteed == Quiet /\ edge = "cancelled" => core \in Terminal \cup {"none"}

\* What the Edge's documentation says and MCEdgeMirrorQueued.cfg refutes: the
\* board shows Core's planning before the fleet has the order, not after it was
\* told of the dispatch.
QueuedMeansAcquiring == plain /\ Quiet /\ edge = "queued" => Phase(core) = "acquiring"
=============================================================================
