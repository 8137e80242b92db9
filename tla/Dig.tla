--------------------------------- MODULE Dig ---------------------------------
(***************************************************************************)
(* A dig: the compound order that clears a lane to reach a buried bin.     *)
(*                                                                         *)
(* The demand becomes the parent of a chapter of legs, one per bin in the  *)
(* way and, for a plain retrieve, one for the bin itself.  Nothing owns    *)
(* the chapter: every completion, failure, cancel, lane exit and sweep     *)
(* calls AdvanceCompoundOrder on a goroutine of its own, and each call     *)
(* reads rows, decides, and writes later.  A chapter that stops short      *)
(* returns the demand to the queue, where the scanner plans the next one;  *)
(* the legs of all chapters stay in the parent's list.                     *)
(*                                                                         *)
(* One lane, whose bins 1, 2, ... stand behind one another; bin Target is  *)
(* the one wanted, and a bin moved out may be put back by hand.  Legs      *)
(* deliver outside every lane.  A leg that clears a bin out of the way is  *)
(* sent without a destination: its robot lifts the bin and dwells in the   *)
(* lane until a shuffle slot is found elsewhere.  The retrieve knows where *)
(* it goes, and its pickup counts as its leaving the lane.  The parent     *)
(* waits off the floor (it is not itself standing at a mark).              *)
(***************************************************************************)
EXTENDS Integers, FiniteSets

CONSTANTS
    Target,       \* the wanted bin: bins 1..Target are in the lane at the start
    Procs,        \* goroutines
    None,
    MaxChapters,  \* bound: how often the demand is planned
    MaxWakes,     \* bound: calls waiting for a goroutine, further ones merge
    Faults,       \* the kinds of disturbance that happen
    MaxHits       \* bound: disturbances of all kinds together

Bins == 1 .. Target
Legs == (1 .. MaxChapters) \X Bins
BinOf(l) == l[2]

ASSUME DigAssumption ==
    /\ Target \in Nat \ {0} /\ MaxChapters \in Nat \ {0}
    /\ MaxWakes \in Nat \ {0} /\ MaxHits \in Nat /\ None \notin Procs
    /\ Faults \subseteq {"fail", "stop", "refuse", "intrude", "config",
                         "cancel", "crash", "rival", "write", "lost"}

VARIABLES
    kind,      \* of the demand: plain, or coordinated (IsCoordinated)
    parent,    \* its orders.status
    chapter,   \* chapters written so far
    st,        \* a leg's orders.status, "none" before it is written
    why,       \* its error_detail
    vendor,    \* legs with a vendor_order_id
    lane,      \* the lane's mouth row: none, dig or out (the parent's), rival
    occ,       \* legs with an occupancy row on the lane
    at,        \* where a bin's row has it: lane, robot, out
    foreign,   \* bins another order claims, to take them out of the lane
    robot,     \* a leg's mission: none, unsealed and sealed (on its way to the
               \* bin, without and with a destination), dwell, away, stopped, done
    broken,    \* legs that name a node nobody configured
    wakes,     \* calls of AdvanceCompoundOrder waiting for a goroutine
    failed,    \* EventOrderFailed not handled yet
    me,        \* the goroutines: what each has read and does next
    twice,     \* legs the fleet accepted twice (history)
    lapses,    \* what went wrong for good (history): givenback, late,
               \* unbegun, cut, gone
    used       \* disturbances so far

family == <<kind, parent, chapter, st, why, vendor>>
floor == <<lane, occ, at, foreign, robot, broken>>
queue == <<wakes, failed>>
seen == <<twice, lapses, used>>
vars == <<family, floor, queue, me, seen>>

\* pc: the next step; leg, was: the leg in hand and the status read; rest: legs
\* to cancel, with the vendor id read or not; detail: the reason for it; then:
\* the step after the cancels; held: the parent held the lane when looked at;
\* chap: the chapter whose legs were listed.
Idle == [pc |-> "idle", leg |-> None, was |-> None, rest |-> {}, detail |-> None,
         then |-> None, held |-> FALSE, chap |-> 0]

Init ==
    /\ kind \in {"plain", "coordinated"}
    /\ parent = "queued"
    /\ chapter = 0
    /\ st = [l \in Legs |-> "none"]
    /\ why = [l \in Legs |-> "none"]
    /\ vendor = {}
    /\ lane = "none"
    /\ occ = {}
    /\ at = [b \in Bins |-> "lane"]
    /\ foreign = {}
    /\ robot = [l \in Legs |-> "none"]
    /\ broken = {}
    /\ wakes = 0
    /\ failed = {}
    /\ me = [p \in Procs |-> Idle]
    /\ twice = {}
    /\ lapses = {}
    /\ used = 0

Hit(kindOf) == kindOf \in Faults /\ used < MaxHits /\ used' = used + 1

----------------------------------------------------------------------------
(***************************************************************************)
(* What the code reads from the rows.                                      *)
(***************************************************************************)
Over(s) == s \in {"confirmed", "failed", "cancelled"}
Children == {l \in Legs : st[l] # "none"}
Live == {l \in Children : ~Over(st[l])}

\* Orders get their ids in the order they are written.
Before(l, k) == l[1] < k[1] \/ (l[1] = k[1] /\ l[2] <= k[2])

\* AwaitingFleetSQL.
Awaiting == {l \in Children : st[l] \in {"pending", "sourcing"} /\ l \notin vendor}

\* The step number a leg has in its own plan.
Sequence(l) == Cardinality({k \in Children : k[1] = l[1] /\ k[2] <= l[2]})

\* GetNextChild: the lowest sequence number, whichever chapter it is of.
NextChildren == {l \in Awaiting : \A k \in Awaiting : Sequence(l) <= Sequence(k)}

\* Mutant of EndsItsChapter: only the stale-plan marker closes a chapter.
EndsItsChapterDissolved(l) == st[l] = "cancelled" /\ why[l] = "dissolved"

EndsItsChapter(l) ==
    \/ st[l] = "failed" /\ why[l] # "config"
    \/ st[l] = "cancelled" /\ why[l] \in {"dissolved", "legfailed"}

\* compoundGenerations: the children of the chapter still open.
Open ==
    {l \in Children :
        ~(Over(st[l]) /\ \E k \in Children : EndsItsChapter(k) /\ Before(l, k))}

DigWasDissolved == Open = {} /\ \E l \in Children : EndsItsChapter(l)
ConfigFailed == \E l \in Open : st[l] = "failed" /\ why[l] = "config"
LostALeg == \E l \in Open : st[l] \in {"failed", "cancelled"}

\* findBuriedBlockers, and the live claims on them (blockersSpokenFor).
Blockers(b) == {c \in Bins : c < b /\ at[c] = "lane"}
SpokenFor(b) == \E c \in Blockers(b) : c \in foreign \/ \E l \in Live : BinOf(l) = c

----------------------------------------------------------------------------
(***************************************************************************)
(* Writes shared by the handlers.                                          *)
(***************************************************************************)
\* A goroutine forgets what it read when it is done.
Moved(m, step) == IF step = "idle" THEN Idle ELSE [m EXCEPT !.pc = step]
Goto(p, step) == me' = [me EXCEPT ![p] = Moved(@, step)]
Wake(n) == wakes' = IF wakes + n > MaxWakes THEN MaxWakes ELSE wakes + n

\* UpdateOrderStatusFrom: a compare and swap on the status.
Swap(l, from, to) == st' = IF st[l] = from THEN [st EXCEPT ![l] = to] ELSE st

\* TerminalizeOrder on a leg: first terminal status wins, the rows always go.
Terminalize(l, to, reason) ==
    /\ st' = IF Over(st[l]) THEN st ELSE [st EXCEPT ![l] = to]
    /\ why' = IF Over(st[l]) THEN why ELSE [why EXCEPT ![l] = reason]
    /\ occ' = occ \ {l}

\* TerminalizeOrder on the parent: its lane rows go with it.
EndParent(to) ==
    /\ parent' = IF Over(parent) THEN parent ELSE to
    /\ lane' = IF lane = "rival" THEN lane ELSE "none"

\* LanesHeldByOwner: the parent's row, whatever its mode.
HoldsLane == lane \in {"dig", "out"}

UnderWay(l) == robot[l] \in {"unsealed", "dwell", "sealed", "away"}
InLane(l) == robot[l] \in {"unsealed", "dwell", "sealed"}
Halted(l) == IF UnderWay(l) THEN [robot EXCEPT ![l] = "stopped"] ELSE robot

\* IsGateStaged on a leg, with the missions as given: its tail is still to come.
Staged(l, missions) == l \in vendor /\ missions[l] \in {"unsealed", "dwell"}

\* handOffDugLane: a coordinated demand keeps the lane it has dug for its own
\* pickup, and the dig's claim as well if it has claimed its bin by then.
HandedOff(places) ==
    IF kind = "plain" THEN {"none"}
    ELSE IF Over(parent) \/ places[Target] # "lane" THEN {"out"} ELSE {"out", "dig"}

\* maybeReleaseDigOnLastBlockerOut, on the bins' places and the missions: a leg
\* with a bin to fetch, or dwelling, still needs the lane.
ReleaseDig(places, missions) ==
    lane' \in IF lane # "dig" \/ \E l \in Live \cap Open : \/ places[BinOf(l)] = "lane"
                                                           \/ Staged(l, missions)
              THEN {lane} ELSE HandedOff(places)

\* A chapter's end that acts on a later chapter than the one it listed.
Late(p) == IF me[p].chap = chapter THEN lapses ELSE lapses \cup {"late"}

\* The legs to cancel one after another, and the step after the last.
Cancels(p, legs, reason, then, holds) ==
    me' = [me EXCEPT ![p] =
              Moved([@ EXCEPT !.rest = {<<l, l \in vendor>> : l \in legs},
                              !.detail = reason, !.then = then, !.held = holds,
                              !.chap = chapter],
                    IF legs = {} THEN then ELSE "cancel")]

----------------------------------------------------------------------------
(***************************************************************************)
(* Who calls AdvanceCompoundOrder.                                         *)
(***************************************************************************)
Woken(p) ==
    /\ me[p].pc = "idle" /\ wakes > 0
    /\ wakes' = wakes - 1
    /\ Goto(p, "next")
    /\ UNCHANGED <<family, floor, failed, seen>>

\* Mutant of Sweep: nobody looks for parents whose legs have all ended.
SweepLanesOnly(p) ==
    /\ me[p].pc = "idle" /\ Awaiting # {}
    /\ Goto(p, "next")
    /\ UNCHANGED <<family, floor, queue, seen>>

\* RedriveHeldCompoundLegs from the lane sweep, or AdvanceStuckReshuffleParents.
Sweep(p) ==
    /\ me[p].pc = "idle"
    /\ \/ Awaiting # {}
       \/ parent = "reshuffling" /\ Children # {} /\ Live = {}
    /\ Goto(p, "next")
    /\ UNCHANGED <<family, floor, queue, seen>>

----------------------------------------------------------------------------
(***************************************************************************)
(* AdvanceCompoundOrder: one leg towards the fleet.                        *)
(***************************************************************************)
GetNextChild(p) ==
    /\ me[p].pc = "next"
    /\ IF Awaiting = {}
       THEN Goto(p, "end")
       ELSE \E l \in NextChildren :
              me' = [me EXCEPT ![p] = [@ EXCEPT !.pc = "admit", !.leg = l, !.was = st[l]]]
    /\ UNCHANGED <<family, floor, queue, seen>>

\* A leg that cannot be built is failed without an event, and the call recurs:
\* a node it names is gone, or the lane has no slot to dwell at (ErrNoDwellSlot).
FailUnbuildable(p) ==
    /\ \/ me[p].pc = "admit"
       \/ me[p].pc = "commit" /\ BinOf(me[p].leg) < Target
    /\ me[p].leg \in broken
    /\ Terminalize(me[p].leg, "failed", "config")
    /\ Goto(p, "next")
    /\ UNCHANGED <<kind, parent, chapter, vendor, lane, at, foreign, robot, broken, queue, seen>>

\* admit and, for a walled leg, handleStaleDigLeg.
Admit(p) ==
    /\ me[p].pc = "admit" /\ me[p].leg \notin broken
    /\ LET b == BinOf(me[p].leg)
       IN Goto(p, IF lane = "rival" \/ occ \ {me[p].leg} # {} THEN "idle"
                  ELSE IF Blockers(b) = {} THEN "reread"
                  ELSE IF SpokenFor(b) THEN "idle" ELSE "dissolve")
    /\ UNCHANGED <<family, floor, queue, seen>>

\* claimantIsMoving says no: the other orders that claim the blockers are quiet.
AdmitQuiet(p) ==
    /\ me[p].pc = "admit" /\ me[p].leg \notin broken
    /\ lane # "rival" /\ occ \subseteq {me[p].leg}
    /\ LET ahead == Blockers(BinOf(me[p].leg))
       IN ahead \cap foreign # {} /\ \A l \in Live : BinOf(l) \notin ahead
    /\ Goto(p, "dissolve")
    /\ UNCHANGED <<family, floor, queue, seen>>

\* The exactly-once re-read.
Reread(p) ==
    /\ me[p].pc = "reread"
    /\ Goto(p, IF me[p].leg \in vendor THEN "idle" ELSE "take")
    /\ UNCHANGED <<family, floor, queue, seen>>

\* TakeLaneOccupancy: one row per order and lane, whoever inserts it.
TakeLaneOccupancy(p) ==
    /\ me[p].pc = "take"
    /\ occ' = occ \cup {me[p].leg}
    /\ Goto(p, IF me[p].was = "pending" THEN "claim" ELSE "commit")
    /\ UNCHANGED <<family, lane, at, foreign, robot, broken, queue, seen>>

\* Mutant of MoveToSourcing: the lost claim is logged and the leg sent anyway.
MoveToSourcingIgnored(p) ==
    /\ me[p].pc = "claim"
    /\ Swap(me[p].leg, "pending", "sourcing")
    /\ Goto(p, IF st[me[p].leg] = "pending" THEN "commit" ELSE "create")
    /\ UNCHANGED <<kind, parent, chapter, why, vendor, floor, queue, seen>>

\* pending -> sourcing, the atomic claim; the loser leaves the row in place.
MoveToSourcing(p) ==
    /\ me[p].pc = "claim"
    /\ Swap(me[p].leg, "pending", "sourcing")
    /\ Goto(p, IF st[me[p].leg] = "pending" THEN "commit" ELSE "idle")
    /\ UNCHANGED <<kind, parent, chapter, why, vendor, floor, queue, seen>>

\* The write itself fails: the row is given back, whoever relies on it.
SourcingUnwritten(p) ==
    /\ me[p].pc = "claim" /\ Hit("write")
    /\ occ' = occ \ {me[p].leg}
    /\ lapses' = lapses \cup {"givenback"}
    /\ Goto(p, "idle")
    /\ UNCHANGED <<family, lane, at, foreign, robot, broken, queue, twice>>

\* commitToFleet's own take.
CommitToFleet(p) ==
    /\ me[p].pc = "commit"
    /\ occ' = occ \cup {me[p].leg}
    /\ Goto(p, "handover")
    /\ UNCHANGED <<family, lane, at, foreign, robot, broken, queue, seen>>

\* sourcing -> dispatched before the fleet is asked; a loser changes nothing.
HandoverToFleet(p) ==
    /\ me[p].pc = "handover"
    /\ Swap(me[p].leg, "sourcing", "dispatched")
    /\ Goto(p, IF st[me[p].leg] = "sourcing" THEN "create" ELSE "idle")
    /\ UNCHANGED <<kind, parent, chapter, why, vendor, floor, queue, seen>>

\* digDwellPlan: only the leg for the wanted bin has somewhere to go.
CreateOrder(p) ==
    /\ me[p].pc = "create"
    /\ robot' = [robot EXCEPT ![me[p].leg] =
                    IF BinOf(me[p].leg) < Target THEN "unsealed" ELSE "sealed"]
    /\ twice' = IF robot[me[p].leg] = "none" THEN twice ELSE twice \cup {me[p].leg}
    /\ Goto(p, "record")
    /\ UNCHANGED <<family, lane, occ, at, foreign, broken, queue, lapses, used>>

CreateRefused(p) ==
    /\ me[p].pc = "create" /\ Hit("refuse")
    /\ occ' = occ \ {me[p].leg}
    /\ lapses' = lapses \cup {"givenback"}
    /\ Goto(p, "park")
    /\ UNCHANGED <<family, lane, at, foreign, robot, broken, queue, twice>>

\* parkLegOnFleetRefusal: dispatched -> sourcing, if it still is.
ParkLeg(p) ==
    /\ me[p].pc = "park"
    /\ Swap(me[p].leg, "dispatched", "sourcing")
    /\ Goto(p, "idle")
    /\ UNCHANGED <<kind, parent, chapter, why, vendor, floor, queue, seen>>

\* The re-read after the create, then the vendor id or the mission's cancel.
RecordVendor(p) ==
    /\ me[p].pc = "record"
    /\ IF Over(st[me[p].leg])
       THEN /\ robot' = Halted(me[p].leg)
            /\ occ' = occ \ {me[p].leg}
            /\ UNCHANGED vendor
       ELSE /\ vendor' = vendor \cup {me[p].leg}
            /\ UNCHANGED <<robot, occ>>
    /\ Goto(p, "idle")
    /\ UNCHANGED <<kind, parent, chapter, st, why, lane, at, foreign, broken, queue, seen>>

----------------------------------------------------------------------------
(***************************************************************************)
(* Cancelling the rest of a chapter.                                       *)
(***************************************************************************)
\* lifecycle.CancelOrder on a row read earlier: the fleet first, then the row.
\* A chapter-end cancel that wins asks for another call.
CancelOrder(p) ==
    /\ me[p].pc = "cancel"
    /\ \E c \in me[p].rest :
         /\ robot' = IF c[2] THEN Halted(c[1]) ELSE robot
         /\ Terminalize(c[1], "cancelled", me[p].detail)
         /\ IF ~Over(st[c[1]]) /\ me[p].detail \in {"dissolved", "legfailed"}
            THEN Wake(1) ELSE UNCHANGED wakes
         /\ me' = [me EXCEPT ![p] =
                      Moved([me[p] EXCEPT !.rest = me[p].rest \ {c}],
                            IF me[p].rest = {c} THEN me[p].then ELSE "cancel")]
    /\ UNCHANGED <<kind, parent, chapter, vendor, lane, at, foreign, broken, failed, seen>>

\* HandleChildOrderFailure.
HandleChildOrderFailure(p) ==
    /\ me[p].pc = "idle"
    /\ \E l \in failed :
         /\ failed' = failed \ {l}
         /\ IF Live \ {l} = {}
            THEN Wake(1) /\ UNCHANGED me
            ELSE Cancels(p, Live \ {l}, "legfailed", "idle", FALSE) /\ UNCHANGED wakes
    /\ UNCHANGED <<family, floor, seen>>

\* dissolveCompound; the requeue is left to the calls its cancels ask for.
DissolveCompound(p) ==
    /\ me[p].pc = "dissolve"
    /\ IF parent # "reshuffling"
       THEN Goto(p, "idle")
       ELSE Cancels(p, Live, "dissolved", "unlock", HoldsLane)
    /\ UNCHANGED <<family, floor, queue, seen>>

\* SweepStalledChapters on a chapter no robot is committed to and in which nothing
\* has been written for chapterStallWindow: every call is long over.  A chapter
\* with a mission is left alone, one whose last mission ended unheard as well.
SweepStalledChapters(p) ==
    /\ wakes = 0 /\ failed = {} /\ \A q \in Procs : me[q].pc = "idle"
    /\ parent = "reshuffling" /\ Live # {} /\ Live \cap vendor = {}
    /\ Goto(p, "dissolve")
    /\ UNCHANGED <<family, floor, queue, seen>>

\* CancelOrderWithCascade: the parent's row first ...
CancelParent(p) ==
    /\ me[p].pc = "idle" /\ ~Over(parent) /\ Hit("cancel")
    /\ EndParent("cancelled")
    /\ me' = [me EXCEPT ![p].pc = "children", ![p].held = HoldsLane]
    /\ UNCHANGED <<kind, chapter, st, why, vendor, occ, at, foreign, robot, broken, queue, twice, lapses>>

\* Mutant of CancelCompoundChildren: only the legs not sent yet.
CancelCompoundChildrenWaiting(p) ==
    /\ me[p].pc = "children"
    /\ Cancels(p, Awaiting, "other", "unlock", me[p].held)
    /\ UNCHANGED <<family, floor, queue, seen>>

\* ... then the children there are (cancelCompoundChildren).
CancelCompoundChildren(p) ==
    /\ me[p].pc = "children"
    /\ Cancels(p, Live, "other", "unlock", me[p].held)
    /\ UNCHANGED <<family, floor, queue, seen>>

\* unlockLaneForCompound.
UnlockLane(p) ==
    /\ me[p].pc = "unlock"
    /\ lapses' = IF me[p].held /\ HoldsLane THEN Late(p) ELSE lapses
    /\ lane' = IF me[p].held /\ lane # "rival" THEN "none" ELSE lane
    /\ Goto(p, "idle")
    /\ UNCHANGED <<family, occ, at, foreign, robot, broken, queue, twice, used>>

----------------------------------------------------------------------------
(***************************************************************************)
(* advanceCompoundChapterEnd: no leg is left to send.                      *)
(***************************************************************************)
\* Mutant of Verdict: a leg that ended badly counts as one that ended.
VerdictAllOver ==
    IF ConfigFailed THEN "fail" ELSE IF Open \cap Live # {} THEN "idle" ELSE "complete"

\* What the list of children amounts to.
Verdict ==
    IF ConfigFailed THEN "fail"
    ELSE IF LostALeg THEN "lost"
    ELSE IF DigWasDissolved THEN "requeue"
    ELSE IF Open \cap Live # {} THEN "idle" ELSE "complete"

ListChildOrders(p) ==
    /\ me[p].pc = "end"
    /\ me' = [me EXCEPT ![p] =
                 [@ EXCEPT !.pc = "parent", !.then = Verdict, !.chap = chapter,
                           !.rest = {<<l, l \in vendor>> : l \in Open \cap Live}]]
    /\ UNCHANGED <<family, floor, queue, seen>>

\* Mutant of Disposition: the demand goes back before the legs in flight have landed.
DispositionAtOnce(m) ==
    IF parent # "reshuffling" THEN Idle
    ELSE IF m.then # "lost" THEN Moved([m EXCEPT !.rest = {}, !.held = HoldsLane], m.then)
    ELSE [m EXCEPT !.pc = "requeue", !.held = HoldsLane]

\* What the caller does with it: a parent that has left is not this chapter's.
\* A lost leg closes the others first, and the demand waits for those in flight.
Disposition(m) ==
    IF parent # "reshuffling" THEN Idle
    ELSE IF m.then # "lost" THEN Moved([m EXCEPT !.rest = {}, !.held = HoldsLane], m.then)
    ELSE IF m.rest = {} THEN [m EXCEPT !.pc = "requeue", !.held = HoldsLane]
    ELSE [m EXCEPT !.pc = "cancel", !.detail = "legfailed", !.then = "idle"]

GetParent(p) ==
    /\ me[p].pc = "parent"
    /\ me' = [me EXCEPT ![p] = Disposition(@)]
    /\ UNCHANGED <<family, floor, queue, seen>>

FailParent(p) ==
    /\ me[p].pc = "fail"
    /\ EndParent("failed")
    /\ lapses' = Late(p)
    /\ Goto(p, "unlock")
    /\ UNCHANGED <<kind, chapter, st, why, vendor, occ, at, foreign, robot, broken, queue, twice, used>>

\* lifecycle.Queue, a compare and swap from reshuffling.
RequeueParent(p) ==
    /\ me[p].pc = "requeue"
    /\ parent' = IF parent = "reshuffling" THEN "queued" ELSE parent
    /\ lapses' = IF parent = "reshuffling" THEN Late(p) ELSE lapses
    /\ Goto(p, "unlock")
    /\ UNCHANGED <<kind, chapter, st, why, vendor, floor, queue, twice, used>>

\* CompleteCompound ends a plain parent, ResumeCompound requeues a coordinated one.
CompleteParent(p) ==
    /\ me[p].pc = "complete"
    /\ IF kind = "plain"
       THEN EndParent("confirmed")
       ELSE /\ parent' = IF parent = "reshuffling" THEN "queued" ELSE parent
            /\ UNCHANGED lane
    /\ lapses' = Late(p)
    /\ Goto(p, "release")
    /\ UNCHANGED <<kind, chapter, st, why, vendor, occ, at, foreign, robot, broken, queue, twice, used>>

ReleaseHeldLanes(p) ==
    /\ me[p].pc = "release"
    /\ IF me[p].held THEN ReleaseDig(at, robot) ELSE UNCHANGED lane
    /\ Goto(p, "idle")
    /\ UNCHANGED <<family, occ, at, foreign, robot, broken, queue, seen>>

----------------------------------------------------------------------------
(***************************************************************************)
(* The scanner plans a chapter.  One at a time, under scanMu.              *)
(***************************************************************************)
\* The legs of the next chapter, for the lane as it is.
Planned ==
    {l \in Legs : /\ l[1] = chapter + 1 /\ at[BinOf(l)] = "lane"
                  /\ BinOf(l) < Target \/ kind = "plain"}

\* A plain retrieve plans into no lane that anyone digs in, itself included
\* (IsLocked); a coordinated order may, if nobody claims a bin in its way.
PlanReshuffle(p) ==
    /\ me[p].pc = "idle" /\ \A q \in Procs : me[q].pc \notin {"lock", "write", "begin"}
    /\ parent = "queued" /\ chapter < MaxChapters
    /\ at[Target] = "lane" /\ Blockers(Target) # {}
    /\ IF kind = "plain" THEN lane \in {"none", "out"}
       ELSE lane # "rival" /\ ~SpokenFor(Target)
    /\ me' = [me EXCEPT ![p] = [@ EXCEPT !.pc = "lock", !.rest = Planned \X {FALSE}]]
    /\ UNCHANGED <<family, floor, queue, seen>>

\* TryLockFor: refused while another order holds the mouth.
TryLockLane(p) ==
    /\ me[p].pc = "lock"
    /\ lane' = IF lane = "rival" THEN lane ELSE "dig"
    /\ Goto(p, IF lane = "rival" THEN "idle" ELSE "write")
    /\ UNCHANGED <<family, occ, at, foreign, robot, broken, queue, seen>>

\* writeCompoundChildren; a leg for a bin may take the claim of an older leg, and
\* another order's claim on one of the bins takes the plan and the lock back.
WriteCompoundChildren(p) ==
    /\ me[p].pc = "write"
    /\ IF \E c \in me[p].rest : BinOf(c[1]) \in foreign
       THEN /\ lane' = "none" /\ Goto(p, "idle") /\ UNCHANGED <<chapter, st, lapses>>
       ELSE /\ chapter' = chapter + 1
            /\ st' = [l \in Legs |-> IF <<l, FALSE>> \in me[p].rest THEN "pending" ELSE st[l]]
            /\ me' = [me EXCEPT ![p] = [Idle EXCEPT !.pc = "begin"]]
            /\ lapses' = IF \E c \in me[p].rest : at[BinOf(c[1])] # "lane"
                         THEN lapses \cup {"gone"} ELSE lapses
            /\ UNCHANGED lane
    /\ UNCHANGED <<kind, parent, why, vendor, occ, at, foreign, robot, broken, queue,
                   twice, used>>

\* BeginReshuffle; a refusal is logged and the call advances anyway.
BeginReshuffle(p) ==
    /\ me[p].pc = "begin"
    /\ parent' = IF parent = "queued" THEN "reshuffling" ELSE parent
    /\ lapses' = IF parent = "queued" THEN lapses ELSE lapses \cup {"unbegun"}
    /\ Goto(p, "next")
    /\ UNCHANGED <<kind, chapter, st, why, vendor, floor, queue, twice, used>>

----------------------------------------------------------------------------
(***************************************************************************)
(* The floor and the fleet.                                                *)
(***************************************************************************)
\* The robot finds another bin in front, or none at all.
Walled(l) ==
    /\ robot[l] \in {"unsealed", "sealed"}
    /\ at[BinOf(l)] # "lane" \/ Blockers(BinOf(l)) # {}

\* Mutant of RowsAfterLift: the lift counts as the exit, a dweller's too.
RowsAfterLiftFreed(l) == occ \ {l}

\* holdsOccupancyThroughDwell: a robot that dwells has not left the lane.
RowsAfterLift(l) == IF robot[l] = "unsealed" THEN occ ELSE occ \ {l}

\* handlePickupBlockCompleted and releaseOccupancyOnExit: the bin is on the robot.
\* A dweller keeps its row; otherwise the corridor is free and the siblings are
\* called.
PickUp(l) ==
    /\ robot[l] \in {"unsealed", "sealed"} /\ l \in vendor /\ l \in Live
    /\ at[BinOf(l)] = "lane" /\ Blockers(BinOf(l)) = {}
    /\ at' = [at EXCEPT ![BinOf(l)] = "robot"]
    /\ robot' = [robot EXCEPT ![l] = IF @ = "unsealed" THEN "dwell" ELSE "away"]
    /\ occ' = RowsAfterLift(l)
    /\ ReleaseDig(at', robot')
    /\ IF robot[l] = "sealed" /\ Awaiting # {} THEN Wake(1) ELSE UNCHANGED wakes
    /\ UNCHANGED <<family, foreign, broken, failed, me, seen>>

\* releaseDwellingDigLeg, in a pass over the lane that finds a shuffle slot: the
\* tail is appended, the row dropped and the siblings called.  The pass asks only
\* for the wait in the plan, so it may come before the lift.  A row that cannot
\* be deleted stays.  With no slot, or a refused append, nothing changes.
ReleaseDwellingDigLeg(l) ==
    /\ l \in Live /\ Staged(l, robot)
    /\ robot' = [robot EXCEPT ![l] = IF @ = "dwell" THEN "away" ELSE "sealed"]
    /\ \/ occ' = occ \ {l} /\ UNCHANGED used
       \/ UNCHANGED occ /\ Hit("write")
    /\ ReleaseDig(at, robot')
    /\ IF Awaiting # {} THEN Wake(1) ELSE UNCHANGED wakes
    /\ UNCHANGED <<family, at, foreign, broken, failed, me, twice, lapses>>

\* The drop's block and the whole order: the leg is delivered.
Deliver(l) ==
    /\ robot[l] = "away" /\ l \in Live
    /\ robot' = [robot EXCEPT ![l] = "done"]
    /\ at' = [at EXCEPT ![BinOf(l)] = "out"]
    /\ st' = [st EXCEPT ![l] = "delivered"]
    /\ occ' = occ \ {l}
    /\ Wake(1)
    /\ UNCHANGED <<kind, parent, chapter, why, vendor, lane, foreign, broken, failed, me, seen>>

Confirm(l) ==
    /\ st[l] = "delivered"
    /\ Terminalize(l, "confirmed", "none")
    /\ Wake(1)
    /\ UNCHANGED <<kind, parent, chapter, vendor, lane, at, foreign, robot, broken, failed, me, seen>>

\* handleFleetOrderFailed: by a disturbance, or because the bin cannot be had.
FailLeg(l) ==
    /\ UnderWay(l) /\ l \in vendor /\ l \in Live
    /\ IF Walled(l) THEN UNCHANGED used ELSE Hit("fail")
    /\ Terminalize(l, "failed", "none")
    /\ robot' = [robot EXCEPT ![l] = "stopped"]
    /\ failed' = failed \cup {l}
    /\ UNCHANGED <<kind, parent, chapter, vendor, lane, at, foreign, broken, wakes, me, twice, lapses>>

\* handleFleetOrderCancelled: "fleet order stopped" is not a chapter's end.
StopLeg(l) ==
    /\ UnderWay(l) /\ l \in vendor /\ l \in Live /\ Hit("stop")
    /\ Terminalize(l, "cancelled", "other")
    /\ robot' = [robot EXCEPT ![l] = "stopped"]
    /\ UNCHANGED <<kind, parent, chapter, vendor, lane, at, foreign, broken, queue, me, twice, lapses>>

\* The mission ends and the leg's status does not follow: all that is left of it
\* is a vendor state that says so.
EndUnheard(l) ==
    /\ UnderWay(l) /\ l \in vendor /\ l \in Live /\ Hit("lost")
    /\ robot' = [robot EXCEPT ![l] = "stopped"]
    /\ UNCHANGED <<family, lane, occ, at, foreign, broken, queue, me, twice, lapses>>

\* Somebody puts a bin back in front of the others by hand, and another order
\* may have claimed it; that order takes it out.
Intrude(b) ==
    /\ at[b] = "out" /\ b < Target /\ Hit("intrude")
    /\ \A l \in Live : BinOf(l) # b
    /\ \A l \in Legs : ~InLane(l)
    /\ at' = [at EXCEPT ![b] = "lane"]
    /\ foreign' \in {foreign, foreign \cup {b}}
    /\ UNCHANGED <<family, lane, occ, robot, broken, queue, me, twice, lapses>>

ForeignTakes(b) ==
    /\ b \in foreign /\ occ = {} /\ \A l \in Legs : ~InLane(l)
    /\ at' = [at EXCEPT ![b] = "out"]
    /\ foreign' = foreign \ {b}
    /\ UNCHANGED <<family, lane, occ, robot, broken, queue, me, seen>>

\* A node a waiting leg names is taken out of the configuration.
Misconfigure(l) ==
    /\ l \in Awaiting /\ l \notin broken /\ Hit("config")
    /\ broken' = broken \cup {l}
    /\ UNCHANGED <<family, lane, occ, at, foreign, robot, queue, me, twice, lapses>>

\* Another order digs here when nobody holds the mouth, and is done.
RivalDig ==
    /\ lane = "none" /\ Hit("rival")
    /\ lane' = "rival"
    /\ UNCHANGED <<family, occ, at, foreign, robot, broken, queue, me, twice, lapses>>

RivalDone ==
    /\ lane = "rival"
    /\ lane' = "none"
    /\ UNCHANGED <<family, occ, at, foreign, robot, broken, queue, me, seen>>

\* ReapOrphanedReservations: the rows of orders that have ended.
ReapOrphaned ==
    /\ (Over(parent) /\ HoldsLane) \/ \E l \in occ : Over(st[l])
    /\ lane' = IF Over(parent) /\ HoldsLane THEN "none" ELSE lane
    /\ occ' = {l \in occ : ~Over(st[l])}
    /\ UNCHANGED <<family, at, foreign, robot, broken, queue, me, seen>>

\* The legs are written and the parent is not at reshuffling yet.
Beginning == \E p \in Procs : me[p].pc = "begin"

\* A cancel of the demand has not been through all its legs.
Cascading ==
    \E p \in Procs : \/ me[p].pc = "children"
                     \/ me[p].pc = "cancel" /\ me[p].detail = "other"

\* Core restarts: goroutines and events in flight are lost, the rows are not.
Crash ==
    /\ Hit("crash")
    /\ me' = [p \in Procs |-> Idle]
    /\ lapses' = lapses \cup (IF Beginning THEN {"unbegun"} ELSE {})
                       \cup (IF Cascading THEN {"cut"} ELSE {})
    /\ wakes' = 0
    /\ failed' = {}
    /\ UNCHANGED <<family, floor, twice>>

----------------------------------------------------------------------------
Advance(p) ==
    \/ GetNextChild(p) \/ FailUnbuildable(p) \/ Admit(p) \/ AdmitQuiet(p) \/ Reread(p)
    \/ TakeLaneOccupancy(p) \/ MoveToSourcing(p) \/ SourcingUnwritten(p) \/ CommitToFleet(p)
    \/ HandoverToFleet(p) \/ CreateOrder(p) \/ CreateRefused(p) \/ ParkLeg(p)
    \/ RecordVendor(p)

Settle(p) ==
    \/ CancelOrder(p) \/ HandleChildOrderFailure(p) \/ DissolveCompound(p)
    \/ CancelCompoundChildren(p) \/ UnlockLane(p)
    \/ ListChildOrders(p) \/ GetParent(p) \/ FailParent(p) \/ RequeueParent(p)
    \/ CompleteParent(p) \/ ReleaseHeldLanes(p)

Scan(p) == TryLockLane(p) \/ WriteCompoundChildren(p) \/ BeginReshuffle(p)

Next ==
    \/ \E p \in Procs :
          \/ Woken(p) \/ Sweep(p) \/ Advance(p) \/ Settle(p) \/ SweepStalledChapters(p)
          \/ CancelParent(p) \/ PlanReshuffle(p) \/ Scan(p)
    \/ \E l \in Legs :
          \/ PickUp(l) \/ ReleaseDwellingDigLeg(l) \/ Deliver(l) \/ Confirm(l)
          \/ FailLeg(l) \/ StopLeg(l) \/ EndUnheard(l) \/ Misconfigure(l)
    \/ \E b \in Bins : Intrude(b) \/ ForeignTakes(b)
    \/ RivalDig \/ RivalDone \/ ReapOrphaned \/ Crash

Spec == Init /\ [][Next]_vars

\* Calls in progress run on.  The sweeps are tickers, so they strike again and
\* again; a claimant that never moves is found quiet in the end; the reaper comes
\* round; a robot that is not disturbed finishes what it does.  Nothing promises
\* a dwelling leg its slot.
FairSpec ==
    /\ Spec
    /\ \A p \in Procs : WF_vars(Woken(p) \/ Advance(p) \/ Settle(p) \/ Scan(p))
    /\ \A p \in Procs : SF_vars(Sweep(p)) /\ SF_vars(SweepStalledChapters(p))
                          /\ SF_vars(AdmitQuiet(p))
    /\ \A l \in Legs : WF_vars(PickUp(l) \/ Deliver(l) \/ Confirm(l) \/ (Walled(l) /\ FailLeg(l)))
    /\ WF_vars(ReapOrphaned) /\ WF_vars(RivalDone) /\ \A b \in Bins : WF_vars(ForeignTakes(b))

----------------------------------------------------------------------------
\* Type invariant: the statuses the handlers may write.
TypeOK ==
    /\ kind \in {"plain", "coordinated"}
    /\ parent \in {"queued", "reshuffling", "confirmed", "failed", "cancelled"}
    /\ chapter \in 0 .. MaxChapters
    /\ st \in [Legs -> {"none", "pending", "sourcing", "dispatched", "delivered",
                        "confirmed", "failed", "cancelled"}]
    /\ why \in [Legs -> {"none", "config", "dissolved", "legfailed", "other"}]
    /\ vendor \cup occ \cup broken \cup failed \cup twice \subseteq Legs
    /\ lapses \subseteq {"givenback", "late", "unbegun", "cut", "gone"}
    /\ lane \in {"none", "dig", "out", "rival"}
    /\ at \in [Bins -> {"lane", "robot", "out"}] /\ foreign \subseteq Bins
    /\ robot \in [Legs -> {"none", "unsealed", "dwell", "sealed", "away", "stopped", "done"}]
    /\ wakes \in 0 .. MaxWakes /\ used \in 0 .. MaxHits
    /\ \A p \in Procs : me[p].leg \in Legs \cup {None} /\ me[p].rest \subseteq Legs \X BOOLEAN

\* The fleet is asked once for a leg, however many calls advance the compound at
\* the same time and wherever Core restarts: AdvanceCompoundOrder's re-read, the
\* pending -> sourcing claim and the sourcing -> dispatched hand-over.
SentOnce == twice = {}

\* Never two robots of one dig nose to tail in the lane: no leg is sent in behind
\* one that fetches its bin or dwells with it, although the legs are exempt from
\* their own dig's lock, callers that lose a leg share its row (compound.go's take
\* before the claim), and a pass that comes before the lift drops the row while
\* the robot is on its way in.  Left out: a refused create or a failed status
\* write, which give the row back while another caller hands the leg over; legs
\* of two chapters at once (late, unbegun); a leg written for a bin taken since.
SingleFile ==
    \/ lapses \cap {"givenback", "late", "unbegun", "gone"} # {}
    \/ \A l, k \in Live : InLane(l) /\ InLane(k) => l = k

\* A demand back in the queue has no leg alive: the chapter's end waits for the
\* legs still moving, and every other call finds the parent gone.  Left out:
\* a call that acts on a later chapter than it listed, and legs written for a
\* parent that was cancelled, or Core stopped, before BeginReshuffle.
ParentAwaitsLegs ==
    parent = "queued" /\ ~Beginning /\ lapses \cap {"late", "unbegun"} = {} => Live = {}

\* A plain retrieve is confirmed only when a leg has brought its bin, in whatever
\* chapter: CompleteCompound after legs that failed, were stopped or dissolved.
DemandServed ==
    kind = "plain" /\ parent = "confirmed" =>
        \E l \in Legs : BinOf(l) = Target /\ st[l] = "confirmed"

Served == \E l \in Legs : BinOf(l) = Target /\ st[l] = "confirmed"
StoppedAlone == \E l \in Legs : why[l] = "other"

\* A plain retrieve whose bin has been delivered is not in the queue to be
\* retrieved again: compoundGenerations keeps the legs of closed chapters out of
\* the verdict on the last one.  The lapses above are left out, and legs that the
\* fleet or an operator cancelled (ServedOnceAfterStop).
ServedOnce ==
    kind = "plain" /\ Served /\ ~Beginning /\ ~StoppedAlone
        /\ lapses \cap {"late", "unbegun"} = {} => parent # "queued"

\* The same with a leg the fleet stopped: endsItsChapter's comment promises that
\* the legs of every chapter that ended "must stop being counted".
ServedOnceAfterStop ==
    kind = "plain" /\ Served /\ ~Beginning /\ lapses = {} => parent # "queued"

Quiet == wakes = 0 /\ failed = {} /\ \A p \in Procs : me[p].pc = "idle"

\* Once the dust has settled a cancelled demand has no leg left alive
\* (cancelCompoundChildren against calls that send, park or re-plan legs), unless
\* the legs were written after the cancel, or Core stopped between the parent's
\* row and the last of the children's.
CancelReachesLegs ==
    Quiet /\ parent = "cancelled" /\ lapses \cap {"unbegun", "cut"} = {} => Live = {}

\* A leg that no sweep moves: its robot dwells for want of a shuffle slot, or its
\* mission ended unheard and SweepStalledChapters only raises the alarm.
Stands(l) == l \in Live /\ robot[l] \in {"dwell", "stopped"}

\* A demand stays at reshuffling only for a leg that stands for good: otherwise
\* every chapter is completed, failed or returned to the queue, whatever call
\* or event of AdvanceCompoundOrder was lost on the way.
ChapterEnds ==
    (\A l \in Legs : []<>~Stands(l)) => (parent = "reshuffling" ~> parent # "reshuffling")

=============================================================================
