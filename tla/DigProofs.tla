----------------------------- MODULE DigProofs -----------------------------
(***************************************************************************)
(* Proofs about a dig, for any number of bins in the lane, goroutines and  *)
(* chapters, and any disturbances.                                         *)
(***************************************************************************)
EXTENDS Dig, TLAPS

Statuses == {"none", "pending", "sourcing", "dispatched", "delivered",
             "confirmed", "failed", "cancelled"}
Reasons == {"dissolved", "legfailed", "other"}
Verdicts == {"fail", "lost", "requeue", "idle", "complete"}

\* The steps of a call: with a leg in hand, with a plan in hand, and the others.
LegSteps == {"admit", "reread", "take", "claim", "commit", "handover", "create",
             "park", "record"}
PlanSteps == {"lock", "write", "begin"}
Steps == LegSteps \cup PlanSteps
           \cup {"idle", "next", "cancel", "dissolve", "children", "unlock", "end",
                 "parent", "fail", "requeue", "complete", "release"}

\* What a goroutine remembers.
Mem == [pc : Steps, leg : Legs \cup {None}, was : Statuses \cup {None},
        rest : SUBSET (Legs \X BOOLEAN), detail : Reasons \cup {None},
        then : Verdicts \cup {"unlock", None}, held : BOOLEAN, chap : Nat]

MeOK == me \in [Procs -> Mem]

\* What the steps of a call have in hand when they are reached.
Routed ==
    /\ \A p \in Procs :
          /\ me[p].pc = "cancel" => me[p].then \in {"idle", "unlock"} /\ me[p].detail \in Reasons
          /\ me[p].pc = "parent" => me[p].then \in Verdicts
          /\ me[p].pc \in LegSteps => me[p].leg \in Legs /\ st[me[p].leg] # "none"
          /\ me[p].pc \in {"cancel", "parent"} => \A c \in me[p].rest : st[c[1]] # "none"
          /\ me[p].chap <= chapter

-----------------------------------------------------------------------------
(* How a goroutine moves.                                                  *)

\* Everything a goroutine remembers but its next step.
Kept(p) ==
    /\ me'[p].leg = me[p].leg /\ me'[p].was = me[p].was /\ me'[p].rest = me[p].rest
    /\ me'[p].detail = me[p].detail /\ me'[p].then = me[p].then
    /\ me'[p].held = me[p].held /\ me'[p].chap = me[p].chap

\* The memory a goroutine starts with.
LEMMA IdleMem == /\ Idle \in Mem /\ Idle.pc = "idle" /\ Idle.chap = 0 /\ Idle.rest = {}
BY DEF Idle, Mem, Steps

\* What Moved makes of a memory.
LEMMA MovedMem ==
    ASSUME NEW m \in Mem, NEW step \in Steps
    PROVE  /\ Moved(m, step) \in Mem /\ Moved(m, step).pc = step
           /\ step = "idle" => Moved(m, step) = Idle
           /\ step # "idle" => Moved(m, step) = [m EXCEPT !.pc = step]
<1>1. CASE step = "idle"
  BY <1>1, IdleMem, Zenon DEF Moved
<1>2. CASE step # "idle"
  BY <1>2 DEF Moved, Mem
<1> QED
  BY <1>1, <1>2, Zenon

\* The other goroutines are left alone.
LEMMA OneMoves ==
    ASSUME MeOK, NEW p \in Procs, NEW m \in Mem, me' = [me EXCEPT ![p] = m]
    PROVE  MeOK' /\ me'[p] = m /\ \A q \in Procs : q # p => me'[q] = me[q]
BY Zenon DEF MeOK

\* Goto forgets what was read when the call is over, and keeps it otherwise.
LEMMA GotoMoves ==
    ASSUME MeOK, NEW p \in Procs, NEW step \in Steps, Goto(p, step)
    PROVE  /\ MeOK' /\ \A q \in Procs : q # p => me'[q] = me[q]
           /\ me'[p].pc = step
           /\ step = "idle" => me'[p] = Idle
           /\ step # "idle" => Kept(p)
<1>1. me[p] \in Mem
  BY Zenon DEF MeOK
<1>2. me' = [me EXCEPT ![p] = Moved(me[p], step)] /\ Moved(me[p], step) \in Mem
  BY <1>1, MovedMem, Zenon DEF Goto
<1>3. MeOK' /\ me'[p] = Moved(me[p], step) /\ \A q \in Procs : q # p => me'[q] = me[q]
  BY <1>2, OneMoves, Zenon
<1>4. step # "idle" => Kept(p)
  BY <1>1, <1>3, MovedMem DEF Kept, Mem
<1>5. /\ Moved(me[p], step).pc = step
      /\ step = "idle" => Moved(me[p], step) = Idle
  BY <1>1, MovedMem, Zenon
<1> QED
  BY <1>3, <1>4, <1>5, Zenon

\* Calls that are over, or cut short by a restart.
ForgetMove(p) ==
    /\ me'[p] = Idle
    /\ me[p].pc \in {"children", "begin"} => Crash
    /\ me[p].pc = "cancel" => Crash \/ \E c \in me[p].rest : me[p].rest = {c} /\ Over(st'[c[1]])

\* Calls of AdvanceCompoundOrder, from outside or from a call in progress.
CallMove(p) ==
    /\ me[p].pc \in {"idle", "admit", "commit", "begin"} /\ me'[p].pc = "next"
    /\ me'[p].chap = me[p].chap
    /\ me[p].pc = "idle" => wakes > 0 \/ Children # {}
    /\ me[p].pc = "begin" => (parent = "queued" /\ parent' = "reshuffling") \/ "unbegun" \in lapses'

\* The lane as admit finds it for a leg that may go: clear, and nobody else's row.
Admitted(l) ==
    Blockers(BinOf(l)) = {} /\ occ \ {l} = {} /\ UNCHANGED <<st, at, occ, robot>>

\* Steps of a leg on its way to the fleet.
LegMove(p) ==
    /\ me'[p].chap = me[p].chap
    /\ \/ /\ me[p].pc = "next" /\ me'[p].pc = "admit"
          /\ me'[p].leg \in Awaiting /\ me'[p].was = st[me'[p].leg] /\ st' = st
       \/ /\ me'[p].leg = me[p].leg /\ me'[p].was = me[p].was
          /\ \/ me[p].pc = "admit" /\ me'[p].pc = "reread" /\ Admitted(me[p].leg)
             \/ me[p].pc = "admit" /\ me'[p].pc = "dissolve"
             \/ me[p].pc = "reread" /\ me'[p].pc = "take"
             \/ me[p].pc = "take" /\ me'[p].pc = "claim" /\ me[p].was = "pending"
             \/ me[p].pc = "take" /\ me'[p].pc = "commit" /\ me[p].was # "pending" /\ st' = st
             \/ me[p].pc = "claim" /\ me'[p].pc = "commit" /\ st'[me[p].leg] = "sourcing"
             \/ /\ me[p].pc = "commit" /\ me'[p].pc = "handover"
                /\ me[p].leg \in occ' /\ st' = st
             \/ /\ me[p].pc = "handover" /\ me'[p].pc = "create"
                /\ st[me[p].leg] = "sourcing" /\ st'[me[p].leg] = "dispatched"
                /\ UNCHANGED <<occ, robot>>
             \/ me[p].pc = "create" /\ me'[p].pc = "record"
             \/ /\ me[p].pc = "create" /\ me'[p].pc = "park"
                /\ "givenback" \in lapses' /\ UNCHANGED <<st, robot>>

\* Steps of a call that cancels legs one after another.
CancelMove(p) ==
    \/ /\ me[p].pc \in {"idle", "dissolve", "children"}
       /\ me'[p].chap = chapter /\ UNCHANGED family
       /\ \/ /\ me'[p].pc = "cancel" /\ Live # {}
             /\ me'[p].detail \in Reasons /\ me'[p].then \in {"idle", "unlock"}
             /\ \A c \in me'[p].rest : st[c[1]] # "none"
             /\ me[p].pc = "children" =>
                  /\ me'[p].detail = "other"
                  /\ \A l \in Live : \E v \in BOOLEAN : <<l, v>> \in me'[p].rest
          \/ me'[p].pc = "unlock" /\ Live = {}
    \/ /\ me[p].pc = "parent" /\ me'[p].pc = "cancel" /\ UNCHANGED family
       /\ me'[p].detail = "legfailed" /\ me'[p].then = "idle"
       /\ me'[p].rest = me[p].rest /\ me'[p].chap = me[p].chap
    \/ /\ me[p].pc = "cancel" /\ me'[p].chap = me[p].chap
       /\ \E c \in me[p].rest :
             /\ Over(st'[c[1]])
             /\ \/ /\ me'[p].pc = "cancel" /\ me'[p].rest = me[p].rest \ {c}
                   /\ me'[p].detail = me[p].detail /\ me'[p].then = me[p].then
                \/ me'[p].pc = "unlock" /\ me[p].rest = {c}

\* Steps of the chapter's end, the stalled-chapter sweep and the cancel.
EndMove(p) ==
    \/ me[p].pc = "next" /\ me'[p].pc = "end" /\ me'[p].chap = me[p].chap
    \/ /\ me[p].pc = "end" /\ me'[p].pc = "parent" /\ UNCHANGED family
       /\ me'[p].then = Verdict /\ me'[p].chap = chapter
       /\ me'[p].rest = {<<l, l \in vendor>> : l \in Open \cap Live}
    \/ /\ me[p].pc = "parent" /\ me'[p].pc \in {"fail", "requeue", "complete"}
       /\ UNCHANGED family /\ me'[p].chap = me[p].chap
       /\ \/ me[p].then = me'[p].pc
          \/ me[p].then = "lost" /\ me[p].rest = {} /\ me'[p].pc = "requeue"
    \/ /\ me[p].pc \in {"fail", "requeue"} /\ me'[p].pc = "unlock"
       /\ me'[p].chap = me[p].chap
    \/ /\ me[p].pc = "complete" /\ me'[p].pc = "release"
       /\ me'[p].chap = me[p].chap
    \/ /\ me[p].pc = "idle" /\ me'[p].pc = "dissolve" /\ Live # {}
       /\ me'[p].chap = me[p].chap /\ UNCHANGED family
    \/ /\ me[p].pc = "idle" /\ me'[p].pc = "children" /\ parent' = "cancelled"
       /\ me'[p].chap = me[p].chap /\ UNCHANGED st

\* Steps of the planner.
PlanMove(p) ==
    \/ /\ me[p].pc = "idle" /\ \A q \in Procs : me[q].pc \notin PlanSteps
       /\ me'[p].pc = "lock" /\ me'[p].rest = Planned \X {FALSE} /\ me'[p].chap = me[p].chap
       /\ parent = "queued" /\ chapter < MaxChapters /\ at[Target] = "lane"
       /\ UNCHANGED family
    \/ /\ me[p].pc = "lock" /\ me'[p].pc = "write" /\ me'[p].rest = me[p].rest
       /\ me'[p].chap = me[p].chap /\ UNCHANGED family
    \/ /\ me[p].pc = "write" /\ me'[p].pc = "begin" /\ me'[p].chap = 0
       /\ chapter' = chapter + 1

ProcMove(p) ==
    \/ me'[p] = me[p]
    \/ ForgetMove(p) \/ CallMove(p) \/ LegMove(p) \/ CancelMove(p) \/ EndMove(p) \/ PlanMove(p)

\* The steps of one goroutine.
ProcStep(p) ==
    \/ Woken(p) \/ Sweep(p) \/ Advance(p) \/ Settle(p) \/ SweepStalledChapters(p)
    \/ CancelParent(p) \/ PlanReshuffle(p) \/ Scan(p)

Others(p) == \A q \in Procs : q # p => me'[q] = me[q]

\* What Cancels leaves in a goroutine's memory: the legs, with what was read of them.
Listed(p, legs, reason, then) ==
    /\ me'[p].chap = chapter
    /\ legs = {} => me'[p].pc = "unlock"
    /\ legs # {} =>
         /\ me'[p].pc = "cancel" /\ me'[p].detail = reason /\ me'[p].then = then
         /\ me'[p].rest = {<<l, l \in vendor>> : l \in legs}

\* A goroutine turns to the legs it has to cancel, or on to the step after them.
LEMMA CancelsMoves ==
    ASSUME MeOK, chapter \in Nat, NEW p \in Procs, NEW legs \in SUBSET Children,
           NEW reason \in Reasons, NEW then \in {"idle", "unlock"}, NEW holds \in BOOLEAN,
           Cancels(p, legs, reason, then, holds), legs # {} \/ then = "unlock"
    PROVE  MeOK' /\ Others(p) /\ Listed(p, legs, reason, then)
<1> DEFINE rest == {<<l, l \in vendor>> : l \in legs}
           m == [me[p] EXCEPT !.rest = rest, !.detail = reason, !.then = then,
                              !.held = holds, !.chap = chapter]
           step == IF legs = {} THEN then ELSE "cancel"
<1>1. rest \in SUBSET (Legs \X BOOLEAN)
  <2>1. \A l \in legs : <<l, l \in vendor>> \in Legs \X BOOLEAN
    <3>1. \A l \in legs : l \in Legs
      BY Zenon DEF Children
    <3>2. \A l : (l \in vendor) \in BOOLEAN
      OBVIOUS
    <3> QED
      BY <3>1, <3>2, Zenon
  <2> QED
    BY <2>1, Zenon
<1>2. me[p] \in Mem
  BY Zenon DEF MeOK
<1>3. /\ m \in Mem /\ m.rest = rest /\ m.detail = reason /\ m.then = then
      /\ m.chap = chapter
  <2> HIDE DEF rest
  <2> QED
    BY <1>1, <1>2 DEF Mem, Verdicts
<1>4. step \in Steps /\ step # "idle" /\ step = (IF legs = {} THEN "unlock" ELSE "cancel")
  BY Zenon DEF Steps
<1>5. Moved(m, step) \in Mem /\ Moved(m, step) = [m EXCEPT !.pc = step]
  <2> HIDE DEF m, step
  <2> QED
    BY <1>3, <1>4, MovedMem, Zenon
<1>6. me' = [me EXCEPT ![p] = Moved(m, step)]
  BY Zenon DEF Cancels
<1>7. MeOK' /\ Others(p) /\ me'[p] = [m EXCEPT !.pc = step]
  <2> HIDE DEF m, step
  <2> QED
    BY <1>5, <1>6, OneMoves, Zenon DEF Others
<1>8. /\ me'[p].pc = step /\ me'[p].rest = rest /\ me'[p].detail = reason
      /\ me'[p].then = then /\ me'[p].chap = chapter
  <2> HIDE DEF m, step, rest
  <2> QED
    BY <1>3, <1>7 DEF Mem
<1> QED
  BY <1>4, <1>7, <1>8, Zenon DEF Listed

\* The calls of AdvanceCompoundOrder.
LEMMA CallMoves ==
    ASSUME TypeOK, MeOK, Routed, NEW p \in Procs, Woken(p) \/ Sweep(p) \/ BeginReshuffle(p)
                                                  \/ FailUnbuildable(p)
    PROVE  MeOK' /\ Others(p) /\ CallMove(p)
<1>1. Goto(p, "next") /\ me[p].pc \in {"idle", "admit", "commit", "begin"}
  BY Zenon DEF Woken, Sweep, BeginReshuffle, FailUnbuildable
<1>2. "next" \in Steps
  BY Zenon DEF Steps
<1>3. MeOK' /\ Others(p) /\ me'[p].pc = "next" /\ Kept(p)
  BY <1>1, <1>2, GotoMoves, Zenon DEF Others
<1>4. me[p].pc = "idle" => wakes > 0 \/ Children # {}
  BY Zenon DEF Woken, Sweep, BeginReshuffle, FailUnbuildable, Awaiting
<1>5. me[p].pc = "begin" => (parent = "queued" /\ parent' = "reshuffling") \/ "unbegun" \in lapses'
  BY Zenon DEF Woken, Sweep, BeginReshuffle, FailUnbuildable
<1> QED
  BY <1>1, <1>3, <1>4, <1>5, Zenon DEF CallMove, Kept

\* The steps of a leg on its way.
LEMMA LegMoves ==
    ASSUME TypeOK, MeOK, Routed, NEW p \in Procs,
           Advance(p), ~FailUnbuildable(p)
    PROVE  MeOK' /\ Others(p) /\ ProcMove(p)
<1> USE DEF Others
<1>0. me[p] \in Mem
  BY Zenon DEF MeOK
<1>1. CASE GetNextChild(p)
  <2>1. CASE Awaiting = {}
    <3>1. Goto(p, "end") /\ "end" \in Steps
      BY <1>1, <2>1, Zenon DEF GetNextChild, Steps
    <3> QED
      BY <1>1, <3>1, GotoMoves, Zenon DEF GetNextChild, ProcMove, EndMove, Kept
  <2>2. CASE Awaiting # {}
    <3>1. PICK l \in NextChildren :
             me' = [me EXCEPT ![p] = [me[p] EXCEPT !.pc = "admit", !.leg = l, !.was = st[l]]]
      BY <1>1, <2>2, Zenon DEF GetNextChild
    <3> DEFINE m == [me[p] EXCEPT !.pc = "admit", !.leg = l, !.was = st[l]]
    <3>2. l \in Awaiting /\ l \in Legs
      BY Zenon DEF NextChildren, Awaiting, Children
    <3>3. st[l] \in Statuses
      BY <3>2, Zenon DEF TypeOK, Statuses
    <3>4. /\ m \in Mem /\ m.pc = "admit" /\ m.leg = l /\ m.was = st[l]
          /\ m.chap = me[p].chap
      BY <1>0, <3>2, <3>3 DEF Mem, Steps, LegSteps
    <3> HIDE DEF m
    <3>5. MeOK' /\ Others(p) /\ me'[p] = m
      BY <3>1, <3>4, OneMoves, Zenon DEF m
    <3>6. st' = st
      BY <1>1 DEF GetNextChild, family
    <3> QED
      BY <1>1, <3>2, <3>4, <3>5, <3>6, Zenon DEF GetNextChild, ProcMove, LegMove
  <2> QED
    BY <2>1, <2>2, Zenon
<1>2. CASE Admit(p) \/ AdmitQuiet(p)
  <2>1. PICK step \in {"idle", "reread", "dissolve"} : Goto(p, step)
    BY <1>2, Zenon DEF Admit, AdmitQuiet
  <2>2. step \in Steps /\ me[p].pc = "admit"
    BY <1>2, Zenon DEF Steps, LegSteps, Admit, AdmitQuiet
  <2>3. /\ MeOK' /\ \A q \in Procs : q # p => me'[q] = me[q]
        /\ me'[p].pc = step
        /\ step = "idle" => me'[p] = Idle
        /\ step # "idle" => Kept(p)
    BY <2>1, <2>2, GotoMoves, Zenon
  <2>4. CASE step = "reread"
    <3>1. Admit(p)
      <4>1. AdmitQuiet(p) => Goto(p, "dissolve") /\ "dissolve" \in Steps
        BY Zenon DEF AdmitQuiet, Steps
      <4>2. ~AdmitQuiet(p)
        BY <2>3, <2>4, <4>1, GotoMoves, Zenon
      <4> QED
        BY <1>2, <4>2, Zenon
    <3>2. \/ Blockers(BinOf(me[p].leg)) = {} /\ occ \ {me[p].leg} = {}
          \/ Goto(p, "idle") \/ Goto(p, "dissolve")
      BY <3>1, Zenon DEF Admit
    <3>3. "idle" \in Steps /\ "dissolve" \in Steps
      BY Zenon DEF Steps
    <3>4. Blockers(BinOf(me[p].leg)) = {} /\ occ \ {me[p].leg} = {}
      BY <2>3, <2>4, <3>2, <3>3, GotoMoves, Zenon
    <3>5. UNCHANGED <<st, at, occ, robot>>
      BY <3>1 DEF Admit, family, floor
    <3> QED
      BY <2>2, <2>3, <2>4, <3>4, <3>5, Zenon DEF ProcMove, LegMove, Admitted, Kept
  <2> QED
    BY <2>1, <2>2, <2>3, <2>4, Zenon DEF ProcMove, ForgetMove, LegMove, Kept
<1>3. CASE Reread(p)
  <2>1. PICK step \in {"idle", "take"} : Goto(p, step)
    BY <1>3, Zenon DEF Reread
  <2>2. step \in Steps /\ me[p].pc = "reread"
    BY <1>3, Zenon DEF Steps, LegSteps, Reread
  <2> QED
    BY <2>1, <2>2, GotoMoves, Zenon DEF ProcMove, ForgetMove, LegMove, Kept
<1>4. CASE TakeLaneOccupancy(p)
  <2>1. PICK step \in {"claim", "commit"} : Goto(p, step) /\ (step = "claim" <=> me[p].was = "pending")
    BY <1>4, Zenon DEF TakeLaneOccupancy
  <2>2. step \in Steps /\ me[p].pc = "take"
    BY <1>4, Zenon DEF Steps, LegSteps, TakeLaneOccupancy
  <2>3. st' = st
    BY <1>4 DEF TakeLaneOccupancy, family
  <2> QED
    BY <2>1, <2>2, <2>3, GotoMoves, Zenon DEF ProcMove, LegMove, Kept
<1>5. CASE MoveToSourcing(p)
  <2>1. PICK step \in {"idle", "commit"} : Goto(p, step) /\ (step = "commit" => st[me[p].leg] = "pending")
    BY <1>5, Zenon DEF MoveToSourcing
  <2>2. step \in Steps /\ me[p].pc = "claim"
    BY <1>5, Zenon DEF Steps, LegSteps, MoveToSourcing
  <2>3. st[me[p].leg] = "pending" => st'[me[p].leg] = "sourcing"
    <3>1. me[p].leg \in Legs
      BY <2>2, Zenon DEF Routed, LegSteps
    <3> QED
      BY <1>5, <3>1, Zenon DEF MoveToSourcing, Swap, TypeOK
  <2> QED
    BY <2>1, <2>2, <2>3, GotoMoves, Zenon DEF ProcMove, ForgetMove, LegMove, Kept
<1>6. CASE CommitToFleet(p)
  <2>1. Goto(p, "handover") /\ me[p].leg \in occ' /\ me[p].pc = "commit"
    BY <1>6, Zenon DEF CommitToFleet
  <2>2. "handover" \in Steps
    BY Zenon DEF Steps, LegSteps
  <2>3. st' = st
    BY <1>6 DEF CommitToFleet, family
  <2> QED
    BY <2>1, <2>2, <2>3, GotoMoves, Zenon DEF ProcMove, LegMove, Kept
<1>7. CASE HandoverToFleet(p)
  <2>1. PICK step \in {"idle", "create"} : Goto(p, step) /\ (step = "create" => st[me[p].leg] = "sourcing")
    BY <1>7, Zenon DEF HandoverToFleet
  <2>2. step \in Steps /\ me[p].pc = "handover"
    BY <1>7, Zenon DEF Steps, LegSteps, HandoverToFleet
  <2>3. st[me[p].leg] = "sourcing" => st'[me[p].leg] = "dispatched"
    <3>1. me[p].leg \in Legs
      BY <2>2, Zenon DEF Routed, LegSteps
    <3> QED
      BY <1>7, <3>1, Zenon DEF HandoverToFleet, Swap, TypeOK
  <2>4. UNCHANGED <<occ, robot>>
    BY <1>7 DEF HandoverToFleet, floor
  <2> QED
    BY <2>1, <2>2, <2>3, <2>4, GotoMoves, Zenon DEF ProcMove, ForgetMove, LegMove, Kept
<1>8. CASE CreateOrder(p)
  <2>1. Goto(p, "record") /\ "record" \in Steps /\ me[p].pc = "create"
    BY <1>8, Zenon DEF CreateOrder, Steps, LegSteps
  <2> QED
    BY <2>1, GotoMoves, Zenon DEF ProcMove, LegMove, Kept
<1>9. CASE CreateRefused(p)
  <2>1. Goto(p, "park") /\ "park" \in Steps /\ me[p].pc = "create" /\ "givenback" \in lapses'
    BY <1>9, Zenon DEF CreateRefused, Steps, LegSteps
  <2>2. UNCHANGED <<st, robot>>
    BY <1>9 DEF CreateRefused, family
  <2> QED
    BY <2>1, <2>2, GotoMoves, Zenon DEF ProcMove, LegMove, Kept
<1>10. CASE ParkLeg(p) \/ RecordVendor(p) \/ SourcingUnwritten(p)
  <2>1. Goto(p, "idle") /\ "idle" \in Steps /\ me[p].pc \in {"claim", "park", "record"}
    BY <1>10, Zenon DEF ParkLeg, RecordVendor, SourcingUnwritten, Steps
  <2> QED
    BY <2>1, GotoMoves, Zenon DEF ProcMove, ForgetMove
<1> QED
  BY <1>1, <1>2, <1>3, <1>4, <1>5, <1>6, <1>7, <1>8, <1>9, <1>10, Zenon DEF Advance

\* The cancels of a chapter's legs.
LEMMA SettleMoves ==
    ASSUME TypeOK, MeOK, Routed, NEW p \in Procs,
           \/ CancelOrder(p) \/ HandleChildOrderFailure(p) \/ DissolveCompound(p)
           \/ CancelCompoundChildren(p) \/ UnlockLane(p)
    PROVE  MeOK' /\ Others(p) /\ ProcMove(p)
<1> USE DEF Others
<1>0. me[p] \in Mem /\ chapter \in Nat
  BY DEF MeOK, TypeOK
<1>1. CASE CancelOrder(p)
  <2>1. PICK c \in me[p].rest :
           /\ me' = [me EXCEPT ![p] = Moved([me[p] EXCEPT !.rest = me[p].rest \ {c}],
                                            IF me[p].rest = {c} THEN me[p].then ELSE "cancel")]
           /\ Terminalize(c[1], "cancelled", me[p].detail)
    BY <1>1 DEF CancelOrder
  <2> DEFINE m == [me[p] EXCEPT !.rest = me[p].rest \ {c}]
             step == IF me[p].rest = {c} THEN me[p].then ELSE "cancel"
  <2>2. /\ m \in Mem /\ m.rest = me[p].rest \ {c} /\ m.detail = me[p].detail
        /\ m.then = me[p].then /\ m.chap = me[p].chap
    BY <1>0 DEF Mem
  <2>3. /\ step \in Steps /\ step \in {"idle", "unlock", "cancel"}
        /\ step \in {"idle", "unlock"} => me[p].rest = {c}
        /\ me[p].pc = "cancel"
    <3>1. me[p].pc = "cancel" /\ me[p].then \in {"idle", "unlock"}
      BY <1>1, Zenon DEF CancelOrder, Routed
    <3> QED
      BY <3>1, Zenon DEF Steps
  <2> HIDE DEF m, step
  <2>4. /\ Moved(m, step) \in Mem
        /\ step = "idle" => Moved(m, step) = Idle
        /\ step # "idle" => Moved(m, step) = [m EXCEPT !.pc = step]
    BY <2>2, <2>3, MovedMem, Zenon
  <2>5. MeOK' /\ Others(p) /\ me'[p] = Moved(m, step)
    BY <2>1, <2>4, OneMoves, Zenon DEF m, step
  <2>6. step # "idle" => /\ me'[p].pc = step /\ me'[p].rest = me[p].rest \ {c}
                         /\ me'[p].detail = me[p].detail
                         /\ me'[p].then = me[p].then /\ me'[p].chap = me[p].chap
    BY <2>2, <2>4, <2>5 DEF Mem
  <2>7. Over(st'[c[1]])
    <3>1. c[1] \in Legs
      BY <1>0 DEF Mem
    <3> QED
      BY <2>1, <3>1, Zenon DEF Terminalize, Over, TypeOK
  <2>8. CASE step = "idle"
    BY <2>3, <2>4, <2>5, <2>7, <2>8, Zenon DEF ProcMove, ForgetMove
  <2>9. CASE step # "idle"
    BY <2>3, <2>5, <2>6, <2>7, <2>9, Zenon DEF ProcMove, CancelMove
  <2> QED
    BY <2>8, <2>9, Zenon
<1>2. CASE HandleChildOrderFailure(p)
  <2>1. PICK l \in failed :
          IF Live \ {l} = {} THEN UNCHANGED me
          ELSE Cancels(p, Live \ {l}, "legfailed", "idle", FALSE)
    BY <1>2, Zenon DEF HandleChildOrderFailure
  <2>2. CASE Live \ {l} = {}
    BY <2>1, <2>2, Zenon DEF ProcMove, MeOK
  <2>3. CASE Live \ {l} # {}
    <3>1. Live \ {l} \in SUBSET Children /\ "legfailed" \in Reasons
      BY Zenon DEF Live, Reasons
    <3>2. /\ MeOK' /\ Others(p) /\ me'[p].chap = chapter
          /\ me'[p].pc = "cancel" /\ me'[p].detail = "legfailed" /\ me'[p].then = "idle"
          /\ me'[p].rest = {<<k, k \in vendor>> : k \in Live \ {l}}
      <4>1. MeOK' /\ Others(p) /\ Listed(p, Live \ {l}, "legfailed", "idle")
        BY <1>0, <2>1, <2>3, <3>1, CancelsMoves, Zenon
      <4> QED
        BY <2>3, <4>1, Zenon DEF Listed
    <3>3. \A c \in me'[p].rest : st[c[1]] # "none"
      BY <3>2 DEF Live, Children
    <3>4. me[p].pc = "idle" /\ UNCHANGED family /\ Live # {}
      BY <1>2, <2>3, Zenon DEF HandleChildOrderFailure
    <3> QED
      BY <3>1, <3>2, <3>3, <3>4, Zenon DEF ProcMove, CancelMove
  <2> QED
    BY <2>2, <2>3, Zenon
<1>3. CASE DissolveCompound(p)
  <2>1. CASE parent # "reshuffling"
    <3>1. Goto(p, "idle") /\ "idle" \in Steps /\ me[p].pc = "dissolve"
      BY <1>3, <2>1, Zenon DEF DissolveCompound, Steps
    <3> QED
      BY <3>1, GotoMoves, Zenon DEF ProcMove, ForgetMove
  <2>2. CASE parent = "reshuffling"
    <3>1. Live \in SUBSET Children /\ "dissolved" \in Reasons /\ HoldsLane \in BOOLEAN
      <4>1. HoldsLane \in BOOLEAN
        BY DEF HoldsLane
      <4> QED
        BY <4>1, Zenon DEF Live, Reasons
    <3>0. PICK h \in BOOLEAN : Cancels(p, Live, "dissolved", "unlock", h)
      BY <1>3, <2>2, <3>1 DEF DissolveCompound
    <3>2. /\ MeOK' /\ Others(p) /\ me'[p].chap = chapter
          /\ Live = {} => me'[p].pc = "unlock"
          /\ Live # {} =>
               /\ me'[p].pc = "cancel" /\ me'[p].detail = "dissolved" /\ me'[p].then = "unlock"
               /\ me'[p].rest = {<<k, k \in vendor>> : k \in Live}
      <4>1. MeOK' /\ Others(p) /\ Listed(p, Live, "dissolved", "unlock")
        BY <1>0, <3>0, <3>1, CancelsMoves, Zenon
      <4> QED
        BY <4>1, Zenon DEF Listed
    <3>3. Live # {} => \A c \in me'[p].rest : st[c[1]] # "none"
      BY <3>2 DEF Live, Children
    <3>4. me[p].pc = "dissolve" /\ UNCHANGED family
      BY <1>3, Zenon DEF DissolveCompound
    <3> QED
      BY <3>1, <3>2, <3>3, <3>4, Zenon DEF ProcMove, CancelMove
  <2> QED
    BY <2>1, <2>2, Zenon
<1>4. CASE CancelCompoundChildren(p)
  <2>1. Live \in SUBSET Children /\ "other" \in Reasons /\ me[p].held \in BOOLEAN
    <3>1. me[p].held \in BOOLEAN
      BY <1>0 DEF Mem
    <3> QED
      BY <3>1, Zenon DEF Live, Reasons
  <2>0. PICK h \in BOOLEAN : Cancels(p, Live, "other", "unlock", h)
    BY <1>4, <2>1 DEF CancelCompoundChildren
  <2>2. /\ MeOK' /\ Others(p) /\ me'[p].chap = chapter
        /\ Live = {} => me'[p].pc = "unlock"
        /\ Live # {} =>
             /\ me'[p].pc = "cancel" /\ me'[p].detail = "other" /\ me'[p].then = "unlock"
             /\ me'[p].rest = {<<k, k \in vendor>> : k \in Live}
    <3>1. MeOK' /\ Others(p) /\ Listed(p, Live, "other", "unlock")
      BY <1>0, <2>0, <2>1, CancelsMoves, Zenon
    <3> QED
      BY <3>1, Zenon DEF Listed
  <2>3. Live # {} => \A c \in me'[p].rest : st[c[1]] # "none"
    BY <2>2 DEF Live, Children
  <2>4. me[p].pc = "children" /\ UNCHANGED family
    BY <1>4, Zenon DEF CancelCompoundChildren
  <2>5. Live # {} => \A l \in Live : \E v \in BOOLEAN : <<l, v>> \in me'[p].rest
    <3>1. \A l : (l \in vendor) \in BOOLEAN
      OBVIOUS
    <3> QED
      BY <2>2, <3>1, Zenon
  <2> QED
    BY <2>1, <2>2, <2>3, <2>4, <2>5, Zenon DEF ProcMove, CancelMove
<1>5. CASE UnlockLane(p)
  <2>1. Goto(p, "idle") /\ "idle" \in Steps /\ me[p].pc = "unlock"
    BY <1>5, Zenon DEF UnlockLane, Steps
  <2> QED
    BY <2>1, GotoMoves, Zenon DEF ProcMove, ForgetMove
<1> QED
  BY <1>1, <1>2, <1>3, <1>4, <1>5, Zenon

\* The verdict on a list of children.
LEMMA VerdictOK == Verdict \in Verdicts
BY Zenon DEF Verdict, Verdicts

\* The end of a chapter, and the calls that cancel the parent or find it stalled.
LEMMA EndMoves ==
    ASSUME TypeOK, MeOK, Routed, NEW p \in Procs,
           \/ ListChildOrders(p) \/ GetParent(p) \/ FailParent(p) \/ RequeueParent(p)
           \/ CompleteParent(p) \/ ReleaseHeldLanes(p) \/ SweepStalledChapters(p)
           \/ CancelParent(p)
    PROVE  MeOK' /\ Others(p) /\ ProcMove(p)
<1> USE DEF Others
<1>0. me[p] \in Mem /\ chapter \in Nat
  BY DEF MeOK, TypeOK
<1>1. CASE ListChildOrders(p)
  <2> DEFINE rest == {<<l, l \in vendor>> : l \in Open \cap Live}
             m == [me[p] EXCEPT !.pc = "parent", !.then = Verdict, !.chap = chapter, !.rest = rest]
  <2>1. rest \in SUBSET (Legs \X BOOLEAN)
    <3>1. \A l \in Open \cap Live : <<l, l \in vendor>> \in Legs \X BOOLEAN
      <4>1. \A l \in Open \cap Live : l \in Legs
        BY Zenon DEF Children, Live
      <4>2. \A l : (l \in vendor) \in BOOLEAN
        OBVIOUS
      <4> QED
        BY <4>1, <4>2, Zenon
    <3> QED
      BY <3>1, Zenon
  <2>2. /\ m \in Mem /\ m.pc = "parent" /\ m.then = Verdict /\ m.chap = chapter
        /\ m.rest = rest
    <3> HIDE DEF rest
    <3> QED
      BY <1>0, <2>1, VerdictOK DEF Mem, Steps
  <2>3. me' = [me EXCEPT ![p] = m]
    BY <1>1, Zenon DEF ListChildOrders
  <2>4. MeOK' /\ Others(p) /\ me'[p] = m
    <3> HIDE DEF m
    <3> QED
      BY <2>2, <2>3, OneMoves, Zenon
  <2>5. me[p].pc = "end" /\ UNCHANGED family
    BY <1>1, Zenon DEF ListChildOrders
  <2>6. EndMove(p)
    <3> HIDE DEF m
    <3> QED
      BY <2>2, <2>4, <2>5, Zenon DEF EndMove
  <2> QED
    BY <2>4, <2>6, Zenon DEF ProcMove
<1>2. CASE GetParent(p)
  <2>0. /\ me[p].pc = "parent" /\ UNCHANGED family
        /\ me' = [me EXCEPT ![p] = Disposition(me[p])] /\ me[p].then \in Verdicts
    BY <1>2, Zenon DEF GetParent, Routed
  <2>1. CASE parent # "reshuffling"
    <3>1. me' = [me EXCEPT ![p] = Idle]
      BY <2>0, <2>1, Zenon DEF Disposition
    <3> QED
      BY <2>0, <3>1, IdleMem, OneMoves, Zenon DEF ProcMove, ForgetMove
  <2>2. CASE parent = "reshuffling" /\ me[p].then # "lost"
    <3> DEFINE m == [me[p] EXCEPT !.rest = {}, !.held = HoldsLane]
    <3>1. me' = [me EXCEPT ![p] = Moved(m, me[p].then)]
      BY <2>0, <2>2, Zenon DEF Disposition
    <3>2. m \in Mem /\ m.chap = me[p].chap
      <4>1. HoldsLane \in BOOLEAN
        BY DEF HoldsLane
      <4> QED
        BY <1>0, <4>1 DEF Mem
    <3>3. me[p].then \in Steps /\ me[p].then \in {"idle", "fail", "requeue", "complete"}
      BY <2>0, <2>2, Zenon DEF Steps, Verdicts
    <3> HIDE DEF m
    <3>4. /\ Moved(m, me[p].then) \in Mem
          /\ me[p].then = "idle" => Moved(m, me[p].then) = Idle
          /\ me[p].then # "idle" => Moved(m, me[p].then) = [m EXCEPT !.pc = me[p].then]
      BY <3>2, <3>3, MovedMem, Zenon
    <3>5. MeOK' /\ Others(p) /\ me'[p] = Moved(m, me[p].then)
      BY <3>1, <3>4, OneMoves, Zenon
    <3>6. me[p].then # "idle" => me'[p].pc = me[p].then /\ me'[p].chap = me[p].chap
      BY <3>2, <3>4, <3>5 DEF Mem
    <3>7. CASE me[p].then = "idle"
      BY <2>0, <3>4, <3>5, <3>7, Zenon DEF ProcMove, ForgetMove
    <3>8. CASE me[p].then # "idle"
      BY <2>0, <3>3, <3>5, <3>6, <3>8, Zenon DEF ProcMove, EndMove
    <3> QED
      BY <3>7, <3>8, Zenon
  <2>3. CASE parent = "reshuffling" /\ me[p].then = "lost" /\ me[p].rest = {}
    <3> DEFINE m == [me[p] EXCEPT !.pc = "requeue", !.held = HoldsLane]
    <3>1. me' = [me EXCEPT ![p] = m]
      BY <2>0, <2>3, Zenon DEF Disposition
    <3>2. m \in Mem /\ m.chap = me[p].chap /\ m.pc = "requeue"
      <4>1. HoldsLane \in BOOLEAN
        BY DEF HoldsLane
      <4> QED
        BY <1>0, <4>1 DEF Mem, Steps
    <3> HIDE DEF m
    <3>3. MeOK' /\ Others(p) /\ me'[p] = m
      BY <3>1, <3>2, OneMoves, Zenon
    <3> QED
      BY <2>0, <2>3, <3>2, <3>3, Zenon DEF ProcMove, EndMove
  <2>4. CASE parent = "reshuffling" /\ me[p].then = "lost" /\ me[p].rest # {}
    <3> DEFINE m == [me[p] EXCEPT !.pc = "cancel", !.detail = "legfailed", !.then = "idle"]
    <3>1. me' = [me EXCEPT ![p] = m]
      BY <2>0, <2>4, Zenon DEF Disposition
    <3>2. /\ m \in Mem /\ m.chap = me[p].chap /\ m.pc = "cancel" /\ m.detail = "legfailed"
          /\ m.then = "idle" /\ m.rest = me[p].rest
      BY <1>0 DEF Mem, Steps, Reasons, Verdicts
    <3> HIDE DEF m
    <3>3. MeOK' /\ Others(p) /\ me'[p] = m
      BY <3>1, <3>2, OneMoves, Zenon
    <3> QED
      BY <2>0, <3>2, <3>3, Zenon DEF ProcMove, CancelMove
  <2> QED
    BY <2>1, <2>2, <2>3, <2>4, Zenon
<1>3. CASE FailParent(p) \/ RequeueParent(p)
  <2>1. Goto(p, "unlock") /\ "unlock" \in Steps /\ me[p].pc \in {"fail", "requeue"}
    BY <1>3, Zenon DEF FailParent, RequeueParent, Steps
  <2> QED
    BY <2>1, GotoMoves, Zenon DEF ProcMove, EndMove, Kept
<1>4. CASE CompleteParent(p)
  <2>1. Goto(p, "release") /\ "release" \in Steps /\ me[p].pc = "complete"
    BY <1>4, Zenon DEF CompleteParent, Steps
  <2> QED
    BY <2>1, GotoMoves, Zenon DEF ProcMove, EndMove, Kept
<1>5. CASE ReleaseHeldLanes(p)
  <2>1. Goto(p, "idle") /\ "idle" \in Steps /\ me[p].pc = "release"
    BY <1>5, Zenon DEF ReleaseHeldLanes, Steps
  <2> QED
    BY <2>1, GotoMoves, Zenon DEF ProcMove, ForgetMove
<1>6. CASE SweepStalledChapters(p)
  <2>1. /\ Goto(p, "dissolve") /\ "dissolve" \in Steps /\ me[p].pc = "idle" /\ Live # {}
        /\ UNCHANGED family
    BY <1>6, Zenon DEF SweepStalledChapters, Steps
  <2> QED
    BY <2>1, GotoMoves, Zenon DEF ProcMove, EndMove, Kept
<1>7. CASE CancelParent(p)
  <2> DEFINE m == [me[p] EXCEPT !.pc = "children", !.held = HoldsLane]
  <2>1. me' = [me EXCEPT ![p] = m]
    BY <1>0, <1>7 DEF CancelParent, MeOK, Mem
  <2>2. m \in Mem /\ m.pc = "children" /\ m.chap = me[p].chap
    <3>1. HoldsLane \in BOOLEAN
      BY DEF HoldsLane
    <3> QED
      BY <1>0, <3>1 DEF Mem, Steps
  <2> HIDE DEF m
  <2>3. MeOK' /\ Others(p) /\ me'[p] = m
    BY <2>1, <2>2, OneMoves, Zenon
  <2>4. me[p].pc = "idle" /\ parent' = "cancelled" /\ UNCHANGED st
    BY <1>7, Zenon DEF CancelParent, EndParent
  <2> QED
    BY <2>2, <2>3, <2>4, Zenon DEF ProcMove, EndMove
<1> QED
  BY <1>1, <1>2, <1>3, <1>4, <1>5, <1>6, <1>7, Zenon

\* The planner.
LEMMA PlanMoves ==
    ASSUME TypeOK, MeOK, Routed, NEW p \in Procs,
           PlanReshuffle(p) \/ TryLockLane(p) \/ WriteCompoundChildren(p)
    PROVE  MeOK' /\ Others(p) /\ ProcMove(p)
<1> USE DEF Others
<1>0. me[p] \in Mem /\ chapter \in Nat
  BY DEF MeOK, TypeOK
<1>1. CASE PlanReshuffle(p)
  <2> DEFINE m == [me[p] EXCEPT !.pc = "lock", !.rest = Planned \X {FALSE}]
  <2>1. me' = [me EXCEPT ![p] = m]
    BY <1>1, Zenon DEF PlanReshuffle
  <2>2. m \in Mem /\ m.pc = "lock" /\ m.chap = me[p].chap /\ m.rest = Planned \X {FALSE}
    <3>1. Planned \X {FALSE} \in SUBSET (Legs \X BOOLEAN)
      BY DEF Planned
    <3> QED
      BY <1>0, <3>1 DEF Mem, Steps, PlanSteps
  <2> HIDE DEF m
  <2>3. MeOK' /\ Others(p) /\ me'[p] = m
    BY <2>1, <2>2, OneMoves, Zenon
  <2>4. /\ me[p].pc = "idle" /\ \A q \in Procs : me[q].pc \notin PlanSteps
        /\ parent = "queued" /\ chapter < MaxChapters /\ at[Target] = "lane"
        /\ UNCHANGED family
    BY <1>1, Zenon DEF PlanReshuffle, PlanSteps
  <2> QED
    BY <2>2, <2>3, <2>4, Zenon DEF ProcMove, PlanMove
<1>2. CASE TryLockLane(p)
  <2>1. PICK step \in {"idle", "write"} : Goto(p, step)
    BY <1>2, Zenon DEF TryLockLane
  <2>2. step \in Steps /\ me[p].pc = "lock" /\ UNCHANGED family
    BY <1>2, Zenon DEF TryLockLane, Steps, PlanSteps
  <2> QED
    BY <2>1, <2>2, GotoMoves, Zenon DEF ProcMove, ForgetMove, PlanMove, Kept
<1>3. CASE WriteCompoundChildren(p)
  <2>0. me[p].pc = "write"
    BY <1>3, Zenon DEF WriteCompoundChildren
  <2>1. CASE \E c \in me[p].rest : BinOf(c[1]) \in foreign
    <3>1. Goto(p, "idle") /\ "idle" \in Steps
      BY <1>3, <2>1, Zenon DEF WriteCompoundChildren, Steps
    <3> QED
      BY <2>0, <3>1, GotoMoves, Zenon DEF ProcMove, ForgetMove
  <2>2. CASE ~ \E c \in me[p].rest : BinOf(c[1]) \in foreign
    <3> DEFINE m == [Idle EXCEPT !.pc = "begin"]
    <3>1. me' = [me EXCEPT ![p] = m] /\ chapter' = chapter + 1
      BY <1>3, <2>2, Zenon DEF WriteCompoundChildren
    <3>2. m \in Mem /\ m.pc = "begin" /\ m.chap = 0
      BY IdleMem DEF Mem, Steps, PlanSteps
    <3> HIDE DEF m
    <3>3. MeOK' /\ Others(p) /\ me'[p] = m
      BY <3>1, <3>2, OneMoves, Zenon
    <3> QED
      BY <2>0, <3>1, <3>2, <3>3, Zenon DEF ProcMove, PlanMove
  <2> QED
    BY <2>1, <2>2, Zenon
<1> QED
  BY <1>1, <1>2, <1>3, Zenon

\* The steps of the floor, which no goroutine takes.
FloorStep ==
    \/ \E l \in Legs :
          \/ PickUp(l) \/ ReleaseDwellingDigLeg(l) \/ Deliver(l) \/ Confirm(l)
          \/ FailLeg(l) \/ StopLeg(l) \/ EndUnheard(l) \/ Misconfigure(l)
    \/ \E b \in Bins : Intrude(b) \/ ForeignTakes(b)
    \/ RivalDig \/ RivalDone \/ ReapOrphaned

\* A step is one goroutine's, the floor's, or a restart.
LEMMA StepKinds ==
    ASSUME Next
    PROVE  (\E p \in Procs : ProcStep(p)) \/ FloorStep \/ Crash
BY Zenon DEF Next, ProcStep, FloorStep

\* How a goroutine moves in a step of the system, and that one moves at a time.
LEMMA ProcMoves ==
    ASSUME TypeOK, MeOK, Routed, Next
    PROVE  /\ MeOK' /\ \A p \in Procs : ProcMove(p)
           /\ \A p, q \in Procs :
                 p # q => me'[p] = me[p] \/ me'[q] = me[q] \/ (me'[p] = Idle /\ me'[q] = Idle)
<1>1. ASSUME NEW p \in Procs, ProcStep(p)
      PROVE  MeOK' /\ Others(p) /\ ProcMove(p)
  <2>1. CASE Advance(p) /\ ~FailUnbuildable(p)
    BY <2>1, LegMoves, Zenon
  <2>2. CASE Woken(p) \/ Sweep(p) \/ BeginReshuffle(p) \/ FailUnbuildable(p)
    BY <2>2, CallMoves, Zenon DEF ProcMove
  <2>3. CASE Settle(p) \/ SweepStalledChapters(p) \/ CancelParent(p)
    <3>1. CASE \/ CancelOrder(p) \/ HandleChildOrderFailure(p) \/ DissolveCompound(p)
               \/ CancelCompoundChildren(p) \/ UnlockLane(p)
      BY <3>1, SettleMoves, Zenon
    <3>2. CASE \/ ListChildOrders(p) \/ GetParent(p) \/ FailParent(p) \/ RequeueParent(p)
               \/ CompleteParent(p) \/ ReleaseHeldLanes(p) \/ SweepStalledChapters(p)
               \/ CancelParent(p)
      BY <3>2, EndMoves, Zenon
    <3> QED
      BY <2>3, <3>1, <3>2, Zenon DEF Settle
  <2>4. CASE PlanReshuffle(p) \/ TryLockLane(p) \/ WriteCompoundChildren(p)
    BY <2>4, PlanMoves, Zenon
  <2> QED
    BY <1>1, <2>1, <2>2, <2>3, <2>4, Zenon DEF ProcStep, Scan
<1>2. CASE \E p \in Procs : ProcStep(p)
  <2>1. PICK p \in Procs : MeOK' /\ Others(p) /\ ProcMove(p)
    BY <1>1, <1>2, Zenon
  <2>2. \A q \in Procs : ProcMove(q)
    BY <2>1, Zenon DEF Others, ProcMove
  <2> QED
    BY <2>1, <2>2, Zenon DEF Others
<1>3. CASE FloorStep
  <2>1. me' = me
    BY <1>3, Zenon DEF FloorStep, PickUp, ReleaseDwellingDigLeg, Deliver, Confirm, FailLeg, StopLeg,
              EndUnheard, Misconfigure,
                       Intrude, ForeignTakes, RivalDig, RivalDone, ReapOrphaned
  <2> QED
    BY <2>1, Zenon DEF ProcMove, MeOK
<1>4. CASE Crash
  <2>1. me' = [p \in Procs |-> Idle]
    BY <1>4, Zenon DEF Crash
  <2> QED
    BY <1>4, <2>1, IdleMem, Zenon DEF ProcMove, ForgetMove, MeOK
<1> QED
  BY <1>2, <1>3, <1>4, StepKinds, Zenon

-----------------------------------------------------------------------------
(* How a leg's row moves.                                                  *)

Details == {"none", "config", "dissolved", "legfailed", "other"}

\* A live leg ends; the detail says how.
EndedMove(l) ==
    /\ l \in Live
    /\ \/ st[l] = "delivered" /\ st'[l] = "confirmed" /\ why'[l] = "none"
       \/ st'[l] = "failed" /\ why'[l] \in {"config", "none"}
       \/ st'[l] = "cancelled" /\ why'[l] \in Reasons

\* The status of a leg changes along these edges only, each with the step that does it.
StMove(l) ==
    \/ st'[l] = st[l] /\ why'[l] = why[l]
    \/ EndedMove(l)
    \/ /\ why'[l] = why[l]
       /\ \/ st'[l] = "pending" /\ \E p \in Procs : /\ me[p].pc = "write" /\ me'[p].pc = "begin"
                                                    /\ <<l, FALSE>> \in me[p].rest
          \/ st[l] = "pending" /\ st'[l] = "sourcing"
          \/ /\ st[l] = "sourcing" /\ st'[l] = "dispatched"
             /\ \E p \in Procs : me[p].pc = "handover" /\ me[p].leg = l /\ me'[p].pc = "create"
          \/ /\ st[l] = "dispatched" /\ st'[l] = "sourcing"
             /\ \E p \in Procs : me[p].pc = "park" /\ me[p].leg = l /\ me'[p].pc = "idle"
          \/ /\ st'[l] = "delivered" /\ l \in Live
             /\ robot[l] = "away" /\ robot'[l] = "done"

\* Swap changes the one row, or nothing.
LEMMA SwapMoves ==
    ASSUME TypeOK, NEW l \in Legs, NEW from, NEW to \in Statuses, Swap(l, from, to)
    PROVE  /\ st' \in [Legs -> Statuses] /\ \A k \in Legs : k # l => st'[k] = st[k]
           /\ st[l] = from => st'[l] = to
           /\ st[l] # from => st' = st
<1>1. st \in [Legs -> Statuses]
  BY Zenon DEF TypeOK, Statuses
<1> QED
  BY <1>1, Zenon DEF Swap

\* TerminalizeOrder ends the one leg, unless it has ended.
LEMMA TerminalizeMoves ==
    ASSUME TypeOK, NEW l \in Legs, NEW to \in Statuses, NEW reason \in Details,
           Terminalize(l, to, reason)
    PROVE  /\ st' \in [Legs -> Statuses] /\ why' \in [Legs -> Details]
           /\ \A k \in Legs : k # l => st'[k] = st[k] /\ why'[k] = why[k]
           /\ ~Over(st[l]) => st'[l] = to /\ why'[l] = reason
           /\ Over(st[l]) => st' = st /\ why' = why
<1>1. st \in [Legs -> Statuses] /\ why \in [Legs -> Details]
  BY Zenon DEF TypeOK, Statuses, Details
<1> QED
  BY <1>1, Zenon DEF Terminalize

\* Steps that write no leg's row.
LEMMA RowsRest ==
    ASSUME Next
    PROVE  \/ UNCHANGED <<st, why>>
           \/ \E p \in Procs : \/ MoveToSourcing(p) \/ HandoverToFleet(p) \/ ParkLeg(p)
                               \/ FailUnbuildable(p) \/ CancelOrder(p)
                               \/ WriteCompoundChildren(p)
           \/ \E l \in Legs : Deliver(l) \/ Confirm(l) \/ FailLeg(l) \/ StopLeg(l)
<1>1. CASE FloorStep
  BY <1>1 DEF FloorStep, PickUp, ReleaseDwellingDigLeg, EndUnheard, Misconfigure, Intrude, ForeignTakes, RivalDig, RivalDone,
              ReapOrphaned, family
<1>2. CASE Crash
  BY <1>2 DEF Crash, family
<1>3. ASSUME NEW p \in Procs, ProcStep(p)
      PROVE  \/ UNCHANGED <<st, why>>
             \/ MoveToSourcing(p) \/ HandoverToFleet(p) \/ ParkLeg(p)
             \/ FailUnbuildable(p) \/ CancelOrder(p) \/ WriteCompoundChildren(p)
  <2>1. CASE Advance(p)
    BY <2>1 DEF Advance, GetNextChild, Admit, AdmitQuiet, Reread, TakeLaneOccupancy,
                SourcingUnwritten, CommitToFleet, CreateOrder, CreateRefused, RecordVendor, family
  <2>2. CASE Settle(p)
    BY <2>2 DEF Settle, HandleChildOrderFailure, DissolveCompound, CancelCompoundChildren,
                UnlockLane, ListChildOrders, GetParent, FailParent, RequeueParent,
                CompleteParent, ReleaseHeldLanes, family
  <2>3. CASE \/ Woken(p) \/ Sweep(p) \/ SweepStalledChapters(p) \/ CancelParent(p)
             \/ PlanReshuffle(p) \/ Scan(p)
    BY <2>3 DEF Woken, Sweep, SweepStalledChapters, CancelParent, PlanReshuffle, Scan,
                TryLockLane, BeginReshuffle, family
  <2> QED
    BY <1>3, <2>1, <2>2, <2>3, Zenon DEF ProcStep
<1> QED
  BY <1>1, <1>2, <1>3, StepKinds, Zenon

\* How a leg's status moves in a step of the system.
LEMMA StMoves ==
    ASSUME TypeOK, MeOK, Routed, Next
    PROVE  /\ st' \in [Legs -> Statuses] /\ why' \in [Legs -> Details]
           /\ \A l \in Legs : StMove(l)
<1>0. st \in [Legs -> Statuses] /\ why \in [Legs -> Details]
  BY Zenon DEF TypeOK, Statuses, Details
<1>1. CASE UNCHANGED <<st, why>>
  BY <1>0, <1>1, Zenon DEF StMove
<1>2. ASSUME NEW p \in Procs, MoveToSourcing(p) \/ HandoverToFleet(p) \/ ParkLeg(p)
      PROVE  /\ st' \in [Legs -> Statuses] /\ why' \in [Legs -> Details]
             /\ \A l \in Legs : StMove(l)
  <2>1. me[p].leg \in Legs /\ why' = why
    <3>1. me[p].pc \in LegSteps
      BY <1>2, Zenon DEF MoveToSourcing, HandoverToFleet, ParkLeg, LegSteps
    <3> QED
      BY <1>2, <3>1, Zenon DEF MoveToSourcing, HandoverToFleet, ParkLeg, Routed
  <2>2. "sourcing" \in Statuses /\ "dispatched" \in Statuses /\ "create" \in Steps
    BY Zenon DEF Statuses, Steps, LegSteps
  <2>3. CASE MoveToSourcing(p)
    <3>1. Swap(me[p].leg, "pending", "sourcing")
      BY <2>3, Zenon DEF MoveToSourcing
    <3> QED
      BY <1>0, <2>1, <2>2, <3>1, SwapMoves, Zenon DEF StMove
  <2>4. CASE HandoverToFleet(p)
    <3>1. Swap(me[p].leg, "sourcing", "dispatched")
      BY <2>4, Zenon DEF HandoverToFleet
    <3>2. st[me[p].leg] = "sourcing" => me'[p].pc = "create"
      <4>1. st[me[p].leg] = "sourcing" => Goto(p, "create")
        BY <2>4, Zenon DEF HandoverToFleet
      <4> QED
        BY <2>2, <4>1, GotoMoves, Zenon
    <3>3. me[p].pc = "handover"
      BY <2>4, Zenon DEF HandoverToFleet
    <3>4. /\ st' \in [Legs -> Statuses] /\ \A k \in Legs : k # me[p].leg => st'[k] = st[k]
          /\ st[me[p].leg] = "sourcing" => st'[me[p].leg] = "dispatched"
          /\ st[me[p].leg] # "sourcing" => st' = st
      BY <2>1, <2>2, <3>1, SwapMoves, Zenon
    <3>5. StMove(me[p].leg)
      <4>1. CASE st[me[p].leg] = "sourcing"
        BY <2>1, <3>2, <3>3, <3>4, <4>1, Zenon DEF StMove
      <4>2. CASE st[me[p].leg] # "sourcing"
        BY <2>1, <3>4, <4>2, Zenon DEF StMove
      <4> QED
        BY <4>1, <4>2, Zenon
    <3>6. \A l \in Legs : l # me[p].leg => StMove(l)
      BY <2>1, <3>4, Zenon DEF StMove
    <3> QED
      BY <1>0, <2>1, <3>4, <3>5, <3>6, Zenon
  <2>5. CASE ParkLeg(p)
    <3>0. Goto(p, "idle") /\ "idle" \in Steps
      BY <2>5, Zenon DEF ParkLeg, Steps
    <3>1. /\ Swap(me[p].leg, "dispatched", "sourcing") /\ me[p].pc = "park"
          /\ me'[p].pc = "idle"
      BY <2>5, <3>0, GotoMoves, Zenon DEF ParkLeg
    <3>2. /\ st' \in [Legs -> Statuses] /\ \A k \in Legs : k # me[p].leg => st'[k] = st[k]
          /\ st[me[p].leg] = "dispatched" => st'[me[p].leg] = "sourcing"
          /\ st[me[p].leg] # "dispatched" => st' = st
      BY <2>1, <2>2, <3>1, SwapMoves, Zenon
    <3>3. StMove(me[p].leg)
      <4>1. CASE st[me[p].leg] = "dispatched"
        BY <2>1, <3>1, <3>2, <4>1, Zenon DEF StMove
      <4>2. CASE st[me[p].leg] # "dispatched"
        BY <2>1, <3>2, <4>2, Zenon DEF StMove
      <4> QED
        BY <4>1, <4>2, Zenon
    <3>4. \A l \in Legs : l # me[p].leg => StMove(l)
      BY <2>1, <3>2, Zenon DEF StMove
    <3> QED
      BY <1>0, <2>1, <3>2, <3>3, <3>4, Zenon
  <2> QED
    BY <1>2, <2>3, <2>4, <2>5, Zenon
<1>3. ASSUME NEW k \in Legs, NEW to \in {"confirmed", "failed", "cancelled"}, NEW reason \in Details,
             Terminalize(k, to, reason), k \in Children,
             \/ to = "confirmed" /\ st[k] = "delivered" /\ reason = "none"
             \/ to = "failed" /\ reason \in {"config", "none"}
             \/ to = "cancelled" /\ reason \in Reasons
      PROVE  /\ st' \in [Legs -> Statuses] /\ why' \in [Legs -> Details]
             /\ \A l \in Legs : StMove(l)
  <2>1. to \in Statuses
    BY Zenon DEF Statuses
  <2>2. /\ st' \in [Legs -> Statuses] /\ why' \in [Legs -> Details]
        /\ \A l \in Legs : l # k => st'[l] = st[l] /\ why'[l] = why[l]
        /\ ~Over(st[k]) => st'[k] = to /\ why'[k] = reason
        /\ Over(st[k]) => st' = st /\ why' = why
    BY <1>3, <2>1, TerminalizeMoves, Zenon
  <2>3. StMove(k)
    <3>1. CASE Over(st[k])
      BY <2>2, <3>1, Zenon DEF StMove
    <3>2. CASE ~Over(st[k])
      <4>1. k \in Live /\ st'[k] = to /\ why'[k] = reason
        BY <1>3, <2>2, <3>2, Zenon DEF Live
      <4>2. EndedMove(k)
        BY <1>3, <4>1, Zenon DEF EndedMove
      <4> QED
        BY <4>2, Zenon DEF StMove
    <3> QED
      BY <3>1, <3>2, Zenon
  <2> QED
    BY <2>2, <2>3, Zenon DEF StMove
<1>4. ASSUME NEW p \in Procs, FailUnbuildable(p)
      PROVE  /\ st' \in [Legs -> Statuses] /\ why' \in [Legs -> Details]
             /\ \A l \in Legs : StMove(l)
  <2>1. me[p].leg \in Children /\ me[p].leg \in Legs
    <3>1. me[p].pc \in LegSteps
      BY <1>4, Zenon DEF FailUnbuildable, LegSteps
    <3> QED
      BY <3>1, Zenon DEF Routed, Children
  <2>2. Terminalize(me[p].leg, "failed", "config") /\ "config" \in Details
    BY <1>4, Zenon DEF FailUnbuildable, Details
  <2> QED
    BY <1>3, <2>1, <2>2, Zenon
<1>5. ASSUME NEW p \in Procs, CancelOrder(p)
      PROVE  /\ st' \in [Legs -> Statuses] /\ why' \in [Legs -> Details]
             /\ \A l \in Legs : StMove(l)
  <2>1. PICK c \in me[p].rest : Terminalize(c[1], "cancelled", me[p].detail)
    BY <1>5, Zenon DEF CancelOrder
  <2>2. me[p].detail \in Reasons /\ c[1] \in Legs /\ st[c[1]] # "none"
    <3>1. me[p].pc = "cancel"
      BY <1>5, Zenon DEF CancelOrder
    <3>2. me[p] \in Mem
      BY Zenon DEF MeOK
    <3>3. c[1] \in Legs
      BY <3>2 DEF Mem
    <3> QED
      BY <3>1, <3>3, Zenon DEF Routed
  <2>3. me[p].detail \in Details /\ c[1] \in Children
    BY <2>2, Zenon DEF Reasons, Details, Children
  <2> QED
    BY <1>3, <2>1, <2>2, <2>3, Zenon
<1>6. ASSUME NEW p \in Procs, WriteCompoundChildren(p)
      PROVE  /\ st' \in [Legs -> Statuses] /\ why' \in [Legs -> Details]
             /\ \A l \in Legs : StMove(l)
  <2>0. why' = why /\ me[p].pc = "write"
    BY <1>6, Zenon DEF WriteCompoundChildren
  <2>1. CASE \E c \in me[p].rest : BinOf(c[1]) \in foreign
    BY <1>0, <1>6, <2>0, <2>1, Zenon DEF WriteCompoundChildren, StMove
  <2>2. CASE ~ \E c \in me[p].rest : BinOf(c[1]) \in foreign
    <3>1. /\ st' = [l \in Legs |-> IF <<l, FALSE>> \in me[p].rest THEN "pending" ELSE st[l]]
          /\ me' = [me EXCEPT ![p] = [Idle EXCEPT !.pc = "begin"]]
      BY <1>6, <2>2, Zenon DEF WriteCompoundChildren
    <3>2. me'[p].pc = "begin"
      BY <3>1 DEF MeOK, Idle
    <3>3. "pending" \in Statuses
      BY Zenon DEF Statuses
    <3>4. st' \in [Legs -> Statuses]
      BY <1>0, <3>1, <3>3, Zenon
    <3>5. ASSUME NEW l \in Legs
          PROVE  StMove(l)
      <4>1. CASE <<l, FALSE>> \in me[p].rest
        BY <2>0, <3>1, <3>2, <4>1, Zenon DEF StMove
      <4>2. CASE <<l, FALSE>> \notin me[p].rest
        BY <2>0, <3>1, <4>2, Zenon DEF StMove
      <4> QED
        BY <4>1, <4>2, Zenon
    <3> QED
      BY <1>0, <2>0, <3>4, <3>5, Zenon
  <2> QED
    BY <2>1, <2>2, Zenon
<1>7. ASSUME NEW k \in Legs, Deliver(k) \/ Confirm(k) \/ FailLeg(k) \/ StopLeg(k)
      PROVE  /\ st' \in [Legs -> Statuses] /\ why' \in [Legs -> Details]
             /\ \A l \in Legs : StMove(l)
  <2>1. CASE Deliver(k)
    <3>1. /\ st' = [st EXCEPT ![k] = "delivered"] /\ why' = why /\ k \in Live
          /\ robot[k] = "away" /\ robot' = [robot EXCEPT ![k] = "done"]
      BY <2>1, Zenon DEF Deliver
    <3>2. st'[k] = "delivered" /\ robot'[k] = "done" /\ \A l \in Legs : l # k => st'[l] = st[l]
      BY <1>0, <3>1, Zenon DEF TypeOK
    <3>3. st' \in [Legs -> Statuses]
      BY <1>0, <3>1, Zenon DEF Statuses
    <3> QED
      BY <1>0, <3>1, <3>2, <3>3, Zenon DEF StMove
  <2>2. CASE Confirm(k)
    <3>1. st[k] = "delivered" /\ Terminalize(k, "confirmed", "none") /\ "none" \in Details
      BY <2>2, Zenon DEF Confirm, Details
    <3>2. k \in Children
      BY <3>1, Zenon DEF Children
    <3> QED
      BY <1>3, <3>1, <3>2, Zenon
  <2>3. CASE FailLeg(k)
    <3>1. Terminalize(k, "failed", "none") /\ "none" \in Details /\ k \in Children
      BY <2>3, Zenon DEF FailLeg, Details, Live
    <3> QED
      BY <1>3, <3>1, Zenon
  <2>4. CASE StopLeg(k)
    <3>1. /\ Terminalize(k, "cancelled", "other") /\ "other" \in Details /\ "other" \in Reasons
          /\ k \in Children
      BY <2>4, Zenon DEF StopLeg, Details, Reasons, Live
    <3> QED
      BY <1>3, <3>1, Zenon
  <2> QED
    BY <1>7, <2>1, <2>2, <2>3, <2>4, Zenon
<1> QED
  BY <1>1, <1>2, <1>4, <1>5, <1>6, <1>7, RowsRest, Zenon

-----------------------------------------------------------------------------
(* How the parent, the chapters and the robots move.                       *)

\* The parent's status changes along these edges only, and no leg's with it.
ParentMove ==
    \/ parent' = parent
    \/ /\ UNCHANGED <<chapter, st, why>>
       /\ \/ /\ ~Over(parent) /\ parent' = "cancelled"
             /\ \E p \in Procs : me[p].pc = "idle" /\ me'[p].pc = "children"
          \/ ~Over(parent) /\ parent' = "failed"
          \/ /\ parent = "reshuffling" /\ parent' = "queued"
             /\ \E p \in Procs : /\ me[p].pc = "requeue" \/ (me[p].pc = "complete" /\ kind # "plain")
                                 /\ me[p].chap = chapter \/ "late" \in lapses'
          \/ /\ kind = "plain" /\ parent' = "confirmed"
             /\ \E p \in Procs : me[p].pc = "complete"
          \/ /\ parent = "queued" /\ parent' = "reshuffling"
             /\ \E p \in Procs : me[p].pc = "begin"

\* A chapter is begun by writing the planned legs, and legs are written in no other way.
ChapterMove ==
    \/ chapter' = chapter /\ \A l \in Legs : st[l] = "none" => st'[l] = "none"
    \/ /\ chapter' = chapter + 1 /\ parent' = parent /\ why' = why
       /\ \E p \in Procs :
             /\ me[p].pc = "write" /\ me'[p].pc = "begin"
             /\ \A l \in Legs : st'[l] = IF <<l, FALSE>> \in me[p].rest THEN "pending" ELSE st[l]

\* What is never taken back or forgotten.
HistoryMove == kind' = kind /\ lapses \subseteq lapses'

\* Steps that leave the parent and the history alone.
LEMMA ParentRest ==
    ASSUME Next
    PROVE  \/ UNCHANGED <<parent, lapses>>
           \/ \E p \in Procs : \/ CancelParent(p) \/ FailParent(p) \/ RequeueParent(p)
                               \/ CompleteParent(p) \/ BeginReshuffle(p)
                               \/ CreateRefused(p) \/ SourcingUnwritten(p) \/ UnlockLane(p)
                               \/ WriteCompoundChildren(p)
           \/ Crash
<1>1. CASE FloorStep
  BY <1>1 DEF FloorStep, PickUp, ReleaseDwellingDigLeg, Deliver, Confirm, FailLeg, StopLeg,
              EndUnheard, Misconfigure, Intrude,
              ForeignTakes, RivalDig, RivalDone, ReapOrphaned, family, seen
<1>2. ASSUME NEW p \in Procs, ProcStep(p)
      PROVE  \/ UNCHANGED <<parent, lapses>>
             \/ CancelParent(p) \/ FailParent(p) \/ RequeueParent(p)
             \/ CompleteParent(p) \/ BeginReshuffle(p)
             \/ CreateRefused(p) \/ SourcingUnwritten(p) \/ UnlockLane(p)
             \/ WriteCompoundChildren(p)
  <2>1. CASE Advance(p)
    BY <2>1 DEF Advance, GetNextChild, Admit, AdmitQuiet, Reread, TakeLaneOccupancy,
                CommitToFleet, CreateOrder, RecordVendor, FailUnbuildable,
                MoveToSourcing, HandoverToFleet, ParkLeg, family, seen
  <2>2. CASE Settle(p)
    BY <2>2 DEF Settle, HandleChildOrderFailure, DissolveCompound, CancelCompoundChildren,
                CancelOrder, ListChildOrders, GetParent, ReleaseHeldLanes, family, seen
  <2>3. CASE \/ Woken(p) \/ Sweep(p) \/ SweepStalledChapters(p) \/ CancelParent(p)
             \/ PlanReshuffle(p) \/ Scan(p)
    BY <2>3 DEF Woken, Sweep, SweepStalledChapters, PlanReshuffle, Scan,
                TryLockLane, family, seen
  <2> QED
    BY <1>2, <2>1, <2>2, <2>3, Zenon DEF ProcStep
<1> QED
  BY <1>1, <1>2, StepKinds, Zenon

\* The kind of the demand is for good.
LEMMA KindKept ==
    ASSUME Next
    PROVE  kind' = kind
<1>1. CASE FloorStep \/ Crash
  BY <1>1 DEF FloorStep, PickUp, ReleaseDwellingDigLeg, Deliver, Confirm, FailLeg, StopLeg,
              EndUnheard, Misconfigure, Intrude,
              ForeignTakes, RivalDig, RivalDone, ReapOrphaned, Crash, family
<1>2. ASSUME NEW p \in Procs, ProcStep(p)
      PROVE  kind' = kind
  <2>1. CASE Advance(p)
    BY <2>1 DEF Advance, GetNextChild, Admit, AdmitQuiet, Reread, TakeLaneOccupancy,
                CommitToFleet, CreateOrder, CreateRefused, RecordVendor, FailUnbuildable,
                MoveToSourcing, SourcingUnwritten, HandoverToFleet, ParkLeg, family
  <2>2. CASE Settle(p)
    BY <2>2 DEF Settle, HandleChildOrderFailure, DissolveCompound, CancelCompoundChildren,
                CancelOrder, ListChildOrders, GetParent, ReleaseHeldLanes, UnlockLane,
                FailParent, RequeueParent, CompleteParent, family
  <2>3. CASE \/ Woken(p) \/ Sweep(p) \/ SweepStalledChapters(p) \/ CancelParent(p)
             \/ PlanReshuffle(p) \/ Scan(p)
    BY <2>3 DEF Woken, Sweep, SweepStalledChapters, PlanReshuffle, Scan, CancelParent,
                TryLockLane, WriteCompoundChildren, BeginReshuffle, family
  <2> QED
    BY <1>2, <2>1, <2>2, <2>3, Zenon DEF ProcStep
<1> QED
  BY <1>1, <1>2, StepKinds, Zenon

\* How the parent's status moves in a step of the system.
LEMMA ParentMoves ==
    ASSUME TypeOK, MeOK, Routed, Next
    PROVE  /\ ParentMove /\ HistoryMove
           /\ parent' \in {"queued", "reshuffling", "confirmed", "failed", "cancelled"}
           /\ lapses' \subseteq {"givenback", "late", "unbegun", "cut", "gone"}
<1> DEFINE PS == {"queued", "reshuffling", "confirmed", "failed", "cancelled"}
           LS == {"givenback", "late", "unbegun", "cut", "gone"}
<1>0. kind' = kind /\ parent \in PS /\ lapses \subseteq LS
  BY KindKept, Zenon DEF TypeOK
<1>1. CASE UNCHANGED <<parent, lapses>>
  BY <1>0, <1>1, Zenon DEF ParentMove, HistoryMove
<1>2. CASE Crash
  BY <1>0, <1>2 DEF ParentMove, HistoryMove, Crash, family
<1>3. ASSUME NEW p \in Procs, CancelParent(p)
      PROVE  ParentMove /\ lapses' = lapses /\ parent' \in PS
  <2>1. /\ me[p].pc = "idle" /\ ~Over(parent) /\ parent' = "cancelled"
        /\ lapses' = lapses /\ UNCHANGED <<chapter, st, why>>
    BY <1>3, Zenon DEF CancelParent, EndParent
  <2>2. me'[p].pc = "children"
    BY <1>3 DEF CancelParent, MeOK, Mem
  <2> QED
    BY <2>1, <2>2, Zenon DEF ParentMove
<1>4. ASSUME NEW p \in Procs, FailParent(p)
      PROVE  ParentMove /\ lapses \subseteq lapses' /\ lapses' \subseteq LS /\ parent' \in PS
  BY <1>0, <1>4, Zenon DEF FailParent, EndParent, ParentMove, Late
<1>5. ASSUME NEW p \in Procs, RequeueParent(p)
      PROVE  ParentMove /\ lapses \subseteq lapses' /\ lapses' \subseteq LS /\ parent' \in PS
  <2>1. UNCHANGED <<chapter, st, why>> /\ me[p].pc = "requeue"
    BY <1>5, Zenon DEF RequeueParent
  <2>2. CASE parent = "reshuffling"
    <3>1. parent' = "queued" /\ lapses' = Late(p)
      BY <1>5, <2>2, Zenon DEF RequeueParent
    <3>2. me[p].chap = chapter \/ "late" \in lapses'
      BY <3>1, Zenon DEF Late
    <3>3. lapses \subseteq lapses' /\ lapses' \subseteq LS
      BY <1>0, <3>1, Zenon DEF Late
    <3> QED
      BY <2>1, <2>2, <3>1, <3>2, <3>3, Zenon DEF ParentMove
  <2>3. CASE parent # "reshuffling"
    BY <1>0, <1>5, <2>3, Zenon DEF RequeueParent, ParentMove
  <2> QED
    BY <2>2, <2>3, Zenon
<1>6. ASSUME NEW p \in Procs, CompleteParent(p)
      PROVE  ParentMove /\ lapses \subseteq lapses' /\ lapses' \subseteq LS /\ parent' \in PS
  <2>1. UNCHANGED <<chapter, st, why>> /\ me[p].pc = "complete" /\ lapses' = Late(p)
    BY <1>6, Zenon DEF CompleteParent
  <2>2. /\ me[p].chap = chapter \/ "late" \in lapses'
        /\ lapses \subseteq lapses' /\ lapses' \subseteq LS
    BY <1>0, <2>1, Zenon DEF Late
  <2>3. CASE kind = "plain"
    BY <1>0, <1>6, <2>1, <2>2, <2>3, Zenon DEF CompleteParent, EndParent, ParentMove
  <2>4. CASE kind # "plain"
    BY <1>0, <1>6, <2>1, <2>2, <2>4, Zenon DEF CompleteParent, ParentMove
  <2> QED
    BY <2>3, <2>4, Zenon
<1>7. ASSUME NEW p \in Procs, BeginReshuffle(p)
      PROVE  ParentMove /\ lapses \subseteq lapses' /\ lapses' \subseteq LS /\ parent' \in PS
  BY <1>0, <1>7, Zenon DEF BeginReshuffle, ParentMove
<1>8. ASSUME NEW p \in Procs, \/ CreateRefused(p) \/ SourcingUnwritten(p) \/ UnlockLane(p)
                              \/ WriteCompoundChildren(p)
      PROVE  parent' = parent /\ lapses \subseteq lapses' /\ lapses' \subseteq LS
  BY <1>0, <1>8 DEF CreateRefused, SourcingUnwritten, UnlockLane, WriteCompoundChildren, Late,
                    family
<1> QED
  BY <1>0, <1>1, <1>2, <1>3, <1>4, <1>5, <1>6, <1>7, <1>8, ParentRest, Zenon
     DEF ParentMove, HistoryMove

\* Only the planner writes a chapter.
LEMMA ChapterRest ==
    ASSUME Next, ~ \E p \in Procs : WriteCompoundChildren(p)
    PROVE  chapter' = chapter
<1>1. CASE FloorStep \/ Crash
  BY <1>1 DEF FloorStep, PickUp, ReleaseDwellingDigLeg, Deliver, Confirm, FailLeg, StopLeg,
              EndUnheard, Misconfigure, Intrude,
              ForeignTakes, RivalDig, RivalDone, ReapOrphaned, Crash, family
<1>2. ASSUME NEW p \in Procs, ProcStep(p)
      PROVE  chapter' = chapter
  <2>1. CASE Advance(p)
    BY <2>1 DEF Advance, GetNextChild, Admit, AdmitQuiet, Reread, TakeLaneOccupancy,
                CommitToFleet, CreateOrder, CreateRefused, RecordVendor, FailUnbuildable,
                MoveToSourcing, SourcingUnwritten, HandoverToFleet, ParkLeg, family
  <2>2. CASE Settle(p)
    BY <2>2 DEF Settle, HandleChildOrderFailure, DissolveCompound, CancelCompoundChildren,
                CancelOrder, ListChildOrders, GetParent, ReleaseHeldLanes, UnlockLane,
                FailParent, RequeueParent, CompleteParent, family
  <2>3. CASE \/ Woken(p) \/ Sweep(p) \/ SweepStalledChapters(p) \/ CancelParent(p)
             \/ PlanReshuffle(p) \/ TryLockLane(p) \/ BeginReshuffle(p)
    BY <2>3 DEF Woken, Sweep, SweepStalledChapters, PlanReshuffle, CancelParent,
                TryLockLane, BeginReshuffle, family
  <2> QED
    BY <1>2, <2>1, <2>2, <2>3, Zenon DEF ProcStep, Scan
<1> QED
  BY <1>1, <1>2, StepKinds, Zenon

\* How the chapters move in a step of the system.
LEMMA ChapterMoves ==
    ASSUME TypeOK, MeOK, Routed, Next
    PROVE  ChapterMove
<1>1. ASSUME NEW p \in Procs, WriteCompoundChildren(p)
      PROVE  ChapterMove
  <2>0. why' = why /\ me[p].pc = "write" /\ parent' = parent
    BY <1>1, Zenon DEF WriteCompoundChildren
  <2>1. CASE \E c \in me[p].rest : BinOf(c[1]) \in foreign
    BY <1>1, <2>1, Zenon DEF WriteCompoundChildren, ChapterMove
  <2>2. CASE ~ \E c \in me[p].rest : BinOf(c[1]) \in foreign
    <3>1. /\ st' = [l \in Legs |-> IF <<l, FALSE>> \in me[p].rest THEN "pending" ELSE st[l]]
          /\ me' = [me EXCEPT ![p] = [Idle EXCEPT !.pc = "begin"]]
          /\ chapter' = chapter + 1
      BY <1>1, <2>2, Zenon DEF WriteCompoundChildren
    <3>2. me'[p].pc = "begin"
      BY <3>1 DEF MeOK, Idle
    <3>3. \A l \in Legs : st'[l] = IF <<l, FALSE>> \in me[p].rest THEN "pending" ELSE st[l]
      BY <3>1, Zenon
    <3> QED
      BY <2>0, <3>1, <3>2, <3>3, Zenon DEF ChapterMove
  <2> QED
    BY <2>1, <2>2, Zenon
<1>2. CASE ~ \E p \in Procs : WriteCompoundChildren(p)
  <2>1. chapter' = chapter
    BY <1>2, ChapterRest, Zenon
  <2>2. ASSUME NEW l \in Legs, st[l] = "none"
        PROVE  st'[l] = "none"
    <3>1. CASE \E p \in Procs : \/ MoveToSourcing(p) \/ HandoverToFleet(p) \/ ParkLeg(p)
      <4>1. PICK p \in Procs : \/ MoveToSourcing(p) \/ HandoverToFleet(p) \/ ParkLeg(p)
        BY <3>1, Zenon
      <4>2. me[p].pc \in LegSteps
        BY <4>1, Zenon DEF MoveToSourcing, HandoverToFleet, ParkLeg, LegSteps
      <4>3. me[p].leg \in Legs /\ me[p].leg # l
        BY <2>2, <4>2, Zenon DEF Routed
      <4>4. PICK from, to \in Statuses : Swap(me[p].leg, from, to)
        BY <4>1, Zenon DEF MoveToSourcing, HandoverToFleet, ParkLeg, Statuses
      <4> QED
        BY <2>2, <4>3, <4>4, SwapMoves, Zenon
    <3>2. CASE \E p \in Procs : FailUnbuildable(p) \/ CancelOrder(p)
      <4>1. PICK p \in Procs : FailUnbuildable(p) \/ CancelOrder(p)
        BY <3>2, Zenon
      <4>2. PICK k \in Legs, to \in Statuses, reason \in Details :
               Terminalize(k, to, reason) /\ st[k] # "none"
        <5>1. CASE FailUnbuildable(p)
          <6>1. me[p].pc \in LegSteps
            BY <5>1, Zenon DEF FailUnbuildable, LegSteps
          <6>2. me[p].leg \in Legs /\ st[me[p].leg] # "none"
            BY <6>1, Zenon DEF Routed
          <6>3. "failed" \in Statuses /\ "config" \in Details
            BY Zenon DEF Statuses, Details
          <6> QED
            BY <5>1, <6>2, <6>3, Zenon DEF FailUnbuildable
        <5>2. CASE CancelOrder(p)
          <6>1. me[p].pc = "cancel" /\ me[p] \in Mem
            BY <5>2, Zenon DEF CancelOrder, MeOK
          <6>2. PICK c \in me[p].rest : Terminalize(c[1], "cancelled", me[p].detail)
            BY <5>2, Zenon DEF CancelOrder
          <6>3. c[1] \in Legs
            BY <6>1 DEF Mem
          <6>4. st[c[1]] # "none" /\ me[p].detail \in Details
            BY <6>1, <6>3, Zenon DEF Routed, Details, Reasons
          <6>5. "cancelled" \in Statuses
            BY Zenon DEF Statuses
          <6> QED
            BY <6>2, <6>3, <6>4, <6>5, Zenon
        <5> QED
          BY <4>1, <5>1, <5>2, Zenon
      <4> QED
        BY <2>2, <4>2, TerminalizeMoves, Zenon
    <3>3. CASE \E k \in Legs : Deliver(k) \/ Confirm(k) \/ FailLeg(k) \/ StopLeg(k)
      <4>1. PICK k \in Legs : Deliver(k) \/ Confirm(k) \/ FailLeg(k) \/ StopLeg(k)
        BY <3>3, Zenon
      <4>2. k # l
        BY <2>2, <4>1, Zenon DEF Deliver, Confirm, FailLeg, StopLeg, Live, Children
      <4>3. CASE Deliver(k)
        BY <2>2, <4>2, <4>3, Zenon DEF Deliver, TypeOK
      <4>4. CASE Confirm(k) \/ FailLeg(k) \/ StopLeg(k)
        <5>1. PICK to \in Statuses, reason \in Details : Terminalize(k, to, reason)
          BY <4>4, Zenon DEF Confirm, FailLeg, StopLeg, Statuses, Details
        <5> QED
          BY <2>2, <4>2, <5>1, TerminalizeMoves, Zenon
      <4> QED
        BY <4>1, <4>3, <4>4, Zenon
    <3> QED
      BY <1>2, <2>2, <3>1, <3>2, <3>3, RowsRest, Zenon
  <2> QED
    BY <2>1, <2>2, Zenon DEF ChapterMove
<1> QED
  BY <1>1, <1>2, Zenon

\* What a robot does with a leg.
RobotMove(l) ==
    \/ robot'[l] = robot[l]
    \/ robot'[l] \in {"unsealed", "sealed"} /\ \E p \in Procs :
          me[p].pc = "create" /\ me[p].leg = l /\ me'[p].pc = "record"
    \/ robot[l] = "unsealed" /\ robot'[l] \in {"dwell", "sealed"}
    \/ UnderWay(l) /\ robot'[l] \in {"away", "stopped", "done"}

\* When a leg's occupancy row goes.
OccMove(l) ==
    l \in occ => \/ l \in occ' \/ Over(st'[l]) \/ "givenback" \in lapses'
                 \/ robot'[l] \in {"sealed", "away", "done"}

\* A create for a leg that has its mission is the only way to be sent twice.
TwiceMove ==
    twice' = twice \/ \E p \in Procs : me[p].pc = "create" /\ robot[me[p].leg] # "none"

\* Calls are asked for by what happens to legs.
QueueMove == wakes' > 0 \/ failed' # {} => wakes > 0 \/ failed # {} \/ Children # {}

\* Steps that leave the robots, the occupancy rows and the history of creates alone.
LEMMA RobotRest ==
    ASSUME Next
    PROVE  \/ UNCHANGED <<robot, occ, twice>>
           \/ \E p \in Procs : \/ TakeLaneOccupancy(p) \/ CommitToFleet(p) \/ CreateOrder(p)
                               \/ CreateRefused(p) \/ RecordVendor(p) \/ FailUnbuildable(p)
                               \/ CancelOrder(p) \/ SourcingUnwritten(p)
           \/ \E l \in Legs : \/ PickUp(l) \/ ReleaseDwellingDigLeg(l) \/ Deliver(l) \/ Confirm(l)
                              \/ FailLeg(l) \/ StopLeg(l) \/ EndUnheard(l)
           \/ ReapOrphaned
<1>1. CASE FloorStep \/ Crash
  BY <1>1 DEF FloorStep, Misconfigure, Intrude, ForeignTakes, RivalDig, RivalDone, Crash,
              floor, seen
<1>2. ASSUME NEW p \in Procs, ProcStep(p)
      PROVE  \/ UNCHANGED <<robot, occ, twice>>
             \/ TakeLaneOccupancy(p) \/ CommitToFleet(p) \/ CreateOrder(p)
             \/ CreateRefused(p) \/ RecordVendor(p) \/ FailUnbuildable(p)
             \/ CancelOrder(p) \/ SourcingUnwritten(p)
  <2>1. CASE Advance(p)
    BY <2>1 DEF Advance, GetNextChild, Admit, AdmitQuiet, Reread, MoveToSourcing,
                HandoverToFleet, ParkLeg, floor, seen
  <2>2. CASE Settle(p)
    BY <2>2 DEF Settle, HandleChildOrderFailure, DissolveCompound, CancelCompoundChildren,
                UnlockLane, ListChildOrders, GetParent, FailParent, RequeueParent,
                CompleteParent, ReleaseHeldLanes, floor, seen
  <2>3. CASE \/ Woken(p) \/ Sweep(p) \/ SweepStalledChapters(p) \/ CancelParent(p)
             \/ PlanReshuffle(p) \/ Scan(p)
    BY <2>3 DEF Woken, Sweep, SweepStalledChapters, CancelParent, PlanReshuffle, Scan,
                TryLockLane, WriteCompoundChildren, BeginReshuffle, floor, seen
  <2> QED
    BY <1>2, <2>1, <2>2, <2>3, Zenon DEF ProcStep
<1> QED
  BY <1>1, <1>2, StepKinds, Zenon

Missions == {"none", "unsealed", "dwell", "sealed", "away", "stopped", "done"}

\* One robot changes what it does.
LEMMA RobotSet ==
    ASSUME TypeOK, NEW l \in Legs, NEW to \in Missions, robot' = [robot EXCEPT ![l] = to]
    PROVE  /\ robot' \in [Legs -> Missions] /\ robot'[l] = to
           /\ \A k \in Legs : k # l => robot'[k] = robot[k]
BY Zenon DEF TypeOK, Missions

\* A cancelled mission: the robot stops if it is under way.
LEMMA HaltedMoves ==
    ASSUME TypeOK, NEW l \in Legs, robot' = Halted(l)
    PROVE  /\ robot' \in [Legs -> Missions]
           /\ \A k \in Legs : RobotMove(k) /\ (k # l => robot'[k] = robot[k])
<1>1. robot \in [Legs -> Missions]
  BY Zenon DEF TypeOK, Missions
<1>2. CASE UnderWay(l)
  <2>1. robot' = [robot EXCEPT ![l] = "stopped"] /\ "stopped" \in Missions
    BY <1>2, Zenon DEF Halted, Missions
  <2>2. /\ robot' \in [Legs -> Missions] /\ robot'[l] = "stopped"
        /\ \A k \in Legs : k # l => robot'[k] = robot[k]
    BY <2>1, RobotSet, Zenon
  <2> QED
    BY <1>2, <2>2, Zenon DEF RobotMove
<1>3. CASE ~UnderWay(l)
  BY <1>1, <1>3, Zenon DEF Halted, RobotMove
<1> QED
  BY <1>2, <1>3, Zenon

\* How robots, occupancy rows and creates move in a step of the system.
LEMMA RobotMoves ==
    ASSUME TypeOK, MeOK, Routed, Next
    PROVE  /\ robot' \in [Legs -> Missions] /\ occ' \subseteq Legs /\ twice' \subseteq Legs
           /\ \A l \in Legs : RobotMove(l) /\ OccMove(l)
           /\ TwiceMove
<1> DEFINE Goal == /\ robot' \in [Legs -> Missions] /\ occ' \subseteq Legs /\ twice' \subseteq Legs
                   /\ \A l \in Legs : RobotMove(l) /\ OccMove(l)
                   /\ TwiceMove
<1>0. robot \in [Legs -> Missions] /\ occ \subseteq Legs /\ twice \subseteq Legs
  BY Zenon DEF TypeOK, Missions
<1>1. CASE UNCHANGED <<robot, occ, twice>>
  BY <1>0, <1>1, Zenon DEF RobotMove, OccMove, TwiceMove
<1>2. ASSUME NEW p \in Procs, me[p].pc \in LegSteps
      PROVE  me[p].leg \in Legs
  BY <1>2, Zenon DEF Routed
<1>3. ASSUME NEW p \in Procs, TakeLaneOccupancy(p) \/ CommitToFleet(p)
      PROVE  Goal
  <2>1. occ' = occ \cup {me[p].leg} /\ UNCHANGED <<robot, twice>> /\ me[p].pc \in LegSteps
    BY <1>3 DEF TakeLaneOccupancy, CommitToFleet, LegSteps, seen
  <2>2. me[p].leg \in Legs
    BY <1>2, <2>1, Zenon
  <2> QED
    BY <1>0, <2>1, <2>2, Zenon DEF RobotMove, OccMove, TwiceMove
<1>4. ASSUME NEW p \in Procs, CreateOrder(p)
      PROVE  Goal
  <2>0. PICK to \in {"unsealed", "sealed"} : robot' = [robot EXCEPT ![me[p].leg] = to]
    BY <1>4, Zenon DEF CreateOrder
  <2>1. /\ me[p].pc = "create" /\ occ' = occ
        /\ twice' = IF robot[me[p].leg] = "none" THEN twice ELSE twice \cup {me[p].leg}
        /\ Goto(p, "record")
    BY <1>4, Zenon DEF CreateOrder
  <2>2. me[p].leg \in Legs /\ to \in Missions /\ "record" \in Steps
    BY <1>2, <2>1, Zenon DEF LegSteps, Missions, Steps
  <2>3. me'[p].pc = "record"
    BY <2>1, <2>2, GotoMoves, Zenon
  <2>4. /\ robot' \in [Legs -> Missions] /\ robot'[me[p].leg] = to
        /\ \A k \in Legs : k # me[p].leg => robot'[k] = robot[k]
    BY <2>0, <2>2, RobotSet, Zenon
  <2>5. TwiceMove /\ twice' \subseteq Legs
    BY <1>0, <2>1, <2>2, Zenon DEF TwiceMove
  <2>6. \A l \in Legs : RobotMove(l)
    BY <2>1, <2>3, <2>4, Zenon DEF RobotMove
  <2> QED
    BY <1>0, <2>1, <2>4, <2>5, <2>6, Zenon DEF OccMove
<1>5. ASSUME NEW p \in Procs, CreateRefused(p) \/ SourcingUnwritten(p)
      PROVE  Goal
  BY <1>0, <1>5, Zenon DEF CreateRefused, SourcingUnwritten, RobotMove, OccMove, TwiceMove
<1>6. ASSUME NEW p \in Procs, RecordVendor(p)
      PROVE  Goal
  <2>1. me[p].pc = "record" /\ UNCHANGED <<twice, st>>
    BY <1>6 DEF RecordVendor, seen
  <2>2. me[p].leg \in Legs
    BY <1>2, <2>1, Zenon DEF LegSteps
  <2>3. CASE Over(st[me[p].leg])
    <3>1. robot' = Halted(me[p].leg) /\ occ' = occ \ {me[p].leg} /\ Over(st'[me[p].leg])
      BY <1>6, <2>1, <2>3, Zenon DEF RecordVendor
    <3>2. robot' \in [Legs -> Missions] /\ \A l \in Legs : RobotMove(l)
      BY <2>2, <3>1, HaltedMoves, Zenon
    <3> QED
      BY <1>0, <2>1, <3>1, <3>2, Zenon DEF OccMove, TwiceMove
  <2>4. CASE ~Over(st[me[p].leg])
    BY <1>0, <1>6, <2>1, <2>4, Zenon DEF RecordVendor, RobotMove, OccMove, TwiceMove
  <2> QED
    BY <2>3, <2>4, Zenon
<1>7. ASSUME NEW k \in Legs, NEW to \in {"confirmed", "failed", "cancelled"}, NEW reason,
             Terminalize(k, to, reason)
      PROVE  occ' \subseteq Legs /\ \A l \in Legs : OccMove(l)
  <2>1. Over(st'[k])
    BY <1>7, Zenon DEF Terminalize, Over, TypeOK
  <2> QED
    BY <1>0, <1>7, <2>1, Zenon DEF Terminalize, OccMove
<1>8. ASSUME NEW p \in Procs, FailUnbuildable(p)
      PROVE  Goal
  <2>1. /\ Terminalize(me[p].leg, "failed", "config") /\ UNCHANGED <<robot, twice>>
        /\ me[p].pc \in LegSteps
    BY <1>8 DEF FailUnbuildable, LegSteps, seen
  <2>2. occ' \subseteq Legs /\ \A l \in Legs : OccMove(l)
    BY <1>2, <1>7, <2>1, Zenon
  <2> QED
    BY <1>0, <2>1, <2>2, Zenon DEF RobotMove, TwiceMove
<1>9. ASSUME NEW p \in Procs, CancelOrder(p)
      PROVE  Goal
  <2>0. me[p] \in Mem /\ UNCHANGED twice
    BY <1>9 DEF MeOK, CancelOrder, seen
  <2>1. PICK c \in me[p].rest : /\ Terminalize(c[1], "cancelled", me[p].detail)
                                /\ robot' = IF c[2] THEN Halted(c[1]) ELSE robot
    BY <1>9, Zenon DEF CancelOrder
  <2>2. c[1] \in Legs
    BY <2>0 DEF Mem
  <2>3. occ' \subseteq Legs /\ \A l \in Legs : OccMove(l)
    BY <1>7, <2>1, <2>2, Zenon
  <2>4. robot' \in [Legs -> Missions] /\ \A l \in Legs : RobotMove(l)
    <3>1. CASE robot' = Halted(c[1])
      BY <2>2, <3>1, HaltedMoves, Zenon
    <3>2. CASE robot' = robot
      BY <1>0, <3>2, Zenon DEF RobotMove
    <3> QED
      BY <2>1, <3>1, <3>2, Zenon
  <2> QED
    BY <1>0, <2>0, <2>3, <2>4, Zenon DEF TwiceMove
<1>10. ASSUME NEW k \in Legs, PickUp(k) \/ ReleaseDwellingDigLeg(k) \/ Deliver(k) \/ EndUnheard(k)
       PROVE  Goal
  <2>1. PICK to \in {"dwell", "sealed", "away", "stopped", "done"} :
           /\ robot' = [robot EXCEPT ![k] = to]
           /\ to \in {"dwell", "sealed"} => robot[k] = "unsealed"
           /\ to \in {"dwell", "stopped"} => occ' = occ
    <3>1. CASE PickUp(k)
      BY <3>1, Zenon DEF PickUp, RowsAfterLift
    <3>2. CASE ReleaseDwellingDigLeg(k)
      BY <3>2, Zenon DEF ReleaseDwellingDigLeg, Staged
    <3>3. CASE Deliver(k) \/ EndUnheard(k)
      BY <3>3, Zenon DEF Deliver, EndUnheard
    <3> QED
      BY <1>10, <3>1, <3>2, <3>3, Zenon
  <2>2. UnderWay(k) /\ occ \ {k} \subseteq occ' /\ occ' \subseteq occ /\ UNCHANGED twice
    BY <1>10 DEF PickUp, ReleaseDwellingDigLeg, Deliver, EndUnheard, RowsAfterLift, UnderWay,
                 Staged, seen
  <2>3. to \in Missions
    BY Zenon DEF Missions
  <2>4. /\ robot' \in [Legs -> Missions] /\ robot'[k] = to
        /\ \A l \in Legs : l # k => robot'[l] = robot[l]
    BY <2>1, <2>3, RobotSet, Zenon
  <2>5. \A l \in Legs : RobotMove(l)
    BY <2>1, <2>2, <2>4, Zenon DEF RobotMove
  <2>6. \A l \in Legs : OccMove(l)
    BY <2>1, <2>2, <2>4, Zenon DEF OccMove
  <2> QED
    BY <1>0, <2>2, <2>4, <2>5, <2>6, Zenon DEF TwiceMove
<1>11. ASSUME NEW k \in Legs, Confirm(k) \/ FailLeg(k) \/ StopLeg(k)
       PROVE  Goal
  <2>1. PICK to \in {"confirmed", "failed", "cancelled"}, reason \in Details : Terminalize(k, to, reason)
    BY <1>11, Zenon DEF Confirm, FailLeg, StopLeg, Details
  <2>2. occ' \subseteq Legs /\ \A l \in Legs : OccMove(l)
    BY <1>7, <2>1, Zenon
  <2>3. UNCHANGED twice
    BY <1>11 DEF Confirm, FailLeg, StopLeg, seen
  <2>4. robot' \in [Legs -> Missions] /\ \A l \in Legs : RobotMove(l)
    <3>1. CASE Confirm(k)
      BY <1>0, <3>1, Zenon DEF Confirm, RobotMove
    <3>2. CASE FailLeg(k) \/ StopLeg(k)
      <4>1. UnderWay(k) /\ robot' = [robot EXCEPT ![k] = "stopped"]
        BY <3>2, Zenon DEF FailLeg, StopLeg
      <4>2. "stopped" \in Missions
        BY Zenon DEF Missions
      <4>3. /\ robot' \in [Legs -> Missions] /\ robot'[k] = "stopped"
            /\ \A l \in Legs : l # k => robot'[l] = robot[l]
        BY <4>1, <4>2, RobotSet, Zenon
      <4> QED
        BY <4>1, <4>3, Zenon DEF RobotMove
    <3> QED
      BY <1>11, <3>1, <3>2, Zenon
  <2> QED
    BY <1>0, <2>2, <2>3, <2>4, Zenon DEF TwiceMove
<1>12. CASE ReapOrphaned
  <2>1. occ' = {l \in occ : ~Over(st[l])} /\ UNCHANGED <<st, robot, twice>>
    BY <1>12 DEF ReapOrphaned, family, seen
  <2> QED
    BY <1>0, <2>1, Zenon DEF RobotMove, OccMove, TwiceMove
<1> QED
  BY <1>1, <1>3, <1>4, <1>5, <1>6, <1>8, <1>9, <1>10, <1>11, <1>12, RobotRest, Zenon

\* The lane's mouth row.
LEMMA LaneTyped ==
    ASSUME TypeOK, MeOK, Routed, Next
    PROVE  lane' \in {"none", "dig", "out", "rival"}
<1> USE DEF TypeOK, floor, EndParent, ReleaseDig, HandedOff, HoldsLane
<1>1. CASE FloorStep \/ Crash
  BY <1>1 DEF FloorStep, PickUp, ReleaseDwellingDigLeg, Deliver, Confirm, FailLeg, StopLeg,
              EndUnheard, Misconfigure,
          Intrude, ForeignTakes, RivalDig, RivalDone, ReapOrphaned, Crash
<1>2. ASSUME NEW p \in Procs, ProcStep(p)
      PROVE  lane' \in {"none", "dig", "out", "rival"}
  <2>1. CASE Advance(p)
    BY <2>1 DEF Advance, GetNextChild, FailUnbuildable, Admit, AdmitQuiet, Reread,
                TakeLaneOccupancy, MoveToSourcing, SourcingUnwritten, CommitToFleet, HandoverToFleet,
                CreateOrder, CreateRefused, ParkLeg, RecordVendor
  <2>2. CASE Settle(p)
    BY <2>2 DEF Settle, CancelOrder, HandleChildOrderFailure, DissolveCompound,
                CancelCompoundChildren, UnlockLane, ListChildOrders, GetParent,
                FailParent, RequeueParent, CompleteParent, ReleaseHeldLanes
  <2>3. CASE \/ Woken(p) \/ Sweep(p) \/ SweepStalledChapters(p) \/ CancelParent(p)
             \/ PlanReshuffle(p) \/ Scan(p)
    BY <2>3 DEF Scan, Woken, Sweep, SweepStalledChapters, CancelParent,
                PlanReshuffle, TryLockLane, WriteCompoundChildren, BeginReshuffle
  <2> QED
    BY <1>2, <2>1, <2>2, <2>3, Zenon DEF ProcStep
<1> QED
  BY <1>1, <1>2, StepKinds, Zenon

\* A disturbance is counted.
LEMMA UsedMoves ==
    ASSUME Next
    PROVE  used' = used \/ (used < MaxHits /\ used' = used + 1)
<1> USE DEF seen, Hit
<1>1. CASE FloorStep \/ Crash
  BY <1>1 DEF FloorStep, PickUp, ReleaseDwellingDigLeg, Deliver, Confirm, FailLeg, StopLeg,
              EndUnheard, Misconfigure,
          Intrude, ForeignTakes, RivalDig, RivalDone, ReapOrphaned, Crash
<1>2. ASSUME NEW p \in Procs, ProcStep(p)
      PROVE  used' = used \/ (used < MaxHits /\ used' = used + 1)
  <2>1. CASE Advance(p)
    BY <2>1 DEF Advance, GetNextChild, FailUnbuildable, Admit, AdmitQuiet, Reread,
                TakeLaneOccupancy, MoveToSourcing, SourcingUnwritten, CommitToFleet, HandoverToFleet,
                CreateOrder, CreateRefused, ParkLeg, RecordVendor
  <2>2. CASE Settle(p)
    BY <2>2 DEF Settle, CancelOrder, HandleChildOrderFailure, DissolveCompound,
                CancelCompoundChildren, UnlockLane, ListChildOrders, GetParent,
                FailParent, RequeueParent, CompleteParent, ReleaseHeldLanes
  <2>3. CASE \/ Woken(p) \/ Sweep(p) \/ SweepStalledChapters(p) \/ CancelParent(p)
             \/ PlanReshuffle(p) \/ Scan(p)
    BY <2>3 DEF Scan, Woken, Sweep, SweepStalledChapters, CancelParent,
                PlanReshuffle, TryLockLane, WriteCompoundChildren, BeginReshuffle
  <2> QED
    BY <1>2, <2>1, <2>2, <2>3, Zenon DEF ProcStep
<1> QED
  BY <1>1, <1>2, StepKinds, Zenon

\* A call is asked for, started, or lost in a restart.
LEMMA WakesMoves ==
    ASSUME Next
    PROVE  wakes' = wakes \/ Wake(1) \/ wakes' = 0 \/ (wakes > 0 /\ wakes' = wakes - 1)
<1> USE DEF queue
<1>1. CASE FloorStep \/ Crash
  BY <1>1 DEF FloorStep, PickUp, ReleaseDwellingDigLeg, Deliver, Confirm, FailLeg, StopLeg,
              EndUnheard, Misconfigure,
          Intrude, ForeignTakes, RivalDig, RivalDone, ReapOrphaned, Crash
<1>2. ASSUME NEW p \in Procs, ProcStep(p)
      PROVE  wakes' = wakes \/ Wake(1) \/ wakes' = 0 \/ (wakes > 0 /\ wakes' = wakes - 1)
  <2>1. CASE Advance(p)
    BY <2>1 DEF Advance, GetNextChild, FailUnbuildable, Admit, AdmitQuiet, Reread,
                TakeLaneOccupancy, MoveToSourcing, SourcingUnwritten, CommitToFleet, HandoverToFleet,
                CreateOrder, CreateRefused, ParkLeg, RecordVendor
  <2>2. CASE Settle(p)
    BY <2>2 DEF Settle, CancelOrder, HandleChildOrderFailure, DissolveCompound,
                CancelCompoundChildren, UnlockLane, ListChildOrders, GetParent,
                FailParent, RequeueParent, CompleteParent, ReleaseHeldLanes
  <2>3. CASE \/ Woken(p) \/ Sweep(p) \/ SweepStalledChapters(p) \/ CancelParent(p)
             \/ PlanReshuffle(p) \/ Scan(p)
    BY <2>3 DEF Scan, Woken, Sweep, SweepStalledChapters, CancelParent,
                PlanReshuffle, TryLockLane, WriteCompoundChildren, BeginReshuffle
  <2> QED
    BY <1>2, <2>1, <2>2, <2>3, Zenon DEF ProcStep
<1> QED
  BY <1>1, <1>2, StepKinds, Zenon

\* Vendor ids are recorded by the call that asked the fleet.
LEMMA VendorRest ==
    ASSUME Next
    PROVE  vendor' = vendor \/ \E q \in Procs : RecordVendor(q)
<1> USE DEF family
<1>1. CASE FloorStep \/ Crash
  BY <1>1 DEF FloorStep, PickUp, ReleaseDwellingDigLeg, Deliver, Confirm, FailLeg, StopLeg,
              EndUnheard, Misconfigure,
          Intrude, ForeignTakes, RivalDig, RivalDone, ReapOrphaned, Crash
<1>2. ASSUME NEW p \in Procs, ProcStep(p)
      PROVE  vendor' = vendor \/ \E q \in Procs : RecordVendor(q)
  <2>1. CASE Advance(p)
    BY <2>1 DEF Advance, GetNextChild, FailUnbuildable, Admit, AdmitQuiet, Reread,
                TakeLaneOccupancy, MoveToSourcing, SourcingUnwritten, CommitToFleet, HandoverToFleet,
                CreateOrder, CreateRefused, ParkLeg
  <2>2. CASE Settle(p)
    BY <2>2 DEF Settle, CancelOrder, HandleChildOrderFailure, DissolveCompound,
                CancelCompoundChildren, UnlockLane, ListChildOrders, GetParent,
                FailParent, RequeueParent, CompleteParent, ReleaseHeldLanes
  <2>3. CASE \/ Woken(p) \/ Sweep(p) \/ SweepStalledChapters(p) \/ CancelParent(p)
             \/ PlanReshuffle(p) \/ Scan(p)
    BY <2>3 DEF Scan, Woken, Sweep, SweepStalledChapters, CancelParent,
                PlanReshuffle, TryLockLane, WriteCompoundChildren, BeginReshuffle
  <2> QED
    BY <1>2, <2>1, <2>2, <2>3, Zenon DEF ProcStep
<1> QED
  BY <1>1, <1>2, StepKinds, Zenon

\* Failure events come from the fleet, and are handled or lost.
LEMMA FailedRest ==
    ASSUME Next
    PROVE  failed' \subseteq failed \/ \E l \in Legs : failed' = failed \cup {l} /\ FailLeg(l)
<1> USE DEF queue
<1>1. CASE FloorStep \/ Crash
  BY <1>1 DEF FloorStep, PickUp, ReleaseDwellingDigLeg, Deliver, Confirm, FailLeg, StopLeg,
              EndUnheard, Misconfigure,
          Intrude, ForeignTakes, RivalDig, RivalDone, ReapOrphaned, Crash
<1>2. ASSUME NEW p \in Procs, ProcStep(p)
      PROVE  failed' \subseteq failed \/ \E l \in Legs : failed' = failed \cup {l} /\ FailLeg(l)
  <2>1. CASE Advance(p)
    BY <2>1 DEF Advance, GetNextChild, FailUnbuildable, Admit, AdmitQuiet, Reread,
                TakeLaneOccupancy, MoveToSourcing, SourcingUnwritten, CommitToFleet, HandoverToFleet,
                CreateOrder, CreateRefused, ParkLeg, RecordVendor
  <2>2. CASE Settle(p)
    BY <2>2 DEF Settle, CancelOrder, HandleChildOrderFailure, DissolveCompound,
                CancelCompoundChildren, UnlockLane, ListChildOrders, GetParent,
                FailParent, RequeueParent, CompleteParent, ReleaseHeldLanes
  <2>3. CASE \/ Woken(p) \/ Sweep(p) \/ SweepStalledChapters(p) \/ CancelParent(p)
             \/ PlanReshuffle(p) \/ Scan(p)
    BY <2>3 DEF Scan, Woken, Sweep, SweepStalledChapters, CancelParent,
                PlanReshuffle, TryLockLane, WriteCompoundChildren, BeginReshuffle
  <2> QED
    BY <1>2, <2>1, <2>2, <2>3, Zenon DEF ProcStep
<1> QED
  BY <1>1, <1>2, StepKinds, Zenon

\* The bins' places and the configuration change on the floor only.
LEMMA FloorRest ==
    ASSUME Next
    PROVE  UNCHANGED <<at, foreign, broken>> \/ FloorStep
<1> USE DEF floor
<1>1. CASE FloorStep \/ Crash
  BY <1>1 DEF FloorStep, PickUp, ReleaseDwellingDigLeg, Deliver, Confirm, FailLeg, StopLeg,
              EndUnheard, Misconfigure,
          Intrude, ForeignTakes, RivalDig, RivalDone, ReapOrphaned, Crash
<1>2. ASSUME NEW p \in Procs, ProcStep(p)
      PROVE  UNCHANGED <<at, foreign, broken>> \/ FloorStep
  <2>1. CASE Advance(p)
    BY <2>1 DEF Advance, GetNextChild, FailUnbuildable, Admit, AdmitQuiet, Reread,
                TakeLaneOccupancy, MoveToSourcing, SourcingUnwritten, CommitToFleet, HandoverToFleet,
                CreateOrder, CreateRefused, ParkLeg, RecordVendor
  <2>2. CASE Settle(p)
    BY <2>2 DEF Settle, CancelOrder, HandleChildOrderFailure, DissolveCompound,
                CancelCompoundChildren, UnlockLane, ListChildOrders, GetParent,
                FailParent, RequeueParent, CompleteParent, ReleaseHeldLanes
  <2>3. CASE \/ Woken(p) \/ Sweep(p) \/ SweepStalledChapters(p) \/ CancelParent(p)
             \/ PlanReshuffle(p) \/ Scan(p)
    BY <2>3 DEF Scan, Woken, Sweep, SweepStalledChapters, CancelParent,
                PlanReshuffle, TryLockLane, WriteCompoundChildren, BeginReshuffle
  <2> QED
    BY <1>2, <2>1, <2>2, <2>3, Zenon DEF ProcStep
<1> QED
  BY <1>1, <1>2, StepKinds, Zenon

\* Calls are asked for by what happens to legs.
LEMMA QueueMoves ==
    ASSUME TypeOK, MeOK, Routed, Next
    PROVE  QueueMove
<1>1. CASE FloorStep \/ Crash
  <2>1. ASSUME NEW l \in Legs, \/ PickUp(l) \/ ReleaseDwellingDigLeg(l) \/ Deliver(l) \/ Confirm(l)
                              \/ FailLeg(l) \/ StopLeg(l) \/ EndUnheard(l) \/ Misconfigure(l)
        PROVE  Children # {}
    BY <2>1, Zenon DEF PickUp, ReleaseDwellingDigLeg, Deliver, Confirm, FailLeg, StopLeg,
              EndUnheard, Misconfigure, Awaiting, Live,
                       Children
  <2>2. ASSUME NEW b \in Bins, Intrude(b) \/ ForeignTakes(b)
        PROVE  QueueMove
    BY <2>2 DEF QueueMove, Intrude, ForeignTakes, queue
  <2>3. CASE RivalDig \/ RivalDone \/ ReapOrphaned
    BY <2>3 DEF QueueMove, RivalDig, RivalDone, ReapOrphaned, queue
  <2>4. CASE Crash
    BY <2>4 DEF QueueMove, Crash
  <2> QED
    BY <1>1, <2>1, <2>2, <2>3, <2>4, Zenon DEF FloorStep, QueueMove
<1>2. ASSUME NEW p \in Procs, ProcStep(p)
      PROVE  QueueMove
  <2>1. CASE Advance(p)
    BY <2>1 DEF QueueMove, Advance, GetNextChild, FailUnbuildable, Admit, AdmitQuiet, Reread,
                TakeLaneOccupancy, MoveToSourcing, SourcingUnwritten, CommitToFleet, HandoverToFleet, CreateOrder,
                CreateRefused, ParkLeg, RecordVendor, queue
  <2>2. CASE CancelOrder(p)
    <3>1. me[p].pc = "cancel" /\ me[p] \in Mem
      BY <2>2, Zenon DEF CancelOrder, MeOK
    <3>2. PICK c \in me[p].rest : TRUE
      BY <2>2, Zenon DEF CancelOrder
    <3>3. c[1] \in Legs
      BY <3>1 DEF Mem
    <3> QED
      BY <3>1, <3>2, <3>3, Zenon DEF Routed, Children, QueueMove
  <2>3. CASE Settle(p) /\ ~CancelOrder(p)
    BY <2>3 DEF QueueMove, Settle, HandleChildOrderFailure, DissolveCompound,
                CancelCompoundChildren, UnlockLane, ListChildOrders, GetParent, FailParent,
                RequeueParent, CompleteParent, ReleaseHeldLanes, queue
  <2>4. CASE \/ Woken(p) \/ Sweep(p) \/ SweepStalledChapters(p) \/ CancelParent(p)
             \/ PlanReshuffle(p) \/ Scan(p)
    BY <2>4 DEF QueueMove, Scan, Woken, Sweep, SweepStalledChapters, CancelParent,
                PlanReshuffle, TryLockLane, WriteCompoundChildren, BeginReshuffle, queue
  <2> QED
    BY <1>2, <2>1, <2>2, <2>3, <2>4, Zenon DEF ProcStep
<1> QED
  BY <1>1, <1>2, StepKinds, Zenon

-----------------------------------------------------------------------------
(* Types, and what the steps of a call have in hand.                       *)

\* The chapters are written one at a time, each with legs of its own.
Chapters ==
    /\ \A l \in Legs : l[1] > chapter => st[l] = "none"
    /\ \A p, q \in Procs : me[p].pc \in PlanSteps /\ me[q].pc \in PlanSteps => p = q
    /\ \A p \in Procs : me[p].pc \in {"lock", "write"} =>
          chapter < MaxChapters /\ \A c \in me[p].rest : c[1][1] = chapter + 1

\* The statuses, places and counts stay what they are declared to be.
LEMMA TypeKept ==
    ASSUME TypeOK, MeOK, Routed, Chapters, Next
    PROVE  TypeOK'
<1>1. kind' \in {"plain", "coordinated"}
  BY KindKept, Zenon DEF TypeOK
<1>2. /\ parent' \in {"queued", "reshuffling", "confirmed", "failed", "cancelled"}
      /\ lapses' \subseteq {"givenback", "late", "unbegun", "cut", "gone"}
  BY ParentMoves, Zenon
<1>3. chapter' \in 0 .. MaxChapters
  <2>1. \/ chapter' = chapter
        \/ chapter' = chapter + 1 /\ chapter < MaxChapters
    BY ChapterMoves, Zenon DEF ChapterMove, Chapters
  <2> QED
    BY <2>1, DigAssumption DEF TypeOK
<1>4. /\ st' \in [Legs -> {"none", "pending", "sourcing", "dispatched", "delivered",
                           "confirmed", "failed", "cancelled"}]
      /\ why' \in [Legs -> {"none", "config", "dissolved", "legfailed", "other"}]
  BY StMoves, Zenon DEF Statuses, Details
<1>5. /\ robot' \in [Legs -> {"none", "unsealed", "dwell", "sealed", "away", "stopped", "done"}]
      /\ occ' \subseteq Legs /\ twice' \subseteq Legs
  BY RobotMoves, Zenon DEF Missions
<1>6. lane' \in {"none", "dig", "out", "rival"}
  BY LaneTyped, Zenon
<1>7. used' \in 0 .. MaxHits
  BY UsedMoves, DigAssumption DEF TypeOK
<1>8. wakes' \in 0 .. MaxWakes
  BY WakesMoves, DigAssumption DEF TypeOK, Wake
<1>9. vendor' \subseteq Legs
  <2>1. CASE vendor' = vendor
    BY <2>1, Zenon DEF TypeOK
  <2>2. ASSUME NEW p \in Procs, RecordVendor(p)
        PROVE  vendor' \subseteq Legs
    <3>1. me[p].pc \in LegSteps
      BY <2>2, Zenon DEF RecordVendor, LegSteps
    <3>2. me[p].leg \in Legs
      BY <3>1, Zenon DEF Routed
    <3>3. vendor' = vendor \/ vendor' = vendor \cup {me[p].leg}
      BY <2>2, Zenon DEF RecordVendor
    <3> QED
      BY <3>2, <3>3, Zenon DEF TypeOK
  <2> QED
    BY <2>1, <2>2, VendorRest, Zenon
<1>10. failed' \subseteq Legs
  BY FailedRest, Zenon DEF TypeOK
<1>11. broken' \subseteq Legs /\ at' \in [Bins -> {"lane", "robot", "out"}] /\ foreign' \subseteq Bins
  <2>1. /\ broken \subseteq Legs /\ at \in [Bins -> {"lane", "robot", "out"}] /\ foreign \subseteq Bins
    BY Zenon DEF TypeOK
  <2>2. CASE UNCHANGED <<at, foreign, broken>>
    BY <2>1, <2>2, Zenon
  <2>3. ASSUME NEW l \in Legs, PickUp(l) \/ Deliver(l)
        PROVE  /\ broken' = broken /\ foreign' = foreign
               /\ at' \in [Bins -> {"lane", "robot", "out"}]
    BY <2>1, <2>3, Zenon DEF PickUp, Deliver
  <2>4. ASSUME NEW l \in Legs, \/ ReleaseDwellingDigLeg(l) \/ Confirm(l) \/ FailLeg(l)
                              \/ StopLeg(l) \/ EndUnheard(l)
        PROVE  UNCHANGED <<at, foreign, broken>>
    BY <2>4, Zenon DEF ReleaseDwellingDigLeg, Confirm, FailLeg, StopLeg, EndUnheard
  <2>5. ASSUME NEW l \in Legs, Misconfigure(l)
        PROVE  UNCHANGED <<at, foreign>> /\ broken' \subseteq Legs
    BY <2>1, <2>5, Zenon DEF Misconfigure
  <2>6. ASSUME NEW b \in Bins, Intrude(b) \/ ForeignTakes(b)
        PROVE  /\ broken' = broken /\ foreign' \subseteq Bins
               /\ at' \in [Bins -> {"lane", "robot", "out"}]
    BY <2>1, <2>6, Zenon DEF Intrude, ForeignTakes
  <2>7. CASE RivalDig \/ RivalDone \/ ReapOrphaned
    BY <2>1, <2>7, Zenon DEF RivalDig, RivalDone, ReapOrphaned
  <2> QED
    BY <2>1, <2>2, <2>3, <2>4, <2>5, <2>6, <2>7, FloorRest, Zenon DEF FloorStep
<1>12. \A p \in Procs : me'[p].leg \in Legs \cup {None} /\ me'[p].rest \subseteq Legs \X BOOLEAN
  <2>1. MeOK'
    BY ProcMoves, Zenon
  <2> QED
    BY <2>1 DEF MeOK, Mem
<1>13. vendor' \cup occ' \cup broken' \cup failed' \cup twice' \subseteq Legs
  BY <1>5, <1>9, <1>10, <1>11, Zenon
<1> QED
  BY <1>1, <1>2, <1>3, <1>4, <1>5, <1>6, <1>7, <1>8, <1>11, <1>12, <1>13, Zenon DEF TypeOK

\* A leg that has been written stays written.
LEMMA Written ==
    ASSUME TypeOK, MeOK, Routed, Next, NEW l \in Legs, st[l] # "none"
    PROVE  st'[l] # "none"
<1>1. StMove(l)
  BY StMoves, Zenon
<1> QED
  BY <1>1, Zenon DEF StMove, EndedMove

\* The chapters only grow.
LEMMA ChapterGrows ==
    ASSUME TypeOK, MeOK, Routed, Next
    PROVE  chapter \in Nat /\ chapter' \in Nat /\ chapter <= chapter'
<1>1. chapter' = chapter \/ chapter' = chapter + 1
  BY ChapterMoves, Zenon DEF ChapterMove
<1> QED
  BY <1>1 DEF TypeOK

\* A call has in hand what its step needs.
LEMMA RoutedKept ==
    ASSUME TypeOK, MeOK, Routed, Next
    PROVE  Routed'
<1> SUFFICES ASSUME NEW p \in Procs
             PROVE  /\ me'[p].pc = "cancel" => me'[p].then \in {"idle", "unlock"} /\ me'[p].detail \in Reasons
                    /\ me'[p].pc = "parent" => me'[p].then \in Verdicts
                    /\ me'[p].pc \in LegSteps => me'[p].leg \in Legs /\ st'[me'[p].leg] # "none"
                    /\ me'[p].pc \in {"cancel", "parent"} => \A c \in me'[p].rest : st'[c[1]] # "none"
                    /\ me'[p].chap <= chapter'
  BY Zenon DEF Routed
<1>0. ProcMove(p) /\ me[p] \in Mem /\ me'[p] \in Mem
  BY ProcMoves, Zenon DEF MeOK
<1>1. me'[p].pc = "cancel" => me'[p].then \in {"idle", "unlock"} /\ me'[p].detail \in Reasons
  BY <1>0, IdleMem, Zenon DEF Routed, ProcMove, ForgetMove, CallMove, LegMove, CancelMove, EndMove,
                    PlanMove, Reasons
<1>2. me'[p].pc = "parent" => me'[p].then \in Verdicts
  BY <1>0, IdleMem, VerdictOK, Zenon
     DEF Routed, ProcMove, ForgetMove, CallMove, LegMove, CancelMove, EndMove, PlanMove
<1>3. me'[p].pc \in LegSteps => me'[p].leg \in Legs /\ st'[me'[p].leg] # "none"
  <2>1. me'[p].pc \in LegSteps =>
           me'[p].leg \in Awaiting \/ (me'[p].leg = me[p].leg /\ me[p].pc \in LegSteps)
    BY <1>0, IdleMem, Zenon
       DEF LegSteps, ProcMove, ForgetMove, CallMove, LegMove, CancelMove, EndMove, PlanMove
  <2>2. me'[p].pc \in LegSteps => me'[p].leg \in Legs /\ st[me'[p].leg] # "none"
    BY <2>1, Zenon DEF Routed, Awaiting, Children
  <2> QED
    BY <2>2, Written, Zenon
<1>4. me'[p].pc \in {"cancel", "parent"} => \A c \in me'[p].rest : st'[c[1]] # "none"
  <2>1. me'[p].pc \in {"cancel", "parent"} =>
           \/ \A c \in me'[p].rest : st[c[1]] # "none"
           \/ me[p].pc \in {"cancel", "parent"} /\ me'[p].rest \subseteq me[p].rest
    <3>1. (me[p].pc = "end" /\ me'[p].rest = {<<l, l \in vendor>> : l \in Open \cap Live})
             => \A c \in me'[p].rest : st[c[1]] # "none"
      BY DEF Live, Children
    <3> QED
      BY <1>0, <3>1, IdleMem, Zenon
         DEF ProcMove, ForgetMove, CallMove, LegMove, CancelMove, EndMove, PlanMove, LegSteps
  <2>2. \A c \in me'[p].rest : c[1] \in Legs
    BY <1>0 DEF Mem
  <2> QED
    BY <2>1, <2>2, Written, Zenon DEF Routed
<1>5. me'[p].chap <= chapter'
  <2>1. me'[p].chap = me[p].chap \/ me'[p].chap = chapter \/ me'[p].chap = 0
    BY <1>0, IdleMem, Zenon
       DEF ProcMove, ForgetMove, CallMove, LegMove, CancelMove, EndMove, PlanMove
  <2>2. me[p].chap <= chapter /\ me[p].chap \in Nat
    BY <1>0 DEF Routed, Mem
  <2> QED
    BY <2>1, <2>2, ChapterGrows
<1> QED
  BY <1>1, <1>2, <1>3, <1>4, <1>5, Zenon

\* A leg's chapter is a number.
LEMMA LegParts == \A l \in Legs : l[1] \in Nat /\ l[1] >= 1 /\ l[1] <= MaxChapters /\ l[2] \in Bins
BY DigAssumption DEF Legs, Bins

\* A goroutine gets to a planning step from the one before, or from idle when nobody plans.
LEMMA PlanEntered ==
    ASSUME NEW p \in Procs, ProcMove(p), me'[p].pc \in PlanSteps
    PROVE  \/ me'[p] = me[p]
           \/ /\ me[p].pc = "idle" /\ me'[p].pc = "lock" /\ \A q \in Procs : me[q].pc \notin PlanSteps
              /\ me'[p].rest = Planned \X {FALSE} /\ chapter < MaxChapters /\ UNCHANGED family
           \/ /\ me[p].pc = "lock" /\ me'[p].pc = "write" /\ me'[p].rest = me[p].rest
              /\ UNCHANGED family
           \/ me[p].pc = "write" /\ me'[p].pc = "begin" /\ chapter' = chapter + 1
BY IdleMem, Zenon DEF PlanSteps, ProcMove, ForgetMove, CallMove, LegMove, CancelMove, EndMove, PlanMove

\* Chapters are written one at a time.
LEMMA ChaptersKept ==
    ASSUME TypeOK, MeOK, Routed, Chapters, Next
    PROVE  Chapters'
<1>0. /\ MeOK' /\ \A p \in Procs : ProcMove(p)
      /\ \A p, q \in Procs :
            p # q => me'[p] = me[p] \/ me'[q] = me[q] \/ (me'[p] = Idle /\ me'[q] = Idle)
  BY ProcMoves, Zenon
<1>1. ASSUME NEW l \in Legs, l[1] > chapter'
      PROVE  st'[l] = "none"
  <2>1. l[1] > chapter /\ chapter \in Nat /\ l[1] \in Nat
    BY <1>1, ChapterGrows, LegParts
  <2>2. st[l] = "none"
    BY <2>1, Zenon DEF Chapters
  <2>3. CASE chapter' = chapter /\ \A k \in Legs : st[k] = "none" => st'[k] = "none"
    BY <2>2, <2>3, Zenon
  <2>4. ASSUME chapter' = chapter + 1, NEW p \in Procs, me[p].pc = "write",
               \A k \in Legs : st'[k] = IF <<k, FALSE>> \in me[p].rest THEN "pending" ELSE st[k]
        PROVE  st'[l] = "none"
    <3>1. \A c \in me[p].rest : c[1][1] = chapter + 1
      BY <2>4, Zenon DEF Chapters
    <3>2. l[1] # chapter + 1
      BY <1>1, <2>1, <2>4
    <3>3. <<l, FALSE>> \notin me[p].rest
      <4>1. <<l, FALSE>>[1] = l
        OBVIOUS
      <4> QED
        BY <3>1, <3>2, <4>1, Zenon
    <3> QED
      BY <2>2, <2>4, <3>3, Zenon
  <2> QED
    BY <2>3, <2>4, ChapterMoves, Zenon DEF ChapterMove
<1>2. ASSUME NEW p \in Procs, NEW q \in Procs, me'[p].pc \in PlanSteps, me'[q].pc \in PlanSteps
      PROVE  p = q
  <2>1. ASSUME NEW r \in Procs, me'[r].pc \in PlanSteps
        PROVE  me[r].pc \in PlanSteps \/ \A s \in Procs : me[s].pc \notin PlanSteps
    BY <1>0, <2>1, PlanEntered, Zenon DEF PlanSteps
  <2>2. CASE me[p].pc \in PlanSteps /\ me[q].pc \in PlanSteps
    BY <2>2, Zenon DEF Chapters
  <2>3. CASE me[p].pc \notin PlanSteps \/ me[q].pc \notin PlanSteps
    <3>1. me[p].pc \notin PlanSteps /\ me[q].pc \notin PlanSteps
      BY <1>2, <2>1, <2>3, Zenon
    <3>2. me'[p] # me[p] /\ me'[q] # me[q] /\ me'[p] # Idle
      BY <1>2, <3>1, IdleMem, Zenon DEF PlanSteps
    <3> QED
      BY <1>0, <3>2, Zenon
  <2> QED
    BY <2>2, <2>3, Zenon
<1>3. ASSUME NEW p \in Procs, me'[p].pc \in {"lock", "write"}
      PROVE  chapter' < MaxChapters /\ \A c \in me'[p].rest : c[1][1] = chapter' + 1
  <2>1. CASE me'[p] = me[p]
    <3>1. chapter < MaxChapters /\ \A c \in me[p].rest : c[1][1] = chapter + 1
      BY <1>3, <2>1, Zenon DEF Chapters
    <3>2. chapter' = chapter
      <4>1. ASSUME NEW q \in Procs, me[q].pc = "write", me'[q].pc = "begin"
            PROVE  FALSE
        <5>1. q = p
          BY <1>3, <2>1, <4>1, Zenon DEF Chapters, PlanSteps
        <5> QED
          BY <1>3, <2>1, <4>1, <5>1, Zenon
      <4> QED
        BY <4>1, ChapterMoves, Zenon DEF ChapterMove
    <3> QED
      BY <2>1, <3>1, <3>2, Zenon
  <2>2. CASE me'[p].rest = Planned \X {FALSE} /\ chapter < MaxChapters /\ UNCHANGED family
    <3>1. \A c \in me'[p].rest : c[1][1] = chapter + 1
      <4>1. \A c \in Planned \X {FALSE} : c[1] \in Planned
        OBVIOUS
      <4> QED
        BY <2>2, <4>1, Zenon DEF Planned
    <3>2. chapter' = chapter
      BY <2>2 DEF family
    <3> QED
      BY <2>2, <3>1, <3>2, Zenon
  <2>3. CASE me[p].pc = "lock" /\ me'[p].rest = me[p].rest /\ UNCHANGED family
    <3>1. chapter' = chapter
      BY <2>3 DEF family
    <3> QED
      BY <2>3, <3>1, Zenon DEF Chapters
  <2>4. me'[p].pc \in PlanSteps /\ me'[p].pc # "begin"
    BY <1>3, Zenon DEF PlanSteps
  <2> QED
    BY <1>0, <2>1, <2>2, <2>3, <2>4, PlanEntered, Zenon
<1> QED
  BY <1>1, <1>2, <1>3, Zenon DEF Chapters

-----------------------------------------------------------------------------
(* One create per leg.                                                     *)

\* A leg not handed over yet has no robot; the caller that hands it over is the
\* only one about to ask the fleet.
Sent ==
    /\ \A l \in Legs : st[l] \in {"none", "pending", "sourcing"} => robot[l] = "none"
    /\ \A p \in Procs : me[p].pc \in {"create", "park"} =>
          robot[me[p].leg] = "none" /\ (st[me[p].leg] = "dispatched" \/ Over(st[me[p].leg]))
    /\ \A p, q \in Procs : me[p].pc \in {"create", "park"} /\ me[q].pc \in {"create", "park"}
                           /\ me[p].leg = me[q].leg => p = q
    /\ twice = {}

Asking == {"create", "park"}

\* A call comes to ask the fleet by handing the leg over, and goes on by asking.
LEMMA AskEntered ==
    ASSUME NEW p \in Procs, ProcMove(p), me'[p].pc \in Asking
    PROVE  \/ me'[p] = me[p]
           \/ /\ me[p].pc = "handover" /\ me'[p].pc = "create" /\ me'[p].leg = me[p].leg
              /\ st[me[p].leg] = "sourcing" /\ st'[me[p].leg] = "dispatched" /\ UNCHANGED robot
           \/ /\ me[p].pc = "create" /\ me'[p].pc = "park" /\ me'[p].leg = me[p].leg
              /\ UNCHANGED <<st, robot>> /\ "givenback" \in lapses'
BY IdleMem, Zenon DEF Asking, ProcMove, ForgetMove, CallMove, LegMove, CancelMove, EndMove, PlanMove

\* A leg is written once: the plan's legs are of a chapter nobody has written.
LEMMA WrittenFresh ==
    ASSUME TypeOK, MeOK, Chapters, NEW p \in Procs, me[p].pc \in {"lock", "write"}, NEW l \in Legs,
           <<l, FALSE>> \in me[p].rest
    PROVE  st[l] = "none" /\ l[1] = chapter + 1
<1>1. <<l, FALSE>>[1] = l
  OBVIOUS
<1>2. l[1] = chapter + 1
  BY <1>1, Zenon DEF Chapters
<1>3. l[1] > chapter
  BY <1>2 DEF TypeOK
<1> QED
  BY <1>2, <1>3, Zenon DEF Chapters

\* The fleet is asked once for a leg.
LEMMA SentKept ==
    ASSUME TypeOK, MeOK, Routed, Chapters, Sent, Next
    PROVE  Sent'
<1>0. /\ MeOK' /\ \A p \in Procs : ProcMove(p)
      /\ \A p, q \in Procs :
            p # q => me'[p] = me[p] \/ me'[q] = me[q] \/ (me'[p] = Idle /\ me'[q] = Idle)
  BY ProcMoves, Zenon
<1>1. (\A l \in Legs : StMove(l) /\ RobotMove(l)) /\ TwiceMove
  BY StMoves, RobotMoves, Zenon
<1>2. ASSUME NEW l \in Legs, st'[l] \in {"none", "pending", "sourcing"}
      PROVE  robot'[l] = "none"
  <2>1. ASSUME robot[l] = "none", \A p \in Procs : me[p].pc = "create" => me[p].leg # l
        PROVE  robot'[l] = "none"
    BY <1>1, <2>1, Zenon DEF RobotMove, UnderWay
  <2>2. ASSUME st[l] \in {"none", "pending", "sourcing"}
        PROVE  robot'[l] = "none"
    BY <2>1, <2>2, Zenon DEF Sent, Over
  <2>3. ASSUME NEW p \in Procs, me[p].pc = "write", <<l, FALSE>> \in me[p].rest
        PROVE  robot'[l] = "none"
    BY <2>2, <2>3, WrittenFresh, Zenon
  <2>4. ASSUME NEW p \in Procs, me[p].pc = "park", me[p].leg = l
        PROVE  robot'[l] = "none"
    <3>1. robot[l] = "none"
      BY <2>4, Zenon DEF Sent
    <3>2. ASSUME NEW q \in Procs, me[q].pc = "create"
          PROVE  me[q].leg # l
      <4>1. p # q
        BY <2>4, <3>2, Zenon
      <4> QED
        BY <2>4, <3>2, <4>1, Zenon DEF Sent
    <3> QED
      BY <2>1, <3>1, <3>2, Zenon
  <2> QED
    BY <1>1, <1>2, <2>2, <2>3, <2>4, Zenon DEF StMove, EndedMove
<1>3. ASSUME NEW p \in Procs, me'[p].pc \in Asking
      PROVE  /\ robot'[me'[p].leg] = "none"
             /\ st'[me'[p].leg] = "dispatched" \/ Over(st'[me'[p].leg])
  <2>1. CASE me'[p] = me[p]
    <3> DEFINE l == me[p].leg
    <3>1. me[p].pc \in Asking /\ l \in Legs
      BY <1>3, <2>1, Zenon DEF Routed, Asking, LegSteps
    <3>2. robot[l] = "none" /\ (st[l] = "dispatched" \/ Over(st[l]))
      BY <3>1, Zenon DEF Sent, Asking
    <3>3. ASSUME NEW q \in Procs, me[q].pc \in Asking, me[q].leg = l
          PROVE  q = p
      BY <3>1, <3>3, Zenon DEF Sent, Asking
    <3> HIDE DEF l
    <3>4. robot'[l] = "none"
      BY <1>1, <1>3, <2>1, <3>1, <3>2, <3>3, Zenon DEF RobotMove, UnderWay, Asking
    <3>5. st'[l] = "dispatched" \/ Over(st'[l])
      <4>1. ASSUME NEW q \in Procs, me[q].pc = "write", <<l, FALSE>> \in me[q].rest
            PROVE  FALSE
        BY <3>1, <3>2, <4>1, WrittenFresh, Zenon DEF Over
      <4>2. ASSUME NEW q \in Procs, me[q].pc = "park", me[q].leg = l, me'[q].pc = "idle"
            PROVE  FALSE
        BY <1>3, <2>1, <3>3, <4>2, Zenon DEF Asking
      <4>3. StMove(l)
        BY <1>1, <3>1, Zenon
      <4> QED
        BY <3>2, <4>1, <4>2, <4>3, Zenon DEF StMove, EndedMove, Over
    <3> QED
      BY <2>1, <3>4, <3>5, Zenon DEF l
  <2>2. CASE /\ me[p].pc = "handover" /\ me'[p].leg = me[p].leg
             /\ st[me[p].leg] = "sourcing" /\ st'[me[p].leg] = "dispatched" /\ UNCHANGED robot
    <3>1. me[p].leg \in Legs
      BY <2>2, Zenon DEF Routed, LegSteps
    <3> QED
      BY <2>2, <3>1, Zenon DEF Sent
  <2>3. CASE /\ me[p].pc = "create" /\ me'[p].leg = me[p].leg /\ UNCHANGED <<st, robot>>
    BY <2>3, Zenon DEF Sent
  <2> QED
    BY <1>0, <1>3, <2>1, <2>2, <2>3, AskEntered, Zenon
<1>4. ASSUME NEW p \in Procs, NEW q \in Procs, me'[p].pc \in Asking, me'[q].pc \in Asking,
             me'[p].leg = me'[q].leg, me'[p] = me[p]
      PROVE  p = q
  <2>1. me[p].pc \in Asking /\ (st[me[p].leg] = "dispatched" \/ Over(st[me[p].leg]))
    BY <1>4, Zenon DEF Sent, Asking
  <2>2. CASE me[q].pc \in Asking /\ me'[q].leg = me[q].leg
    BY <1>4, <2>1, <2>2, Zenon DEF Sent, Asking
  <2>3. CASE me'[q].leg = me[q].leg /\ st[me[q].leg] = "sourcing"
    BY <1>4, <2>1, <2>3, Zenon DEF Over
  <2> QED
    BY <1>0, <1>4, <2>2, <2>3, AskEntered, Zenon DEF Asking
<1>5. ASSUME NEW p \in Procs, NEW q \in Procs, me'[p].pc \in Asking, me'[q].pc \in Asking,
             me'[p].leg = me'[q].leg
      PROVE  p = q
  <2>1. me'[p] # Idle
    BY <1>5, IdleMem, Zenon DEF Asking
  <2> QED
    BY <1>0, <1>4, <1>5, <2>1, Zenon
<1>6. twice' = {}
  BY <1>1, Zenon DEF TwiceMove, Sent
<1> QED
  BY <1>2, <1>3, <1>5, <1>6, Zenon DEF Sent, Asking

-----------------------------------------------------------------------------
(* Occupancy rows.                                                         *)

\* A leg that was claimed, by this call or an earlier one, is not pending any more.
Claimed ==
    \A p \in Procs : me[p].pc \in LegSteps =>
       /\ me[p].was \in {"pending", "sourcing"}
       /\ me[p].was = "sourcing" \/ me[p].pc \in {"commit", "handover"} => st[me[p].leg] # "pending"

\* Until a refused create or a failed write gives it back, a leg has its row from
\* before the hand-over until its robot has somewhere to go.
Inside ==
    "givenback" \notin lapses =>
       /\ \A l \in Live : robot[l] \in {"unsealed", "dwell"} => l \in occ
       /\ \A p \in Procs :
             /\ me[p].pc # "park"
             /\ me[p].pc = "create" /\ ~Over(st[me[p].leg]) => me[p].leg \in occ
             /\ me[p].pc = "handover" /\ st[me[p].leg] = "sourcing" => me[p].leg \in occ

\* A call takes a leg in hand from the legs that wait, and then holds on to it.
LEMMA LegEntered ==
    ASSUME NEW p \in Procs, ProcMove(p), me'[p].pc \in LegSteps
    PROVE  \/ me'[p] = me[p]
           \/ me'[p].pc = "admit" /\ me'[p].leg \in Awaiting /\ me'[p].was = st[me'[p].leg] /\ st' = st
           \/ /\ me[p].pc \in LegSteps /\ me'[p].leg = me[p].leg /\ me'[p].was = me[p].was
              /\ me'[p].pc = "commit" => \/ me[p].was # "pending" /\ st' = st
                                         \/ st'[me[p].leg] = "sourcing"
              /\ me'[p].pc = "handover" => me[p].pc = "commit" /\ me[p].leg \in occ' /\ st' = st
BY IdleMem, Zenon DEF LegSteps, ProcMove, ForgetMove, CallMove, LegMove, CancelMove, EndMove, PlanMove

\* Nothing becomes pending, or comes back from its end, but what is written.
LEMMA OneWay ==
    ASSUME TypeOK, MeOK, Routed, Chapters, Next, NEW l \in Legs, st[l] # "none"
    PROVE  /\ st[l] # "pending" => st'[l] # "pending"
           /\ Over(st[l]) => st'[l] = st[l] /\ why'[l] = why[l]
<1>1. StMove(l)
  BY StMoves, Zenon
<1>2. ASSUME NEW p \in Procs, me[p].pc = "write", <<l, FALSE>> \in me[p].rest
      PROVE  FALSE
  BY <1>2, WrittenFresh, Zenon
<1>3. st[l] # "pending" => st'[l] # "pending"
  BY <1>1, <1>2, Zenon DEF StMove, EndedMove
<1>4. ASSUME Over(st[l])
      PROVE  st'[l] = st[l] /\ why'[l] = why[l]
  <2>1. l \notin Live /\ st[l] \notin {"pending", "sourcing", "dispatched"}
    BY <1>4, Zenon DEF Live, Over
  <2> QED
    BY <1>1, <1>2, <2>1, Zenon DEF StMove, EndedMove
<1> QED
  BY <1>3, <1>4, Zenon

\* A claim is for good.
LEMMA ClaimedKept ==
    ASSUME TypeOK, MeOK, Routed, Chapters, Claimed, Next
    PROVE  Claimed'
<1>1. SUFFICES ASSUME NEW p \in Procs, me'[p].pc \in LegSteps
               PROVE  /\ me'[p].was \in {"pending", "sourcing"}
                      /\ me'[p].was = "sourcing" \/ me'[p].pc \in {"commit", "handover"} =>
                           st'[me'[p].leg] # "pending"
  BY Zenon DEF Claimed
<1>2. ProcMove(p)
  BY ProcMoves, Zenon
<1>3. ASSUME me[p].pc \in LegSteps
      PROVE  /\ me[p].was \in {"pending", "sourcing"}
             /\ st[me[p].leg] # "pending" => st'[me[p].leg] # "pending"
             /\ me[p].was = "sourcing" \/ me[p].pc \in {"commit", "handover"} => st[me[p].leg] # "pending"
  <2>1. me[p].leg \in Legs /\ st[me[p].leg] # "none"
    BY <1>3, Zenon DEF Routed
  <2> QED
    BY <1>3, <2>1, OneWay, Zenon DEF Claimed
<1>4. CASE me'[p] = me[p]
  BY <1>1, <1>3, <1>4, Zenon
<1>5. CASE /\ me'[p].pc = "admit" /\ me'[p].leg \in Awaiting /\ me'[p].was = st[me'[p].leg]
           /\ st' = st
  BY <1>5, Zenon DEF Awaiting
<1>6. CASE /\ me[p].pc \in LegSteps /\ me'[p].leg = me[p].leg /\ me'[p].was = me[p].was
           /\ me'[p].pc = "commit" => \/ me[p].was # "pending" /\ st' = st
                                      \/ st'[me[p].leg] = "sourcing"
           /\ me'[p].pc = "handover" => me[p].pc = "commit" /\ me[p].leg \in occ' /\ st' = st
  <2>1. me'[p].pc = "commit" => st'[me'[p].leg] # "pending"
    BY <1>3, <1>6, Zenon
  <2>2. me'[p].pc = "handover" => st'[me'[p].leg] # "pending"
    BY <1>3, <1>6, Zenon
  <2> QED
    BY <1>3, <1>6, <2>1, <2>2, Zenon
<1> QED
  BY <1>1, <1>2, <1>4, <1>5, <1>6, LegEntered, Zenon

\* A leg keeps its row while its robot fetches the bin or dwells with it.
LEMMA InsideKept ==
    ASSUME TypeOK, MeOK, Routed, Chapters, Sent, Sent', Claimed, Inside, Next
    PROVE  Inside'
<1> SUFFICES ASSUME "givenback" \notin lapses'
             PROVE  /\ \A l \in Live' : robot'[l] \in {"unsealed", "dwell"} => l \in occ'
                    /\ \A p \in Procs :
                          /\ me'[p].pc # "park"
                          /\ me'[p].pc = "create" /\ ~Over(st'[me'[p].leg]) => me'[p].leg \in occ'
                          /\ me'[p].pc = "handover" /\ st'[me'[p].leg] = "sourcing" => me'[p].leg \in occ'
  BY Zenon DEF Inside
<1>0. /\ \A p \in Procs : ProcMove(p)
      /\ \A l \in Legs : StMove(l) /\ RobotMove(l) /\ OccMove(l)
  BY ProcMoves, StMoves, RobotMoves, Zenon
<1>1. /\ \A l \in Live : robot[l] \in {"unsealed", "dwell"} => l \in occ
      /\ \A p \in Procs :
            /\ me[p].pc # "park"
            /\ me[p].pc = "create" /\ ~Over(st[me[p].leg]) => me[p].leg \in occ
            /\ me[p].pc = "handover" /\ st[me[p].leg] = "sourcing" => me[p].leg \in occ
  <2>1. "givenback" \notin lapses
    BY ParentMoves, Zenon DEF HistoryMove
  <2> QED
    BY <2>1, Zenon DEF Inside
<1>2. ASSUME NEW l \in Live', robot'[l] \in {"unsealed", "dwell"}
      PROVE  l \in occ'
  <2>1. l \in Legs /\ ~Over(st'[l])
    BY <1>2, Zenon DEF Live, Children
  <2>2. l \in occ
    <3>1. CASE robot[l] \in {"unsealed", "dwell"}
      <4>1. st[l] # "none"
        BY <2>1, <3>1, Zenon DEF Sent
      <4>2. l \in Live
        BY <2>1, <4>1, OneWay, Zenon DEF Live, Children
      <4> QED
        BY <1>1, <3>1, <4>2, Zenon
    <3>2. ASSUME NEW p \in Procs, me[p].pc = "create", me[p].leg = l
          PROVE  l \in occ
      <4>1. ~Over(st[l])
        BY <2>1, <3>2, OneWay, Zenon DEF Over
      <4> QED
        BY <1>1, <3>2, <4>1, Zenon
    <3> QED
      BY <1>0, <1>2, <2>1, <3>1, <3>2, Zenon DEF RobotMove
  <2> QED
    BY <1>0, <1>2, <2>1, <2>2, Zenon DEF OccMove
<1>3. ASSUME NEW p \in Procs
      PROVE  me'[p].pc # "park"
  BY <1>0, <1>1, AskEntered, Zenon DEF Asking
<1>4. ASSUME NEW p \in Procs, me'[p].pc = "create", ~Over(st'[me'[p].leg])
      PROVE  me'[p].leg \in occ'
  <2>1. robot'[me'[p].leg] = "none" /\ me'[p].leg \in Legs
    BY <1>4, RoutedKept, Zenon DEF Sent, Routed, LegSteps
  <2>2. CASE me'[p] = me[p]
    <3>1. st[me[p].leg] # "none"
      BY <1>4, <2>2, Zenon DEF Routed, LegSteps
    <3>2. ~Over(st[me[p].leg])
      BY <1>4, <2>1, <2>2, <3>1, OneWay, Zenon
    <3>3. me[p].leg \in occ
      BY <1>1, <1>4, <2>2, <3>2, Zenon
    <3> QED
      BY <1>0, <1>4, <2>1, <2>2, <3>3, Zenon DEF OccMove
  <2>3. CASE /\ me[p].pc = "handover" /\ me'[p].leg = me[p].leg /\ st[me[p].leg] = "sourcing"
    <3>1. me[p].leg \in occ
      BY <1>1, <2>3, Zenon
    <3> QED
      BY <1>0, <1>4, <2>1, <2>3, <3>1, Zenon DEF OccMove
  <2> QED
    BY <1>0, <1>4, <2>2, <2>3, AskEntered, Zenon DEF Asking
<1>5. ASSUME NEW p \in Procs, me'[p].pc = "handover", st'[me'[p].leg] = "sourcing"
      PROVE  me'[p].leg \in occ'
  <2>1. robot'[me'[p].leg] = "none" /\ me'[p].leg \in Legs
    <3>1. me'[p].leg \in Legs
      BY <1>5, RoutedKept, Zenon DEF Routed, LegSteps
    <3> QED
      BY <1>5, <3>1, Zenon DEF Sent
  <2>2. CASE me'[p] = me[p]
    <3>1. st[me[p].leg] # "pending" /\ st[me[p].leg] # "none"
      BY <1>5, <2>2, Zenon DEF Claimed, Routed, LegSteps
    <3>2. st[me[p].leg] = "sourcing"
      <4>1. StMove(me[p].leg)
        BY <1>0, <2>1, <2>2, Zenon
      <4> QED
        BY <1>1, <1>5, <2>2, <3>1, <4>1, Zenon DEF StMove, EndedMove
    <3>3. me[p].leg \in occ
      BY <1>1, <1>5, <2>2, <3>2, Zenon
    <3> QED
      BY <1>0, <1>5, <2>1, <2>2, <3>3, Zenon DEF OccMove, Over
  <2>3. CASE me[p].pc = "commit" /\ me'[p].leg = me[p].leg /\ me[p].leg \in occ'
    BY <2>3, Zenon
  <2> QED
    BY <1>0, <1>5, <2>2, <2>3, LegEntered, Zenon DEF LegSteps
<1> QED
  BY <1>2, <1>3, <1>4, <1>5, Zenon

-----------------------------------------------------------------------------
(* The demand waits for its legs.                                          *)

\* No call has acted on a later chapter than it listed, and every chapter was begun.
InTime == lapses \cap {"late", "unbegun"} = {}

\* A goroutine that has found no leg left alive and will return the demand to the
\* queue, or complete it.
Returning(m) ==
    \/ m.pc = "requeue"
    \/ m.pc = "parent" /\ m.then = "requeue"
    \/ m.pc = "parent" /\ m.then = "lost" /\ m.rest = {}
Completing(m) == m.pc = "complete" \/ (m.pc = "parent" /\ m.then = "complete")
Requeueing(m) == Returning(m) \/ Completing(m)

\* No leg lives when the demand is in the queue, or when a call that listed this
\* chapter's legs is about to put it there.
Waits ==
    /\ InTime =>
         /\ \A l \in Live : l[1] = chapter
         /\ parent = "queued" /\ ~Beginning => Live = {}
         /\ \A p \in Procs : me[p].pc \in {"lock", "write"} => Live = {}
    /\ \A p \in Procs : Requeueing(me[p]) /\ me[p].chap = chapter => Live = {}

\* A cancelled demand's live legs are in the hands of a call that will cancel them.
Reach ==
    parent = "cancelled" /\ lapses \cap {"unbegun", "cut"} = {} =>
        \/ Live = {}
        \/ \E p \in Procs : me[p].pc \in {"children", "begin"}
        \/ \E p \in Procs : /\ me[p].pc = "cancel" /\ me[p].detail = "other"
                            /\ \A l \in Live : \E v \in BOOLEAN : <<l, v>> \in me[p].rest

\* A step adds to the live legs only by writing a chapter.
LEMMA LiveMoves ==
    ASSUME TypeOK, MeOK, Routed, Chapters, Next
    PROVE  \/ chapter' = chapter /\ Live' \subseteq Live
           \/ /\ chapter' = chapter + 1 /\ parent' = parent
              /\ \A l \in Live' : l \in Live \/ l[1] = chapter + 1
              /\ \E p \in Procs : me[p].pc = "write" /\ me'[p].pc = "begin"
<1>1. CASE chapter' = chapter /\ \A l \in Legs : st[l] = "none" => st'[l] = "none"
  <2>1. ASSUME NEW l \in Live'
        PROVE  l \in Live
    <3>1. l \in Legs /\ st'[l] # "none" /\ ~Over(st'[l])
      BY <2>1, Zenon DEF Live, Children
    <3>2. st[l] # "none"
      BY <1>1, <3>1, Zenon
    <3> QED
      BY <3>1, <3>2, OneWay, Zenon DEF Live, Children
  <2> QED
    BY <1>1, <2>1, Zenon
<1>2. ASSUME chapter' = chapter + 1, parent' = parent, NEW p \in Procs, me[p].pc = "write",
             me'[p].pc = "begin",
             \A l \in Legs : st'[l] = IF <<l, FALSE>> \in me[p].rest THEN "pending" ELSE st[l]
      PROVE  \A l \in Live' : l \in Live \/ l[1] = chapter + 1
  <2>1. ASSUME NEW l \in Live'
        PROVE  l \in Live \/ l[1] = chapter + 1
    <3>1. l \in Legs /\ st'[l] # "none" /\ ~Over(st'[l])
      BY <2>1, Zenon DEF Live, Children
    <3>2. CASE <<l, FALSE>> \in me[p].rest
      BY <1>2, <3>1, <3>2, WrittenFresh, Zenon
    <3>3. CASE <<l, FALSE>> \notin me[p].rest
      BY <1>2, <3>1, <3>3, Zenon DEF Live, Children
    <3> QED
      BY <3>2, <3>3, Zenon
  <2> QED
    BY <2>1, Zenon
<1> QED
  BY <1>1, <1>2, ChapterMoves, Zenon DEF ChapterMove

\* A leg still alive is of the chapter still open.
LEMMA LiveOpen == Live \subseteq Open
BY Zenon DEF Live, Open

\* A verdict that ends the chapter finds no leg alive.
LEMMA VerdictEnds ==
    Verdict \in {"requeue", "complete"} => Open \cap Live = {}
BY Zenon DEF Verdict, DigWasDissolved

\* A call comes to return the demand by listing the legs.
LEMMA RequeueEntered ==
    ASSUME NEW p \in Procs, ProcMove(p), Requeueing(me'[p])
    PROVE  \/ me'[p] = me[p]
           \/ /\ me[p].pc = "end" /\ me'[p].pc = "parent" /\ UNCHANGED family
              /\ me'[p].then = Verdict /\ me'[p].chap = chapter
              /\ me'[p].rest = {<<l, l \in vendor>> : l \in Open \cap Live}
           \/ /\ me[p].pc = "parent" /\ Requeueing(me[p]) /\ me'[p].chap = me[p].chap
              /\ UNCHANGED family /\ me'[p].pc \in {"requeue", "complete"}
              /\ Returning(me'[p]) => Returning(me[p])
              /\ Completing(me'[p]) => Completing(me[p])
BY IdleMem, Zenon DEF Requeueing, Returning, Completing, LegSteps, ProcMove, ForgetMove, CallMove,
                      LegMove, CancelMove, EndMove, PlanMove

\* Leaving BeginReshuffle or a cascade of cancels half done is recorded.
LEMMA CrashCuts ==
    ASSUME Crash, NEW p \in Procs
    PROVE  /\ me[p].pc = "begin" => "unbegun" \in lapses'
           /\ me[p].pc = "children" => "cut" \in lapses'
           /\ me[p].pc = "cancel" /\ me[p].detail = "other" => "cut" \in lapses'
BY Zenon DEF Crash, Beginning, Cascading

\* A chapter that was written is begun, or the lapse is recorded.
LEMMA BeginsInTime ==
    ASSUME TypeOK, MeOK, Routed, Next, parent' = "queued", ~Beginning', "unbegun" \notin lapses'
    PROVE  ~Beginning
<1>0. \A p \in Procs : ProcMove(p)
  BY ProcMoves, Zenon
<1>1. SUFFICES ASSUME NEW p \in Procs, me[p].pc = "begin", me'[p].pc # "begin"
               PROVE  FALSE
  BY Zenon DEF Beginning
<1>2. CASE ForgetMove(p)
  BY <1>1, <1>2, CrashCuts, Zenon DEF ForgetMove
<1>3. CASE CallMove(p)
  BY <1>1, <1>3, Zenon DEF CallMove
<1> QED
  BY <1>0, <1>1, <1>2, <1>3, Zenon DEF ProcMove, LegMove, CancelMove, EndMove, PlanMove

\* The demand in the queue has no leg alive.
LEMMA WaitsKept ==
    ASSUME TypeOK, MeOK, Routed, Chapters, Waits, Next
    PROVE  Waits'
<1>0. \A p \in Procs : ProcMove(p) /\ me[p] \in Mem
  BY ProcMoves, Zenon DEF MeOK
<1>1. ASSUME InTime'
      PROVE  /\ \A l \in Live' : l[1] = chapter'
             /\ parent' = "queued" /\ ~Beginning' => Live' = {}
             /\ \A p \in Procs : me'[p].pc \in {"lock", "write"} => Live' = {}
  <2>1. /\ "late" \notin lapses' /\ "unbegun" \notin lapses' /\ InTime
    BY <1>1, ParentMoves, Zenon DEF InTime, HistoryMove
  <2>2. /\ \A l \in Live : l[1] = chapter
        /\ parent = "queued" /\ ~Beginning => Live = {}
        /\ \A p \in Procs : me[p].pc \in {"lock", "write"} => Live = {}
    BY <2>1, Zenon DEF Waits
  <2>3. \A l \in Live' : l[1] = chapter'
    BY <2>2, LiveMoves, Zenon
  <2>4. ASSUME parent' = "queued", ~Beginning'
        PROVE  Live' = {}
    <3>1. chapter' = chapter /\ Live' \subseteq Live
      BY <2>4, LiveMoves, Zenon DEF Beginning
    <3>2. CASE parent' = parent
      <4>1. ~Beginning
        BY <2>1, <2>4, <3>2, BeginsInTime, Zenon
      <4> QED
        BY <2>2, <2>4, <3>1, <3>2, <4>1, Zenon
    <3>3. ASSUME NEW p \in Procs, me[p].pc \in {"requeue", "complete"},
                 me[p].chap = chapter \/ "late" \in lapses'
          PROVE  Live = {}
      BY <2>1, <3>3, Zenon DEF Waits, Requeueing, Returning, Completing
    <3> QED
      BY <2>4, <3>1, <3>2, <3>3, ParentMoves, Zenon DEF ParentMove
  <2>5. ASSUME NEW p \in Procs, me'[p].pc \in {"lock", "write"}
        PROVE  Live' = {}
    <3>1. Live = {}
      <4>1. ASSUME parent = "queued", \A q \in Procs : me[q].pc \notin PlanSteps
            PROVE  Live = {}
        BY <2>2, <4>1, Zenon DEF Beginning, PlanSteps
      <4> QED
        BY <1>0, <2>2, <2>5, <4>1, IdleMem, Zenon
           DEF ProcMove, ForgetMove, CallMove, LegMove, CancelMove, EndMove, PlanMove
    <3>2. ASSUME NEW q \in Procs, me[q].pc = "write", me'[q].pc = "begin"
          PROVE  FALSE
      <4>1. me'[q].pc \in PlanSteps /\ me'[p].pc \in PlanSteps
        BY <2>5, <3>2, Zenon DEF PlanSteps
      <4>2. p = q
        BY <4>1, ChaptersKept, Zenon DEF Chapters
      <4> QED
        BY <2>5, <3>2, <4>2, Zenon
    <3> QED
      BY <3>1, <3>2, LiveMoves, Zenon
  <2> QED
    BY <2>3, <2>4, <2>5, Zenon
<1>2. ASSUME NEW p \in Procs, Requeueing(me'[p]), me'[p].chap = chapter'
      PROVE  Live' = {}
  <2>1. CASE me'[p] = me[p]
    <3>1. me[p].chap <= chapter /\ chapter \in Nat
      BY Zenon, ChapterGrows DEF Routed
    <3>2. chapter' # chapter + 1
      BY <1>2, <2>1, <3>1
    <3>3. chapter' = chapter /\ Live' \subseteq Live
      BY <3>2, LiveMoves, Zenon
    <3> QED
      BY <1>2, <2>1, <3>3, Zenon DEF Waits
  <2>2. CASE UNCHANGED family /\ Live = {}
    BY <2>2 DEF family, Live, Children
  <2>3. ASSUME me'[p].then = Verdict, me'[p].pc = "parent",
               me'[p].rest = {<<l, l \in vendor>> : l \in Open \cap Live}
        PROVE  Live = {}
    <3>1. me'[p].rest = {} => Open \cap Live = {}
      BY <2>3, Zenon
    <3> QED
      BY <1>2, <2>3, <3>1, VerdictEnds, LiveOpen, Zenon DEF Requeueing, Returning, Completing
  <2>4. ASSUME Requeueing(me[p]), me'[p].chap = me[p].chap, UNCHANGED family
        PROVE  Live = {}
    <3>1. chapter' = chapter
      BY <2>4 DEF family
    <3> QED
      BY <1>2, <2>4, <3>1, Zenon DEF Waits
  <2> QED
    BY <1>0, <1>2, <2>1, <2>2, <2>3, <2>4, RequeueEntered, Zenon
<1> QED
  BY <1>1, <1>2, Zenon DEF Waits

\* A cancelled demand's legs are reached.
LEMMA ReachKept ==
    ASSUME TypeOK, MeOK, Routed, Chapters, Reach, Next
    PROVE  Reach'
<1> SUFFICES ASSUME parent' = "cancelled", lapses' \cap {"unbegun", "cut"} = {}
             PROVE  \/ Live' = {}
                    \/ \E p \in Procs : me'[p].pc \in {"children", "begin"}
                    \/ \E p \in Procs : /\ me'[p].pc = "cancel" /\ me'[p].detail = "other"
                                        /\ \A l \in Live' : \E v \in BOOLEAN : <<l, v>> \in me'[p].rest
  BY Zenon DEF Reach
<1>0. \A p \in Procs : ProcMove(p)
  BY ProcMoves, Zenon
<1>1. "unbegun" \notin lapses' /\ "cut" \notin lapses' /\ lapses \cap {"unbegun", "cut"} = {}
  BY ParentMoves, Zenon DEF HistoryMove
<1>2. CASE parent # "cancelled"
  BY <1>2, ParentMoves, Zenon DEF ParentMove
<1>3. CASE \E p \in Procs : me[p].pc = "write" /\ me'[p].pc = "begin"
  BY <1>3, Zenon
<1>4. CASE parent = "cancelled" /\ Live' \subseteq Live
  <2>1. CASE Live = {}
    BY <1>4, <2>1, Zenon
  <2>2. ASSUME NEW p \in Procs, me[p].pc = "children"
        PROVE  \/ Live' = {}
               \/ me'[p].pc = "children"
               \/ /\ me'[p].pc = "cancel" /\ me'[p].detail = "other"
                  /\ \A l \in Live' : \E v \in BOOLEAN : <<l, v>> \in me'[p].rest
    <3>1. ~Crash
      BY <1>1, <2>2, CrashCuts, Zenon
    <3> QED
      BY <1>0, <1>4, <2>2, <3>1, Zenon
         DEF ProcMove, ForgetMove, CallMove, LegMove, CancelMove, EndMove, PlanMove
  <2>3. ASSUME NEW p \in Procs, me[p].pc = "begin"
        PROVE  me'[p].pc = "begin"
    <3>1. ~Crash
      BY <1>1, <2>3, CrashCuts, Zenon
    <3> QED
      BY <1>0, <1>1, <1>4, <2>3, <3>1, Zenon
         DEF ProcMove, ForgetMove, CallMove, LegMove, CancelMove, EndMove, PlanMove
  <2>4. ASSUME NEW p \in Procs, me[p].pc = "cancel", me[p].detail = "other",
               \A l \in Live : \E v \in BOOLEAN : <<l, v>> \in me[p].rest
        PROVE  \/ Live' = {}
               \/ /\ me'[p].pc = "cancel" /\ me'[p].detail = "other"
                  /\ \A l \in Live' : \E v \in BOOLEAN : <<l, v>> \in me'[p].rest
    <3>1. ~Crash
      BY <1>1, <2>4, CrashCuts, Zenon
    <3>2. CASE me'[p] = me[p]
      BY <1>4, <2>4, <3>2, Zenon
    <3>3. ASSUME NEW c \in me[p].rest, Over(st'[c[1]])
          PROVE  \A l \in Live' : \E v \in BOOLEAN : <<l, v>> \in me[p].rest \ {c}
      <4>1. SUFFICES ASSUME NEW l \in Live'
                     PROVE  \E v \in BOOLEAN : <<l, v>> \in me[p].rest \ {c}
        BY Zenon
      <4>2. PICK v \in BOOLEAN : <<l, v>> \in me[p].rest
        BY <1>4, <2>4, <4>1, Zenon
      <4>3. <<l, v>>[1] = l
        OBVIOUS
      <4>4. ~Over(st'[l])
        BY <4>1, Zenon DEF Live
      <4>5. <<l, v>> # c
        BY <3>3, <4>3, <4>4, Zenon
      <4> QED
        BY <4>2, <4>5, Zenon
    <3>4. ASSUME NEW c \in me[p].rest, Over(st'[c[1]]), me[p].rest = {c}
          PROVE  Live' = {}
      BY <3>3, <3>4, Zenon
    <3>5. ASSUME NEW c \in me[p].rest, Over(st'[c[1]]), me'[p].rest = me[p].rest \ {c}
          PROVE  \A l \in Live' : \E v \in BOOLEAN : <<l, v>> \in me'[p].rest
      BY <3>3, <3>5, Zenon
    <3>6. CASE ForgetMove(p)
      BY <2>4, <3>1, <3>4, <3>6, Zenon DEF ForgetMove
    <3>7. CASE CancelMove(p)
      BY <2>4, <3>4, <3>5, <3>7, Zenon DEF CancelMove
    <3> QED
      BY <1>0, <2>4, <3>2, <3>6, <3>7, Zenon DEF ProcMove, CallMove, LegMove, EndMove, PlanMove
  <2> QED
    BY <1>1, <1>4, <2>1, <2>2, <2>3, <2>4, Zenon DEF Reach
<1> QED
  BY <1>2, <1>3, <1>4, LiveMoves, Zenon

-----------------------------------------------------------------------------
(* The demand is served, and once.                                         *)

\* A leg's error detail is written with its end.
Detailed ==
    \A l \in Legs : /\ ~Over(st[l]) => why[l] = "none"
                    /\ st[l] = "cancelled" => why[l] \in Reasons

\* Calls are about chapters there are.
Asked ==
    /\ wakes > 0 \/ failed # {} => chapter > 0
    /\ \A p \in Procs : me[p].pc \notin {"idle", "lock", "write", "children", "unlock"} => chapter > 0

\* Every chapter of a plain retrieve plans the wanted bin, and the parent is
\* completed only after that leg was.
Serve ==
    kind = "plain" =>
       /\ chapter > 0 => st[<<chapter, Target>>] # "none"
       /\ \A p \in Procs : me[p].pc \in {"lock", "write"} => <<<<chapter + 1, Target>>, FALSE>> \in me[p].rest
       /\ \A p \in Procs : Completing(me[p]) => Served
       /\ parent = "confirmed" => Served

\* A plain retrieve whose bin has come is not on its way back to the queue.
Once ==
    kind = "plain" /\ InTime /\ ~StoppedAlone =>
       /\ \A l \in Legs : BinOf(l) = Target /\ st[l] = "confirmed" => l[1] = chapter
       /\ parent = "queued" /\ ~Beginning => ~Served
       /\ \A p \in Procs : me[p].pc \in {"lock", "write"} => ~Served
       /\ \A p \in Procs : Returning(me[p]) /\ me[p].chap = chapter => ~Served

\* The error details stay right.
LEMMA DetailedKept ==
    ASSUME TypeOK, MeOK, Routed, Chapters, Detailed, Next
    PROVE  Detailed'
<1>1. SUFFICES ASSUME NEW l \in Legs
               PROVE  /\ ~Over(st'[l]) => why'[l] = "none"
                      /\ st'[l] = "cancelled" => why'[l] \in Reasons
  BY Zenon DEF Detailed
<1>2. StMove(l)
  BY StMoves, Zenon
<1>3. CASE st'[l] = st[l] /\ why'[l] = why[l]
  BY <1>3, Zenon DEF Detailed
<1>4. CASE EndedMove(l)
  BY <1>4, Zenon DEF EndedMove, Over
<1>5. ASSUME why'[l] = why[l], ~Over(st[l]), ~Over(st'[l])
      PROVE  /\ ~Over(st'[l]) => why'[l] = "none"
             /\ st'[l] = "cancelled" => why'[l] \in Reasons
  BY <1>5, Zenon DEF Detailed, Over
<1>6. ASSUME NEW p \in Procs, me[p].pc = "write", <<l, FALSE>> \in me[p].rest
      PROVE  ~Over(st[l])
  BY <1>6, WrittenFresh, Zenon DEF Over
<1>7. l \in Live => ~Over(st[l])
  BY Zenon DEF Live
<1>8. ~Over("pending") /\ ~Over("sourcing") /\ ~Over("dispatched") /\ ~Over("delivered")
  BY Zenon DEF Over
<1> QED
  BY <1>2, <1>3, <1>4, <1>5, <1>6, <1>7, <1>8, Zenon DEF StMove

\* A leg that has been written belongs to a chapter that has.
LEMMA ChildrenChapter ==
    ASSUME TypeOK, Chapters
    PROVE  /\ \A l \in Children : l[1] <= chapter
           /\ Children # {} => chapter > 0
<1>1. \A l \in Children : l \in Legs /\ ~(l[1] > chapter)
  BY Zenon DEF Chapters, Children
<1> QED
  BY <1>1, LegParts DEF TypeOK

\* Calls stay about chapters there are.
LEMMA AskedKept ==
    ASSUME TypeOK, MeOK, Routed, Chapters, Asked, Next
    PROVE  Asked'
<1>0. chapter > 0 => chapter' > 0
  BY ChapterGrows
<1>1. Children # {} => chapter > 0
  BY ChildrenChapter, Zenon
<1>2. ASSUME wakes' > 0 \/ failed' # {}
      PROVE  chapter' > 0
  BY <1>0, <1>1, <1>2, QueueMoves, Zenon DEF QueueMove, Asked
<1>3. ASSUME NEW p \in Procs, me'[p].pc \notin {"idle", "lock", "write", "children", "unlock"}
      PROVE  chapter' > 0
  <2>1. ProcMove(p)
    BY ProcMoves, Zenon
  <2>2. Live # {} => Children # {}
    BY Zenon DEF Live
  <2>3. CASE chapter' = chapter + 1
    BY <2>3, ChapterGrows
  <2>4. CASE \/ me[p].pc \notin {"idle", "lock", "write", "children", "unlock"}
             \/ wakes > 0 \/ Live # {} \/ Children # {}
    BY <1>0, <1>1, <2>2, <2>4, Zenon DEF Asked
  <2> QED
    BY <1>3, <2>1, <2>3, <2>4, IdleMem, Zenon
       DEF ProcMove, ForgetMove, CallMove, LegMove, CancelMove, EndMove, PlanMove
<1> QED
  BY <1>2, <1>3, Zenon DEF Asked

\* A delivery is not taken back.
LEMMA ServedKept ==
    ASSUME TypeOK, MeOK, Routed, Chapters, Next, Served
    PROVE  Served'
<1>1. PICK l \in Legs : BinOf(l) = Target /\ st[l] = "confirmed"
  BY Zenon DEF Served
<1>2. st'[l] = "confirmed"
  BY <1>1, OneWay, Zenon DEF Over
<1> QED
  BY <1>1, <1>2, Zenon DEF Served

\* The wanted bin's leg of the last chapter, and that nothing comes after it.
LEMMA LastLeg ==
    ASSUME TypeOK, Chapters, chapter > 0
    PROVE  /\ <<chapter, Target>> \in Legs /\ BinOf(<<chapter, Target>>) = Target
           /\ \A l \in Children : Before(l, <<chapter, Target>>)
           /\ \A l \in Children : Before(<<chapter, Target>>, l) => l = <<chapter, Target>>
           /\ \A l \in Legs : BinOf(l) = Target /\ l[1] = chapter => l = <<chapter, Target>>
<1>1. \A l \in Children : l \in Legs /\ l[1] <= chapter
  BY ChildrenChapter, Zenon DEF Children
<1>2. <<chapter, Target>> \in Legs /\ BinOf(<<chapter, Target>>) = Target
  BY DigAssumption DEF TypeOK, Legs, Bins, BinOf
<1>3. \A l \in Legs : l = <<l[1], l[2]>> /\ l[1] \in Nat /\ l[2] \in 1 .. Target
  BY DigAssumption DEF Legs, Bins
<1>4. \A l \in Legs : BinOf(l) = Target /\ l[1] = chapter => l = <<chapter, Target>>
  BY <1>3, Zenon DEF BinOf
<1>5. ASSUME NEW l \in Children
      PROVE  /\ Before(l, <<chapter, Target>>)
             /\ Before(<<chapter, Target>>, l) => l = <<chapter, Target>>
  <2>1. l[1] \in Nat /\ l[2] \in 1 .. Target /\ l[1] <= chapter /\ l \in Legs
    BY <1>1, <1>3, Zenon
  <2>2. <<chapter, Target>>[1] = chapter /\ <<chapter, Target>>[2] = Target
    OBVIOUS
  <2>3. Before(l, <<chapter, Target>>)
    BY <2>1, <2>2, DigAssumption DEF Before, TypeOK
  <2>4. Before(<<chapter, Target>>, l) => l[1] = chapter /\ l[2] = Target
    BY <2>1, <2>2, DigAssumption DEF Before, TypeOK
  <2> QED
    BY <1>4, <2>1, <2>3, <2>4, Zenon DEF BinOf
<1> QED
  BY <1>2, <1>4, <1>5, Zenon

\* compoundGenerations and the verdict: legs that all ended well include the wanted bin's.
LEMMA CompleteServes ==
    ASSUME TypeOK, Chapters, chapter > 0, st[<<chapter, Target>>] # "none", Verdict = "complete"
    PROVE  Served
<1> DEFINE t == <<chapter, Target>>
<1>1. /\ t \in Legs /\ BinOf(t) = Target /\ \A l \in Children : Before(l, t)
      /\ \A l \in Children : Before(t, l) => l = t
  BY LastLeg, Zenon
<1>2. t \in Children
  BY <1>1, Zenon DEF Children
<1> HIDE DEF t
<1>3. ~LostALeg /\ ~DigWasDissolved /\ Open \cap Live = {}
  BY Zenon DEF Verdict
<1>4. CASE t \in Open
  <2>1. st[t] \notin {"failed", "cancelled"} /\ t \notin Live
    BY <1>3, <1>4, Zenon DEF LostALeg
  <2>2. st[t] = "confirmed"
    BY <1>2, <2>1, Zenon DEF Live, Over
  <2> QED
    BY <1>1, <2>2, Zenon DEF Served
<1>5. CASE t \notin Open
  <2>1. PICK k \in Children : EndsItsChapter(k) /\ Before(t, k)
    BY <1>2, <1>5, Zenon DEF Open
  <2>2. EndsItsChapter(t)
    BY <1>1, <2>1, Zenon
  <2>3. PICK l \in Open : TRUE
    BY <1>2, <1>3, <2>2, Zenon DEF DigWasDissolved
  <2>4. l \in Children /\ ~Over(st[l])
    BY <1>1, <1>2, <2>2, Zenon DEF Open
  <2> QED
    BY <1>3, <2>3, <2>4, Zenon DEF Live
<1> QED
  BY <1>4, <1>5, Zenon

\* A lost leg that is no chapter's end was stopped by the fleet or by a cancel.
LEMMA LostStopped ==
    ASSUME TypeOK, Detailed, Verdict = "lost"
    PROVE  StoppedAlone
<1>1. ~ConfigFailed /\ LostALeg
  BY Zenon DEF Verdict
<1>2. PICK l \in Open : st[l] \in {"failed", "cancelled"}
  BY <1>1, Zenon DEF LostALeg
<1>3. l \in Children /\ l \in Legs /\ Over(st[l])
  BY <1>2, Zenon DEF Open, Children, Over
<1>4. Before(l, l)
  BY <1>3, LegParts, DigAssumption DEF Before, Bins
<1>5. ~EndsItsChapter(l)
  BY <1>2, <1>3, <1>4, Zenon DEF Open
<1>6. st[l] = "cancelled"
  BY <1>1, <1>2, <1>5, Zenon DEF EndsItsChapter, ConfigFailed
<1>7. why[l] = "other"
  BY <1>3, <1>5, <1>6, Zenon DEF EndsItsChapter, Detailed, Reasons
<1> QED
  BY <1>3, <1>7, Zenon DEF StoppedAlone

\* A dissolved chapter has not brought the bin.
LEMMA DissolvedUnserved ==
    ASSUME TypeOK, Chapters, chapter > 0, Verdict = "requeue",
           \A l \in Legs : BinOf(l) = Target /\ st[l] = "confirmed" => l[1] = chapter
    PROVE  ~Served
<1> SUFFICES ASSUME Served
             PROVE  FALSE
  BY Zenon
<1>1. PICK l \in Legs : BinOf(l) = Target /\ st[l] = "confirmed"
  BY Zenon DEF Served
<1> DEFINE t == <<chapter, Target>>
<1>2. l = t /\ \A k \in Children : Before(t, k) => k = t
  BY <1>1, LastLeg, Zenon
<1>3. t \in Children /\ st[t] = "confirmed"
  BY <1>1, <1>2, Zenon DEF Children
<1> HIDE DEF t
<1>4. Open = {}
  BY Zenon DEF Verdict, DigWasDissolved
<1>5. EndsItsChapter(t)
  BY <1>2, <1>3, <1>4, Zenon DEF Open
<1> QED
  BY <1>3, <1>5, Zenon DEF EndsItsChapter

\* A plain retrieve is completed only when it was served.
LEMMA ServeKept ==
    ASSUME TypeOK, MeOK, Routed, Chapters, Asked, Serve, Next
    PROVE  Serve'
<1> SUFFICES ASSUME kind = "plain"
             PROVE  /\ chapter' > 0 => st'[<<chapter', Target>>] # "none"
                    /\ \A p \in Procs : me'[p].pc \in {"lock", "write"} =>
                          <<<<chapter' + 1, Target>>, FALSE>> \in me'[p].rest
                    /\ \A p \in Procs : Completing(me'[p]) => Served'
                    /\ parent' = "confirmed" => Served'
  BY KindKept, Zenon DEF Serve
<1>0. /\ chapter > 0 => st[<<chapter, Target>>] # "none"
      /\ \A p \in Procs : me[p].pc \in {"lock", "write"} => <<<<chapter + 1, Target>>, FALSE>> \in me[p].rest
      /\ \A p \in Procs : Completing(me[p]) => Served
      /\ parent = "confirmed" => Served
  BY Zenon DEF Serve
<1>1. ASSUME chapter' > 0
      PROVE  st'[<<chapter', Target>>] # "none"
  <2>0. <<chapter', Target>> \in Legs
    <3>1. TypeOK'
      BY TypeKept, Zenon
    <3> QED
      BY <1>1, <3>1, DigAssumption DEF TypeOK, Legs, Bins
  <2>1. CASE chapter' = chapter
    BY <1>0, <1>1, <2>0, <2>1, Written, Zenon
  <2>2. ASSUME chapter' = chapter + 1, NEW p \in Procs, me[p].pc = "write",
               \A l \in Legs : st'[l] = IF <<l, FALSE>> \in me[p].rest THEN "pending" ELSE st[l]
        PROVE  st'[<<chapter', Target>>] # "none"
    BY <1>0, <2>0, <2>2, Zenon
  <2> QED
    BY <2>1, <2>2, ChapterMoves, Zenon DEF ChapterMove
<1>2. ASSUME NEW p \in Procs, me'[p].pc \in {"lock", "write"}
      PROVE  <<<<chapter' + 1, Target>>, FALSE>> \in me'[p].rest
  <2>0. ProcMove(p)
    BY ProcMoves, Zenon
  <2>1. chapter' = chapter
    <3>1. ASSUME NEW q \in Procs, me[q].pc = "write", me'[q].pc = "begin"
          PROVE  FALSE
      <4>1. me'[q].pc \in PlanSteps /\ me'[p].pc \in PlanSteps
        BY <1>2, <3>1, Zenon DEF PlanSteps
      <4>2. p = q
        BY <4>1, ChaptersKept, Zenon DEF Chapters
      <4> QED
        BY <1>2, <3>1, <4>2, Zenon
    <3> QED
      BY <3>1, ChapterMoves, Zenon DEF ChapterMove
  <2>2. CASE me[p].pc \in {"lock", "write"} /\ me'[p].rest = me[p].rest
    BY <1>0, <2>1, <2>2, Zenon
  <2>3. CASE me'[p].rest = Planned \X {FALSE} /\ chapter < MaxChapters /\ at[Target] = "lane"
    <3>1. /\ <<chapter + 1, Target>> \in Legs /\ <<chapter + 1, Target>>[1] = chapter + 1
          /\ <<chapter + 1, Target>>[2] = Target
      BY <2>3, DigAssumption DEF TypeOK, Legs, Bins
    <3>2. <<chapter + 1, Target>> \in Planned
      BY <2>3, <3>1, Zenon DEF Planned, BinOf
    <3> QED
      BY <2>1, <2>3, <3>2
  <2> QED
    BY <1>2, <2>0, <2>2, <2>3, IdleMem, Zenon
       DEF ProcMove, ForgetMove, CallMove, LegMove, CancelMove, EndMove, PlanMove
<1>3. ASSUME NEW p \in Procs, Completing(me'[p])
      PROVE  Served'
  <2>0. ProcMove(p)
    BY ProcMoves, Zenon
  <2>1. CASE Completing(me[p])
    BY <1>0, <2>1, ServedKept, Zenon
  <2>2. CASE me[p].pc = "end" /\ Verdict = "complete"
    <3>1. chapter > 0
      BY <2>2, Zenon DEF Asked
    <3> QED
      BY <1>0, <2>2, <3>1, CompleteServes, ServedKept, Zenon
  <2> QED
    BY <1>3, <2>0, <2>1, <2>2, RequeueEntered, Zenon DEF Requeueing, Completing
<1>4. ASSUME parent' = "confirmed"
      PROVE  Served'
  <2>1. CASE parent = "confirmed"
    BY <1>0, <2>1, ServedKept, Zenon
  <2>2. ASSUME NEW p \in Procs, me[p].pc = "complete"
        PROVE  Served'
    BY <1>0, <2>2, ServedKept, Zenon DEF Completing
  <2> QED
    BY <1>4, <2>1, <2>2, ParentMoves, Zenon DEF ParentMove
<1> QED
  BY <1>1, <1>2, <1>3, <1>4, Zenon

\* A plain retrieve that has been served is not planned again.
LEMMA OnceKept ==
    ASSUME TypeOK, MeOK, Routed, Chapters, Waits, Detailed, Asked, Once, Next
    PROVE  Once'
<1> SUFFICES ASSUME kind = "plain", InTime', ~StoppedAlone'
             PROVE  /\ \A l \in Legs : BinOf(l) = Target /\ st'[l] = "confirmed" => l[1] = chapter'
                    /\ parent' = "queued" /\ ~Beginning' => ~Served'
                    /\ \A p \in Procs : me'[p].pc \in {"lock", "write"} => ~Served'
                    /\ \A p \in Procs : Returning(me'[p]) /\ me'[p].chap = chapter' => ~Served'
  BY KindKept, Zenon DEF Once
<1>0. \A p \in Procs : ProcMove(p)
  BY ProcMoves, Zenon
<1>1. "late" \notin lapses' /\ "unbegun" \notin lapses' /\ InTime
  BY ParentMoves, Zenon DEF InTime, HistoryMove
<1>2. ~StoppedAlone
  <2>1. ASSUME NEW l \in Legs, why[l] = "other"
        PROVE  FALSE
    <3>1. Over(st[l])
      BY <2>1, Zenon DEF Detailed
    <3>2. why'[l] = "other"
      BY <2>1, <3>1, OneWay, Zenon DEF Over
    <3> QED
      BY <3>2, Zenon DEF StoppedAlone
  <2> QED
    BY <2>1, Zenon DEF StoppedAlone
<1>3. /\ \A l \in Legs : BinOf(l) = Target /\ st[l] = "confirmed" => l[1] = chapter
      /\ parent = "queued" /\ ~Beginning => ~Served
      /\ \A p \in Procs : me[p].pc \in {"lock", "write"} => ~Served
      /\ \A p \in Procs : Returning(me[p]) /\ me[p].chap = chapter => ~Served
  BY <1>1, <1>2, Zenon DEF Once
<1>4. ASSUME NEW l \in Legs, st'[l] = "confirmed"
      PROVE  st[l] = "confirmed" \/ l \in Live
  <2>1. StMove(l)
    BY StMoves, Zenon
  <2> QED
    BY <1>4, <2>1, Zenon DEF StMove, EndedMove
<1>5. Live = {} /\ ~Served => ~Served'
  BY <1>4, Zenon DEF Served
<1>6. /\ \A l \in Live : l[1] = chapter
      /\ parent = "queued" /\ ~Beginning => Live = {}
      /\ \A p \in Procs : me[p].pc \in {"lock", "write"} => Live = {}
      /\ \A p \in Procs : Requeueing(me[p]) /\ me[p].chap = chapter => Live = {}
  BY <1>1, Zenon DEF Waits
<1>7. ASSUME NEW l \in Legs, BinOf(l) = Target, st'[l] = "confirmed"
      PROVE  l[1] = chapter'
  <2>1. CASE chapter' = chapter
    BY <1>3, <1>4, <1>6, <1>7, <2>1, Zenon
  <2>2. ASSUME NEW p \in Procs, me[p].pc = "write"
        PROVE  FALSE
    BY <1>3, <1>4, <1>6, <1>7, <2>2, Zenon DEF Served
  <2> QED
    BY <2>1, <2>2, ChapterMoves, Zenon DEF ChapterMove
<1>8. ASSUME parent' = "queued", ~Beginning'
      PROVE  ~Served'
  <2>1. CASE parent' = parent
    <3>1. ~Beginning
      BY <1>1, <1>8, BeginsInTime, Zenon
    <3> QED
      BY <1>3, <1>5, <1>6, <1>8, <2>1, <3>1, Zenon
  <2>2. ASSUME NEW p \in Procs, me[p].pc = "requeue", me[p].chap = chapter
        PROVE  ~Served'
    BY <1>3, <1>5, <1>6, <2>2, Zenon DEF Requeueing, Returning
  <2> QED
    BY <1>1, <1>8, <2>1, <2>2, ParentMoves, Zenon DEF ParentMove
<1>9. ASSUME NEW p \in Procs, me'[p].pc \in {"lock", "write"}
      PROVE  ~Served'
  <2>1. CASE me[p].pc \in {"lock", "write"}
    BY <1>3, <1>5, <1>6, <2>1, Zenon
  <2>2. ASSUME parent = "queued", \A q \in Procs : me[q].pc \notin PlanSteps
        PROVE  ~Served'
    BY <1>3, <1>5, <1>6, <2>2, Zenon DEF Beginning, PlanSteps
  <2> QED
    BY <1>0, <1>9, <2>1, <2>2, IdleMem, Zenon
       DEF ProcMove, ForgetMove, CallMove, LegMove, CancelMove, EndMove, PlanMove
<1>10. ASSUME NEW p \in Procs, Returning(me'[p]), me'[p].chap = chapter'
       PROVE  ~Served'
  <2>0. Requeueing(me'[p])
    BY <1>10, Zenon DEF Requeueing
  <2>1. ASSUME Returning(me[p]), me[p].chap = chapter
        PROVE  ~Served'
    BY <1>3, <1>5, <1>6, <2>1, Zenon DEF Requeueing
  <2>2. CASE me'[p] = me[p]
    <3>1. me[p].chap <= chapter /\ chapter \in Nat
      BY Zenon, ChapterGrows DEF Routed
    <3>2. chapter' # chapter + 1
      BY <1>10, <2>2, <3>1
    <3>3. chapter' = chapter
      BY <3>2, ChapterMoves, Zenon DEF ChapterMove
    <3> QED
      BY <1>10, <2>1, <2>2, <3>3, Zenon
  <2>3. ASSUME me[p].pc = "end", me'[p].pc = "parent", UNCHANGED family, me'[p].then = Verdict
        PROVE  ~Served'
    <3>1. chapter > 0
      BY <2>3, Zenon DEF Asked
    <3>2. Verdict # "lost"
      BY <1>2, LostStopped, Zenon
    <3>3. Verdict = "requeue"
      BY <1>10, <2>3, <3>2, Zenon DEF Returning
    <3>4. ~Served
      BY <1>3, <3>1, <3>3, DissolvedUnserved, Zenon
    <3>5. st' = st
      BY <2>3 DEF family
    <3> QED
      BY <3>4, <3>5, Zenon DEF Served
  <2>4. ASSUME me'[p].chap = me[p].chap, UNCHANGED family, Returning(me[p])
        PROVE  ~Served'
    <3>1. chapter' = chapter
      BY <2>4 DEF family
    <3> QED
      BY <1>10, <2>1, <2>4, <3>1, Zenon
  <2> QED
    BY <1>0, <1>10, <2>0, <2>2, <2>3, <2>4, RequeueEntered, Zenon
<1> QED
  BY <1>7, <1>8, <1>9, <1>10, Zenon

-----------------------------------------------------------------------------
(* One robot in the lane.                                                  *)

\* Rows are given back by their owner only, and legs are written for bins that
\* stand where the plan saw them.
Orderly == InTime /\ lapses \cap {"givenback", "gone"} = {}

\* A robot that will not be in the lane again for its leg.
Out == {"away", "stopped", "done"}

\* Every leg for a bin in front is out of the lane.
Cleared(k) == \A l \in Live : BinOf(l) < BinOf(k) => robot[l] \in Out

\* The steps from admit's yes to the create.
Sending == {"reread", "take", "claim", "commit", "handover", "create"}

\* A leg that is being sent, or whose robot is in the lane, has nobody before it.
File ==
    /\ \A l \in Live : BinOf(l) \notin foreign
    /\ Orderly =>
         /\ \A l \in Live : robot[l] \notin Out \cup {"dwell"} => at[BinOf(l)] = "lane"
         /\ \A p \in Procs : me[p].pc \in Sending /\ me[p].leg \in Live => Cleared(me[p].leg)
         /\ \A k \in Live : InLane(k) => Cleared(k)

\* How a bin's row moves.
AtMove(b) ==
    \/ at'[b] = at[b] \/ at'[b] = "lane" \/ b \in foreign
    \/ \E k \in Live : BinOf(k) = b /\ robot'[k] \in {"dwell", "away", "done"}

\* A bin leaves the lane on the robot of its leg, or with the order that claims it.
LEMMA BinMoves ==
    ASSUME TypeOK, Next
    PROVE  /\ \A b \in Bins : AtMove(b)
           /\ \A b \in foreign' : b \in foreign \/ \A l \in Live : BinOf(l) # b
<1>0. at \in [Bins -> {"lane", "robot", "out"}] /\ robot \in [Legs -> Missions]
  BY Zenon DEF TypeOK, Missions
<1>1. CASE UNCHANGED <<at, foreign>>
  BY <1>1, Zenon DEF AtMove
<1>2. ASSUME NEW k \in Legs, PickUp(k) \/ Deliver(k)
      PROVE  (\A b \in Bins : AtMove(b)) /\ foreign' = foreign
  <2>1. PICK to \in {"dwell", "away", "done"}, place \in {"robot", "out"} :
           /\ robot' = [robot EXCEPT ![k] = to]
           /\ at' = [at EXCEPT ![BinOf(k)] = place]
    <3>1. CASE PickUp(k)
      BY <3>1, Zenon DEF PickUp
    <3>2. CASE Deliver(k)
      BY <3>2, Zenon DEF Deliver
    <3> QED
      BY <1>2, <3>1, <3>2, Zenon
  <2>2. k \in Live /\ foreign' = foreign
    BY <1>2, Zenon DEF PickUp, Deliver
  <2>3. robot'[k] = to /\ \A b \in Bins : b # BinOf(k) => at'[b] = at[b]
    BY <1>0, <2>1, Zenon
  <2> QED
    BY <2>2, <2>3, Zenon DEF AtMove
<1>3. ASSUME NEW b \in Bins, Intrude(b)
      PROVE  /\ \A c \in Bins : AtMove(c)
             /\ \A c \in foreign' : c \in foreign \/ \A l \in Live : BinOf(l) # c
  <2>1. /\ at' = [at EXCEPT ![b] = "lane"] /\ foreign' \in {foreign, foreign \cup {b}}
        /\ \A l \in Live : BinOf(l) # b
    BY <1>3, Zenon DEF Intrude
  <2> QED
    BY <1>0, <2>1, Zenon DEF AtMove
<1>4. ASSUME NEW b \in Bins, ForeignTakes(b)
      PROVE  (\A c \in Bins : AtMove(c)) /\ foreign' \subseteq foreign
  <2>1. b \in foreign /\ at' = [at EXCEPT ![b] = "out"] /\ foreign' = foreign \ {b}
    BY <1>4, Zenon DEF ForeignTakes
  <2> QED
    BY <1>0, <2>1, Zenon DEF AtMove
<1>5. ASSUME NEW l \in Legs, \/ ReleaseDwellingDigLeg(l) \/ Confirm(l) \/ FailLeg(l)
                            \/ StopLeg(l) \/ EndUnheard(l) \/ Misconfigure(l)
      PROVE  UNCHANGED <<at, foreign>>
  BY <1>5, Zenon DEF ReleaseDwellingDigLeg, Confirm, FailLeg, StopLeg, EndUnheard, Misconfigure
<1>6. CASE RivalDig \/ RivalDone \/ ReapOrphaned
  BY <1>1, <1>6, Zenon DEF RivalDig, RivalDone, ReapOrphaned
<1> QED
  BY <1>1, <1>2, <1>3, <1>4, <1>5, <1>6, FloorRest, Zenon DEF FloorStep

\* A leg is written for a bin nobody claims, in the lane unless that is recorded.
LEMMA LegWritten ==
    ASSUME TypeOK, MeOK, Routed, Chapters, Next, NEW l \in Live', l \notin Live
    PROVE  /\ st[l] = "none" /\ BinOf(l) \notin foreign
           /\ at[BinOf(l)] = "lane" \/ "gone" \in lapses'
           /\ \E p \in Procs : me[p].pc = "write"
           /\ UNCHANGED <<at, foreign, robot>>
<1>0. l \in Legs /\ st'[l] # "none" /\ ~Over(st'[l])
  BY Zenon DEF Live, Children
<1>1. st'[l] # st[l]
  BY <1>0, Zenon DEF Live, Children
<1>2. PICK p \in Procs : WriteCompoundChildren(p)
  <2>1. CASE ~ \E p \in Procs : WriteCompoundChildren(p)
    <3>1. chapter' = chapter
      BY <2>1, ChapterRest, Zenon
    <3>2. chapter' # chapter + 1
      BY <3>1 DEF TypeOK
    <3> QED
      BY <3>2, LiveMoves, Zenon
  <2> QED
    BY <2>1, Zenon
<1>3. ~ \E c \in me[p].rest : BinOf(c[1]) \in foreign
  BY <1>1, <1>2, Zenon DEF WriteCompoundChildren
<1>4. st' = [k \in Legs |-> IF <<k, FALSE>> \in me[p].rest THEN "pending" ELSE st[k]]
  BY <1>2, <1>3, Zenon DEF WriteCompoundChildren
<1>5. <<l, FALSE>> \in me[p].rest /\ <<l, FALSE>>[1] = l
  BY <1>0, <1>1, <1>4, Zenon
<1>6. at[BinOf(l)] = "lane" \/ "gone" \in lapses'
  BY <1>2, <1>3, <1>5, Zenon DEF WriteCompoundChildren
<1>7. me[p].pc = "write" /\ UNCHANGED <<at, foreign, robot>>
  BY <1>2, Zenon DEF WriteCompoundChildren
<1>8. st[l] = "none"
  BY <1>0, <1>5, <1>7, WrittenFresh, Zenon
<1> QED
  BY <1>3, <1>5, <1>6, <1>7, <1>8, Zenon

\* A call sends the leg that admit let through.
LEMMA SendEntered ==
    ASSUME NEW p \in Procs, ProcMove(p), me'[p].pc \in Sending
    PROVE  \/ me'[p] = me[p]
           \/ me[p].pc \in Sending /\ me'[p].leg = me[p].leg
           \/ me[p].pc = "admit" /\ me'[p].leg = me[p].leg /\ Admitted(me[p].leg)
BY IdleMem, Zenon DEF Sending, ProcMove, ForgetMove, CallMove, LegMove, CancelMove, EndMove, PlanMove

\* A chapter has one leg for a bin.
LEMMA LegOfBin ==
    ASSUME Waits, InTime, NEW l \in Live, NEW k \in Live, BinOf(l) = BinOf(k)
    PROVE  l = k
<1>1. l \in Legs /\ k \in Legs /\ l[1] = k[1]
  BY Zenon DEF Waits, Live, Children
<1> QED
  BY <1>1 DEF Legs, BinOf

\* The legs stay in single file.
LEMMA FileKept ==
    ASSUME TypeOK, MeOK, Routed, Chapters, Sent, Inside, Waits, File, Next
    PROVE  File'
<1>0. /\ \A p \in Procs : ProcMove(p)
      /\ \A l \in Legs : RobotMove(l)
  BY ProcMoves, RobotMoves, Zenon
<1>1. ASSUME NEW l \in Live'
      PROVE  BinOf(l) \notin foreign'
  <2>1. CASE l \in Live
    BY <2>1, BinMoves, Zenon DEF File
  <2>2. CASE l \notin Live
    BY <2>2, LegWritten, Zenon
  <2> QED
    BY <2>1, <2>2, Zenon
<1>2. ASSUME Orderly'
      PROVE  /\ \A l \in Live' : robot'[l] \notin Out \cup {"dwell"} => at'[BinOf(l)] = "lane"
             /\ \A p \in Procs : me'[p].pc \in Sending /\ me'[p].leg \in Live' => Cleared(me[p].leg)'
             /\ \A k \in Live' : InLane(k)' => Cleared(k)'
  <2>1. Orderly /\ InTime /\ "givenback" \notin lapses /\ "gone" \notin lapses'
    <3>1. lapses \subseteq lapses'
      BY ParentMoves, Zenon DEF HistoryMove
    <3> QED
      BY <1>2, <3>1 DEF Orderly, InTime
  <2>2. /\ \A l \in Live : robot[l] \notin Out \cup {"dwell"} => at[BinOf(l)] = "lane"
        /\ \A p \in Procs : me[p].pc \in Sending /\ me[p].leg \in Live => Cleared(me[p].leg)
        /\ \A k \in Live : InLane(k) => Cleared(k)
        /\ \A l \in Live : BinOf(l) \notin foreign
    BY <2>1, Zenon DEF File
  <2>3. ASSUME NEW l \in Legs
        PROVE  /\ robot[l] \in Out => robot'[l] \in Out
               /\ robot[l] = "dwell" => robot'[l] \in Out \cup {"dwell"}
    BY <1>0, Zenon DEF RobotMove, Sent, Out
  <2>4. ASSUME NEW l \in Live', robot'[l] \notin Out \cup {"dwell"}
        PROVE  at'[BinOf(l)] = "lane"
    <3>1. CASE l \in Live
      <4>1. l \in Legs /\ BinOf(l) \in Bins
        BY <3>1, LegParts, Zenon DEF Live, Children, BinOf
      <4>2. at[BinOf(l)] = "lane"
        BY <2>2, <2>3, <2>4, <3>1, <4>1, Zenon
      <4>3. ASSUME NEW k \in Live, BinOf(k) = BinOf(l), robot'[k] \in {"dwell", "away", "done"}
            PROVE  FALSE
        <5>1. k = l
          BY <2>1, <3>1, <4>3, LegOfBin, Zenon
        <5> QED
          BY <2>4, <4>3, <5>1, Zenon DEF Out
      <4>4. AtMove(BinOf(l))
        BY <4>1, BinMoves, Zenon
      <4> QED
        BY <2>2, <3>1, <4>2, <4>3, <4>4, Zenon DEF AtMove
    <3>2. CASE l \notin Live
      BY <2>1, <3>2, LegWritten, Zenon
    <3> QED
      BY <3>1, <3>2, Zenon
  <2>5. ASSUME NEW k \in Live, Cleared(k)
        PROVE  Cleared(k)'
    <3>1. SUFFICES ASSUME NEW l \in Live', BinOf(l) < BinOf(k)
                   PROVE  robot'[l] \in Out
      BY Zenon DEF Cleared
    <3>2. l \in Live
      <4>1. ASSUME NEW q \in Procs, me[q].pc = "write"
            PROVE  FALSE
        BY <2>1, <4>1, Zenon DEF Waits
      <4> QED
        BY <4>1, LegWritten, Zenon
    <3>3. l \in Legs /\ robot[l] \in Out
      BY <2>5, <3>1, <3>2, Zenon DEF Cleared, Live, Children
    <3> QED
      BY <2>3, <3>3, Zenon
  <2>6. ASSUME NEW k \in Live', InLane(k)'
        PROVE  Cleared(k)'
    <3>1. k \in Legs /\ robot'[k] \in {"unsealed", "dwell", "sealed"}
      BY <2>6, Zenon DEF InLane, Live, Children
    <3>2. k \in Live
      <4>1. CASE k \notin Live
        <5>1. st[k] = "none" /\ robot' = robot
          BY <4>1, LegWritten, Zenon
        <5> QED
          BY <3>1, <5>1, Zenon DEF Sent
      <4> QED
        BY <4>1, Zenon
    <3>3. CASE InLane(k)
      BY <2>2, <2>5, <3>2, <3>3, Zenon
    <3>4. ASSUME NEW p \in Procs, me[p].pc = "create", me[p].leg = k
          PROVE  Cleared(k)'
      BY <2>2, <2>5, <3>2, <3>4, Zenon DEF Sending
    <3> QED
      BY <1>0, <3>1, <3>3, <3>4, Zenon DEF RobotMove, InLane
  <2>7. ASSUME NEW p \in Procs, me'[p].pc \in Sending, me'[p].leg \in Live'
        PROVE  Cleared(me[p].leg)'
    <3>1. CASE me[p].pc \in Sending /\ me'[p].leg = me[p].leg
      <4>1. me[p].leg \in Legs /\ st[me[p].leg] # "none"
        BY <3>1, Zenon DEF Routed, Sending, LegSteps
      <4>2. me[p].leg \in Live
        <5>1. ~Over(st'[me[p].leg])
          BY <2>7, <3>1, Zenon DEF Live
        <5> QED
          BY <4>1, <5>1, OneWay, Zenon DEF Live, Children
      <4> QED
        BY <2>2, <2>5, <3>1, <4>2, Zenon DEF Cleared
    <3>2. CASE me[p].pc = "admit" /\ me'[p].leg = me[p].leg /\ Admitted(me[p].leg)
      <4> DEFINE k == me[p].leg
      <4>1. Live' = Live
        BY <3>2, Zenon DEF Admitted, Live, Children
      <4>2. ASSUME NEW l \in Live, BinOf(l) < BinOf(k)
            PROVE  robot[l] \in Out
        <5>1. BinOf(l) \in Bins /\ l # k
          <6>1. l \in Legs
            BY Zenon DEF Live, Children
          <6>2. l # k
            BY <4>2, <6>1, LegParts DEF BinOf, Bins
          <6> QED
            BY <6>1, <6>2, LegParts, Zenon DEF BinOf
        <5>2. at[BinOf(l)] # "lane"
          BY <3>2, <4>2, <5>1, Zenon DEF Admitted, Blockers
        <5>3. l \notin occ
          BY <3>2, <5>1, Zenon DEF Admitted
        <5>4. robot[l] # "dwell"
          BY <2>1, <5>3, Zenon DEF Inside
        <5> QED
          BY <2>2, <5>2, <5>4, Zenon
      <4>3. Cleared(k)
        BY <4>2, Zenon DEF Cleared
      <4> QED
        BY <2>5, <2>7, <3>2, <4>1, <4>3, Zenon DEF Cleared
    <3> QED
      BY <1>0, <2>7, <3>1, <3>2, SendEntered, Zenon
  <2> QED
    BY <2>4, <2>6, <2>7, Zenon
<1> QED
  BY <1>1, <1>2, Zenon DEF File

-----------------------------------------------------------------------------
(* The inductive invariant, and what it implies.                           *)

IInv ==
    /\ TypeOK /\ MeOK /\ Routed /\ Chapters
    /\ Sent /\ Claimed /\ Inside
    /\ Waits /\ Reach
    /\ Detailed /\ Asked /\ Serve /\ Once /\ File

\* Nothing is planned, in hand or under way at the start.
LEMMA InitIInv == Init => IInv
<1> SUFFICES ASSUME Init
             PROVE  IInv
  OBVIOUS
<1>1. \A p \in Procs : me[p] = Idle
  BY Zenon DEF Init
<1>2. /\ \A l \in Legs : st[l] = "none" /\ why[l] = "none" /\ robot[l] = "none"
      /\ Live = {} /\ ~Served
  BY DEF Init, Live, Children, Served
<1>3. /\ Idle \in Mem /\ Idle.pc = "idle" /\ Idle.chap = 0 /\ Idle.rest = {}
  BY IdleMem, Zenon
<1>4. Idle.pc \notin Steps \ {"idle"} /\ "idle" \notin LegSteps /\ "idle" \notin PlanSteps
  BY <1>3 DEF LegSteps, PlanSteps
<1>5. chapter = 0 /\ wakes = 0 /\ failed = {} /\ twice = {} /\ parent = "queued"
  BY Zenon DEF Init
<1>6. MeOK
  BY <1>3, Zenon DEF MeOK, Init
<1>7. TypeOK
  <2>1. \A p \in Procs : me[p].leg \in Legs \cup {None} /\ me[p].rest \subseteq Legs \X BOOLEAN
    BY <1>1, <1>3 DEF Mem
  <2> QED
    BY <2>1, DigAssumption DEF TypeOK, Init
<1>8. Routed
  BY <1>1, <1>3, <1>4, <1>5 DEF Routed
<1>9. Chapters
  BY <1>1, <1>2, <1>3, <1>4, Zenon DEF Chapters
<1>10. Sent /\ Claimed /\ Inside
  BY <1>1, <1>2, <1>3, <1>4, <1>5, Zenon DEF Sent, Claimed, Inside
<1>11. Waits /\ Reach
  BY <1>1, <1>2, <1>3, <1>5, Zenon DEF Waits, Reach, Requeueing, Returning, Completing
<1>12. Detailed /\ Asked
  BY <1>1, <1>2, <1>3, <1>5 DEF Detailed, Asked
<1>13. Serve /\ Once
  <2>1. ~(chapter > 0)
    BY <1>5
  <2>2. \A l \in Legs : st[l] # "confirmed"
    BY <1>2, Zenon
  <2> QED
    BY <1>1, <1>2, <1>3, <1>5, <2>1, <2>2, Zenon
       DEF Serve, Once, Returning, Completing
<1>14. File
  BY <1>1, <1>2, <1>3, Zenon DEF File, Sending
<1> QED
  BY <1>6, <1>7, <1>8, <1>9, <1>10, <1>11, <1>12, <1>13, <1>14, Zenon DEF IInv

\* Every step keeps the invariant.
LEMMA NextIInv == IInv /\ Next => IInv'
<1> SUFFICES ASSUME IInv, Next
             PROVE  IInv'
  OBVIOUS
<1>0. /\ TypeOK /\ MeOK /\ Routed /\ Chapters /\ Sent /\ Claimed /\ Inside
      /\ Waits /\ Reach /\ Detailed /\ Asked /\ Serve /\ Once /\ File
  BY Zenon DEF IInv
<1>1. TypeOK' /\ Routed' /\ Chapters'
  BY <1>0, TypeKept, RoutedKept, ChaptersKept, Zenon
<1>2. MeOK'
  BY <1>0, ProcMoves, Zenon
<1>3. Sent' /\ Claimed'
  BY <1>0, SentKept, ClaimedKept, Zenon
<1>4. Inside'
  BY <1>0, <1>3, InsideKept, Zenon
<1>5. Waits' /\ Reach'
  BY <1>0, WaitsKept, ReachKept, Zenon
<1>6. Detailed' /\ Asked'
  BY <1>0, DetailedKept, AskedKept, Zenon
<1>7. Serve' /\ Once'
  BY <1>0, ServeKept, OnceKept, Zenon
<1>8. File'
  BY <1>0, FileKept, Zenon
<1> QED
  BY <1>1, <1>2, <1>3, <1>4, <1>5, <1>6, <1>7, <1>8, Zenon DEF IInv

\* The invariant reads nothing but the variables.
LEMMA StutterIInv == IInv /\ UNCHANGED vars => IInv'
<1> SUFFICES ASSUME IInv, UNCHANGED vars
             PROVE  IInv'
  OBVIOUS
<1> USE DEF vars, family, floor, queue, seen
<1>1. TypeOK' /\ MeOK' /\ Routed' /\ Chapters'
  <2>1. TypeOK'
    BY DEF IInv, TypeOK
  <2>2. MeOK' /\ Chapters'
    BY DEF IInv, MeOK, Chapters
  <2>3. Routed'
    BY DEF IInv, Routed
  <2> QED
    BY <2>1, <2>2, <2>3, Zenon
<1>2. Sent' /\ Claimed' /\ Inside'
  BY DEF IInv, Sent, Claimed, Inside, Live, Children
<1>3. Waits' /\ Reach'
  BY DEF IInv, Waits, Reach, InTime, Beginning, Requeueing, Returning, Completing,
         Live, Children
<1>4. Detailed' /\ Asked' /\ Serve' /\ Once'
  BY DEF IInv, Detailed, Asked, Serve, Once, InTime, Beginning, Returning, Completing,
         Served, StoppedAlone
<1>5. File'
  BY DEF IInv, File, Orderly, InTime, Cleared, InLane, Live, Children
<1> QED
  BY <1>1, <1>2, <1>3, <1>4, <1>5, Zenon DEF IInv

\* The inductive invariant holds of every dig.
THEOREM DigInvariant == Spec => []IInv
BY InitIInv, NextIInv, StutterIInv, PTL DEF Spec

\* Type correctness: the handlers of compound.go write only the statuses, places
\* and memories declared, however many legs, goroutines and chapters there are.
THEOREM DigTypes == Spec => []TypeOK
<1>1. IInv => TypeOK
  BY Zenon DEF IInv
<1> QED
  BY <1>1, DigInvariant, PTL

\* The fleet accepts a leg once, however many calls of AdvanceCompoundOrder race
\* for it and wherever Core restarts: only the winner of the sourcing ->
\* dispatched hand-over comes to CreateTransportOrder, and a leg has no robot
\* until then.
THEOREM LegSentOnce == Spec => []SentOnce
<1>1. IInv => SentOnce
  BY Zenon DEF IInv, Sent, SentOnce
<1> QED
  BY <1>1, DigInvariant, PTL

\* Never two robots of one dig in the lane: admit lets a leg go when no bin stands
\* before its own and no sibling has its row, a dweller has its row until it gets
\* a destination, and a robot whose row was dropped before the lift still has its
\* bin in the lane, behind which nobody is sent.
THEOREM OneRobotInLane == Spec => []SingleFile
<1>1. ASSUME IInv, Orderly, NEW l \in Live, NEW k \in Live, InLane(l), InLane(k)
      PROVE  ~(BinOf(l) < BinOf(k))
  <2>1. Cleared(k)
    BY <1>1, Zenon DEF IInv, File
  <2>2. robot[l] \notin Out
    BY <1>1 DEF InLane, Out
  <2> QED
    BY <1>1, <2>1, <2>2, Zenon DEF Cleared
<1>2. ASSUME IInv, Orderly, NEW l \in Live, NEW k \in Live, InLane(l), InLane(k)
      PROVE  l = k
  <2>1. l \in Legs /\ k \in Legs
    BY Zenon DEF Live, Children
  <2>2. BinOf(l) = BinOf(k)
    BY <1>1, <1>2, <2>1, LegParts DEF BinOf, Bins
  <2> QED
    BY <1>2, <2>2, LegOfBin, Zenon DEF IInv, Orderly
<1>3. IInv => SingleFile
  <2>1. Orderly \/ lapses \cap {"givenback", "late", "unbegun", "gone"} # {}
    BY DEF Orderly, InTime
  <2> QED
    BY <1>2, <2>1, Zenon DEF SingleFile
<1> QED
  BY <1>3, DigInvariant, PTL

\* A demand returned to the queue has no leg alive: RequeueParent acts on a
\* verdict that waited for the legs still moving.
THEOREM QueuedHasNoLegs == Spec => []ParentAwaitsLegs
<1>1. IInv => ParentAwaitsLegs
  BY Zenon DEF IInv, Waits, InTime, ParentAwaitsLegs
<1> QED
  BY <1>1, DigInvariant, PTL

\* A plain retrieve is confirmed by CompleteCompound only after a leg brought the
\* wanted bin.
THEOREM ConfirmedIsServed == Spec => []DemandServed
<1>1. IInv => DemandServed
  BY Zenon DEF IInv, Serve, Served, DemandServed
<1> QED
  BY <1>1, DigInvariant, PTL

\* A plain retrieve whose bin has come does not return to the queue:
\* compoundGenerations judges the last chapter alone.
THEOREM ServedIsNotQueued == Spec => []ServedOnce
<1>1. IInv => ServedOnce
  BY Zenon DEF IInv, Once, InTime, ServedOnce
<1> QED
  BY <1>1, DigInvariant, PTL

\* When no call is in progress a cancelled demand has no leg alive:
\* cancelCompoundChildren lists every leg and nothing revives one.
THEOREM CancelLeavesNoLegs == Spec => []CancelReachesLegs
<1>1. ASSUME IInv, Quiet, parent = "cancelled", lapses \cap {"unbegun", "cut"} = {}
      PROVE  Live = {}
  <2>1. \A p \in Procs : me[p].pc = "idle"
    BY <1>1, Zenon DEF Quiet
  <2>2. \A p \in Procs : me[p].pc \notin {"children", "begin"} /\ me[p].pc # "cancel"
    BY <2>1
  <2> QED
    BY <1>1, <2>2, Zenon DEF IInv, Reach
<1>2. IInv => CancelReachesLegs
  BY <1>1, Zenon DEF CancelReachesLegs
<1> QED
  BY <1>2, DigInvariant, PTL

=============================================================================
