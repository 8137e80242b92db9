----------------------------- MODULE CountPath -----------------------------
(***************************************************************************)
(* The path of a part count from a press to Core's bins table.             *)
(*                                                                         *)
(* Edge counts parts against the bin bound at a slot                       *)
(* (shingo-edge/engine/wiring_counter_delta.go), gathers them in memory    *)
(* (shingo-edge/uop/accumulator.go) and flushes them through its outbox.   *)
(* Core applies them to bins.uop_remaining (shingo-core/uop/applier.go),   *)
(* guarded by a sequence number and by the bin's generation, delta_epoch,  *)
(* which every reset of the count bumps and announces                      *)
(* (shingo-core/service/bin_manifest.go).  A count stamped with a retired  *)
(* generation is discarded and answered with the current one.              *)
(*                                                                         *)
(* One slot; each tick consumes one part.  uop and the ledger count from   *)
(* the last declaration.  Edge's producer goroutine (tick), its flush loop *)
(* and its message consumer interleave, and so do Core's consumer and its  *)
(* web and lifecycle handlers.                                             *)
(***************************************************************************)
EXTENDS Integers, Sequences, FiniteSets, Functions

CONSTANTS
    Bins,
    None,           \* no bin; nobody
    Loop,           \* the flush loop's goroutine
    MaxEpoch,       \* bound: generations of a bin
    MaxParts,       \* bound: parts counted
    MaxMoves,       \* bound: arrivals of a bin at the node
    MaxFaults       \* bound: corrections, failures, repeats, losses and restarts

ASSUME CountPathAssumption ==
    /\ IsFiniteSet(Bins) /\ None \notin Bins /\ Loop \notin Bins /\ Loop # None
    /\ MaxEpoch \in Nat \ {0} /\ MaxParts \in Nat
    /\ MaxMoves \in Nat /\ MaxFaults \in Nat

VARIABLES
    active, stamp, held,    \* process_node_runtime_states: active_bin_id,
                            \*   active_bin_epoch, pending_uop_delta
    acc,                    \* the accumulator's entry of each bin
    tick,                   \* the runtime row a tick has read (empty or one)
    flusher,                \* who holds flushMu: Loop, or the pickup of a bin
    todo, snap,             \* the entries flushBins has yet to visit; the one it sends
    seqNo,                  \* inventory_delta_seq: next_seq by bin and epoch
    out, sent, batch,       \* the Edge outbox: rows, acked rows, the drainer's pass
    wire,                   \* rows published and not yet read by Core
    at,                     \* the bin Core has at the node
    epoch, uop,             \* bins.delta_epoch, bins.uop_remaining
    last,                   \* inventory_delta_dedup: last_seq by bin and epoch
    repaired,               \* the generation the last reply for the bin carried
    handling,               \* the delta in Core's consumer, with the epoch it read
    sending,                \* a notice Core has yet to enqueue after its commit
    down,                   \* Core's notices on their way to Edge
    parts, gone, again,     \* history: parts counted; lost with Edge's memory or a
                            \*   failed hold; charged again after a failed clear
    applied, declared,      \* history: rows applied; those a declaration overtook
    recorded, heard,        \* history: rows in the discrepancy audit; rows handled
    unanswered,             \* history: the generation of a reply Edge did not keep
    discarded,              \* history: the generation current at the last discard
    stumbled,               \* history: rows of which a publish failed, or that a
                            \*   restart of Core lost
    moves, faults           \* history: what was used of the bounds

slot == <<active, stamp, held>>
accumulator == <<acc, flusher, todo, snap>>
outbox == <<seqNo, out>>
drainer == <<sent, batch, stumbled>>
bins == <<at, epoch, uop>>
inbox == <<last, repaired, handling>>
ledger == <<applied, declared>>
verdicts == <<recorded, heard, unanswered, discarded>>
budget == <<moves, faults>>
vars == <<slot, accumulator, tick, outbox, drainer, wire, bins, inbox, sending, down,
          parts, gone, again, ledger, verdicts, budget>>

Epochs == 1..MaxEpoch
Greater(a, b) == IF a > b THEN a ELSE b
Fault == faults < MaxFaults /\ faults' = faults + 1 /\ UNCHANGED moves
Notice(k, b, e) == [kind |-> k, bin |-> b, epoch |-> e]

Init ==
    /\ active = None /\ stamp = 0 /\ held = 0
    /\ acc = [b \in Bins |-> [delta |-> 0, epoch |-> 0]]
    /\ tick = {} /\ flusher = None /\ todo = {} /\ snap = {}
    /\ seqNo = [b \in Bins |-> [e \in Epochs |-> 0]]
    /\ out = <<>> /\ sent = {} /\ batch = {} /\ wire = <<>>
    /\ at = None /\ epoch = [b \in Bins |-> 1] /\ uop = [b \in Bins |-> 0]
    /\ last = [b \in Bins |-> [e \in Epochs |-> 0]]
    /\ repaired = [b \in Bins |-> 0]
    /\ handling = {} /\ sending = {} /\ down = <<>>
    /\ parts = 0 /\ gone = 0 /\ again = 0 /\ applied = {} /\ declared = {}
    /\ recorded = {} /\ heard = {}
    /\ unanswered = [b \in Bins |-> 0] /\ discarded = [b \in Bins |-> 0]
    /\ stumbled = {} /\ moves = 0 /\ faults = 0

-----------------------------------------------------------------------------
(* Edge: counting.                                                         *)

\* recordBin: the first contribution of a window sets the epoch; a later one
\* may only roll it forward, with what the entry already holds.
RecordBin(entry, n, e) ==
    [delta |-> entry.delta + n,
     epoch |-> IF entry.delta = 0 THEN e ELSE Greater(entry.epoch, e)]

\* handleCounterDelta reads the runtime row of the node.
TickRead ==
    /\ tick = {} /\ parts < MaxParts
    /\ parts' = parts + 1
    /\ tick' = {[bin |-> active, epoch |-> stamp, held |-> held]}
    /\ UNCHANGED <<slot, accumulator, outbox, drainer, wire, bins, inbox, sending, down,
                   gone, again, ledger, verdicts, budget>>

\* applyHoldAndReplay and the emission, from the row read.  Without a bin the part
\* is held for the next one; a hold that cannot be written is logged and the part
\* is lost.
TickHold(t) ==
    /\ t.bin = None
    /\ \/ held' = held + 1 /\ UNCHANGED <<gone, budget>>
       \/ Fault /\ gone' = gone + 1 /\ UNCHANGED held
    /\ UNCHANGED <<acc, again>>

\* With one bound, this part and the held ones are charged to it; a hold that
\* cannot be cleared is logged, and the next tick charges its parts again.
TickCharge(t) ==
    /\ t.bin # None
    /\ acc' = [acc EXCEPT ![t.bin] = RecordBin(@, 1 + t.held, t.epoch)]
    /\ \/ held' = (IF t.held # 0 THEN 0 ELSE held) /\ UNCHANGED <<again, budget>>
       \/ t.held # 0 /\ Fault /\ again' = again + t.held /\ UNCHANGED held
    /\ UNCHANGED gone

TickApply ==
    /\ tick' = {}
    /\ \E t \in tick : TickHold(t) \/ TickCharge(t)
    /\ UNCHANGED <<active, stamp, flusher, todo, snap, outbox, drainer, wire, bins, inbox,
                   sending, down, parts, ledger, verdicts>>

-----------------------------------------------------------------------------
(* Edge: flushing the accumulator, send then sweep.                        *)

StartFlush(who) == flusher = None /\ flusher' = who /\ todo' = Bins

\* The flush loop's ticker.
FlushLoop ==
    /\ StartFlush(Loop)
    /\ \E b \in Bins : acc[b].delta # 0
    /\ UNCHANGED <<slot, acc, snap, tick, outbox, drainer, wire, bins, inbox, sending, down,
                   parts, gone, again, ledger, verdicts, budget>>

\* The Range callback: a snapshot under the entry's lock; empty entries are
\* passed over.
FlushSnapshot(b) ==
    /\ flusher # None /\ snap = {} /\ b \in todo
    /\ todo' = todo \ {b}
    /\ snap' = IF acc[b].delta = 0 THEN {}
               ELSE {[bin |-> b, delta |-> acc[b].delta, epoch |-> acc[b].epoch,
                      queued |-> FALSE]}
    /\ UNCHANGED <<slot, acc, flusher, tick, outbox, drainer, wire, bins, inbox, sending,
                   down, parts, gone, again, ledger, verdicts, budget>>

\* AllocateInventoryDeltaSeq: a durable counter by bin and epoch.
Allocate(b, e) == seqNo' = [seqNo EXCEPT ![b][e] = @ + 1]

FlushSend ==
    /\ \E s \in snap :
          /\ ~s.queued
          /\ Allocate(s.bin, s.epoch)
          /\ out' = Append(out, [bin |-> s.bin, delta |-> s.delta, epoch |-> s.epoch,
                                 seq |-> seqNo[s.bin][s.epoch] + 1])
          /\ snap' = {[s EXCEPT !.queued = TRUE]}
    /\ UNCHANGED <<slot, acc, flusher, todo, tick, drainer, wire, bins, inbox, sending,
                   down, parts, gone, again, ledger, verdicts, budget>>

\* The insert fails after the number was drawn: the entry stays as it is.
FlushSendFails ==
    /\ \E s \in snap : ~s.queued /\ Allocate(s.bin, s.epoch)
    /\ Fault
    /\ snap' = {}
    /\ UNCHANGED <<slot, acc, flusher, todo, tick, out, drainer, wire, bins, inbox, sending,
                   down, parts, gone, again, ledger, verdicts>>

\* Mutant: the entry is zeroed, with what was recorded during the send.
FlushCommitZeroes ==
    /\ \E s \in snap : s.queued /\ acc' = [acc EXCEPT ![s.bin].delta = 0]
    /\ snap' = {}
    /\ UNCHANGED <<slot, flusher, todo, tick, outbox, drainer, wire, bins, inbox, sending,
                   down, parts, gone, again, ledger, verdicts, budget>>

\* Only what was sent is subtracted from the live entry.
FlushCommit ==
    /\ \E s \in snap : s.queued /\ acc' = [acc EXCEPT ![s.bin].delta = @ - s.delta]
    /\ snap' = {}
    /\ UNCHANGED <<slot, flusher, todo, tick, outbox, drainer, wire, bins, inbox, sending,
                   down, parts, gone, again, ledger, verdicts, budget>>

\* flushMu is released; HandleBinPickedUp goes on to unbind the bin it names.
FlushEnd ==
    /\ flusher # None /\ todo = {} /\ snap = {}
    /\ flusher' = None
    /\ active' = IF flusher = active THEN None ELSE active
    /\ UNCHANGED <<stamp, held, acc, todo, snap, tick, outbox, drainer, wire, bins, inbox,
                   sending, down, parts, gone, again, ledger, verdicts, budget>>

FlushStep == (\E b \in Bins : FlushSnapshot(b)) \/ FlushSend \/ FlushCommit \/ FlushEnd

-----------------------------------------------------------------------------
(* The Edge outbox and its drainer (module Outbox has them in full).       *)

Unsent == DOMAIN out \ sent

DrainBegin ==
    /\ batch = {} /\ Unsent # {}
    /\ batch' = Unsent
    /\ UNCHANGED <<slot, accumulator, tick, outbox, sent, stumbled, wire, bins, inbox, sending, down,
                   parts, gone, again, ledger, verdicts, budget>>

\* The next row of the pass leaves it.
Drained(i) ==
    /\ i \in batch /\ \A j \in batch : i <= j
    /\ batch' = batch \ {i}
    /\ UNCHANGED <<slot, accumulator, tick, outbox, bins, inbox, sending, down, parts, gone, again,
                   ledger, verdicts>>

Publish(i) ==
    /\ Drained(i)
    /\ wire' = Append(wire, i) /\ sent' = sent \cup {i}
    /\ UNCHANGED <<stumbled, budget>>

\* The publish succeeds and the ack does not: the row is published again.
PublishUnacked(i) ==
    /\ Drained(i)
    /\ Fault
    /\ wire' = Append(wire, i)
    /\ UNCHANGED <<sent, stumbled>>

\* The publish fails and the pass goes on to the next row.
PublishFails(i) ==
    /\ Drained(i)
    /\ Fault
    /\ stumbled' = stumbled \cup {i}
    /\ UNCHANGED <<wire, sent>>

-----------------------------------------------------------------------------
(* Core: resets, moves and corrections.                                    *)

\* Mutant: the announcement survives the rollback of the bump.
StartLifeTorn(b) ==
    /\ epoch[b] < MaxEpoch
    /\ UNCHANGED epoch
    /\ down' = IF at = b THEN Append(down, Notice("lifecycle", b, epoch[b] + 1)) ELSE down

\* bumpEpoch after the absolute write of a reset: a new generation and, when
\* the bin is at a node, its announcement, in one transaction.
StartLife(b) ==
    /\ epoch[b] < MaxEpoch
    /\ epoch' = [epoch EXCEPT ![b] = @ + 1]
    /\ down' = IF at = b THEN Append(down, Notice("lifecycle", b, epoch[b] + 1)) ELSE down

\* The count of a bin is declared: what was applied before no longer counts.
Declare(b) ==
    /\ uop' = [uop EXCEPT ![b] = 0]
    /\ declared' = declared \cup {i \in applied : out[i].bin = b}

\* SetForProduction, ClearForReuse and the release paths.
Reset(b) ==
    /\ StartLife(b) /\ Declare(b)
    /\ UNCHANGED <<slot, accumulator, tick, outbox, drainer, wire, at, inbox, sending,
                   parts, gone, again, applied, verdicts, budget>>

\* A handler commits, and enqueues its notice in a later statement.
ThenSend(n) == sending = {} /\ sending' = {n}

\* The fleet puts the bin down at the node; the delivery reads its row.
Arrive(b) ==
    /\ at = None /\ at' = b
    /\ ThenSend(Notice("delivered", b, epoch[b]))
    /\ moves < MaxMoves /\ moves' = moves + 1 /\ UNCHANGED faults
    /\ UNCHANGED <<slot, accumulator, tick, outbox, drainer, wire, epoch, uop, inbox, down,
                   parts, gone, again, ledger, verdicts>>

\* A pickup block finishes: the bin goes to the transit node.
PickUp(b) ==
    /\ at = b /\ at' = None
    /\ ThenSend(Notice("picked_up", b, 0))
    /\ UNCHANGED <<slot, accumulator, tick, outbox, drainer, wire, epoch, uop, inbox, down,
                   parts, gone, again, ledger, verdicts, budget>>

\* A person records a count: no new generation.
RecordCount(b) ==
    /\ at = b
    /\ Declare(b)
    /\ ThenSend(Notice("correction", b, epoch[b]))
    /\ Fault
    /\ UNCHANGED <<slot, accumulator, tick, outbox, drainer, wire, at, epoch, inbox, down,
                   parts, gone, again, applied, verdicts>>

SendDataToEdge ==
    /\ \E n \in sending : down' = Append(down, n)
    /\ sending' = {}
    /\ UNCHANGED <<slot, accumulator, tick, outbox, drainer, wire, bins, inbox, parts, gone, again,
                   ledger, verdicts, budget>>

-----------------------------------------------------------------------------
(* Core: ApplyBinUOPDelta.                                                 *)

\* The consumer reads a delta (its offset is committed by the read) and the
\* transaction reads the bin's generation, without locking the row.
ReadEpoch ==
    /\ handling = {} /\ wire # <<>>
    /\ wire' = Tail(wire)
    /\ handling' = {[row |-> Head(wire), seen |-> epoch[out[Head(wire)].bin]]}
    /\ UNCHANGED <<slot, accumulator, tick, outbox, drainer, bins, last, repaired, sending,
                   down, parts, gone, again, ledger, verdicts, budget>>

Stale(d, seen) == d.epoch > 0 /\ d.epoch < seen

\* Mutant: the reply repeats the generation of the discarded count.
RepairEpochEchoed(d, seen) ==
    /\ repaired' = [repaired EXCEPT ![d.bin] = seen]
    /\ IF repaired[d.bin] # seen /\ at = d.bin
       THEN down' = Append(down, Notice("refresh", d.bin, d.epoch))
       ELSE UNCHANGED down

\* repairEpoch and markRepaired: one reply for each generation, addressed to
\* the node the bin is at by then; elsewhere it reaches another slot or none.
RepairEpoch(d, seen) ==
    /\ repaired' = [repaired EXCEPT ![d.bin] = seen]
    /\ IF repaired[d.bin] # seen /\ at = d.bin
       THEN down' = Append(down, Notice("refresh", d.bin, seen))
       ELSE UNCHANGED down

\* What every outcome but the crash does.
Handled(h) ==
    /\ h \in handling
    /\ handling' = {}
    /\ heard' = heard \cup {h.row}
    /\ UNCHANGED <<slot, accumulator, tick, outbox, drainer, wire, at, sending, parts, gone, again>>

\* The stale-epoch branch: an audit row and the reply, in one transaction.
DiscardStale(h) ==
    LET d == out[h.row] IN
    /\ Handled(h)
    /\ Stale(d, h.seen)
    /\ recorded' = recorded \cup {h.row}
    /\ discarded' = IF at = d.bin THEN [discarded EXCEPT ![d.bin] = h.seen] ELSE discarded
    /\ unanswered' = IF repaired[d.bin] # h.seen /\ at # d.bin
                     THEN [unanswered EXCEPT ![d.bin] = h.seen] ELSE unanswered
    /\ RepairEpoch(d, h.seen)
    /\ UNCHANGED <<epoch, uop, last, ledger, budget>>

\* Mutant: the sequence number last applied is accepted once more.
ClaimDeltaSequenceAgain(d) == d.seq >= last[d.bin][d.epoch]

\* Mutant: the dedup row is kept by bin alone.
ClaimDeltaSequenceByBin(d) == \A e \in Epochs : d.seq > last[d.bin][e]

\* claimDeltaSequence: last_seq < seq in the row of this bin and epoch.
ClaimDeltaSequence(d) == d.seq > last[d.bin][d.epoch]

SkipReplay(h) ==
    LET d == out[h.row] IN
    /\ Handled(h)
    /\ ~Stale(d, h.seen) /\ ~ClaimDeltaSequence(d)
    /\ UNCHANGED <<epoch, uop, last, repaired, down, ledger, recorded, unanswered, discarded,
                   budget>>

\* The bin carries another payload by now: the transaction rolls back, the
\* sequence number stays free, and the discrepancy is recorded.
RejectPayload(h) ==
    LET d == out[h.row] IN
    /\ Handled(h)
    /\ ~Stale(d, h.seen) /\ ClaimDeltaSequence(d)
    /\ Fault
    /\ recorded' = recorded \cup {h.row}
    /\ UNCHANGED <<epoch, uop, last, repaired, down, ledger, unanswered, discarded>>

\* The count lands.  A capture reduction that empties the bin also clears it
\* for reuse.
Apply(h) ==
    LET d == out[h.row] IN
    /\ Handled(h)
    /\ ~Stale(d, h.seen) /\ ClaimDeltaSequence(d)
    /\ last' = [last EXCEPT ![d.bin][d.epoch] = d.seq]
    /\ applied' = applied \cup {h.row}
    /\ \/ /\ uop' = [uop EXCEPT ![d.bin] = @ - d.delta]
          /\ UNCHANGED <<epoch, down, declared>>
       \/ /\ StartLife(d.bin)
          /\ uop' = [uop EXCEPT ![d.bin] = 0]
          /\ declared' = declared \cup {i \in applied' : out[i].bin = d.bin}
    /\ UNCHANGED <<repaired, recorded, unanswered, discarded, budget>>

CoreHandles ==
    \E h \in handling : DiscardStale(h) \/ SkipReplay(h) \/ RejectPayload(h) \/ Apply(h)

-----------------------------------------------------------------------------
(* Edge: Core's notices, read one after another.                           *)

\* SetRuntimeWithBinAndEpoch: for the bin already bound the stamp only moves
\* forward; another bin brings its own.
Bind(b, e) ==
    /\ active' = b
    /\ stamp' = IF active = b THEN Greater(stamp, e) ELSE e

Ignore == UNCHANGED <<active, stamp>>

\* History: a notice older than the reply binds the slot once the reply is spent.
FallsBehind(b, e) ==
    /\ active # b /\ e < repaired[b]
    /\ Notice("refresh", b, repaired[b]) \notin Range(Tail(down))

BindByNotice(b, e) ==
    /\ Bind(b, e)
    /\ unanswered' = IF FallsBehind(b, e) THEN [unanswered EXCEPT ![b] = repaired[b]]
                     ELSE unanswered

Take(n) ==
    /\ down # <<>> /\ n = Head(down) /\ down' = Tail(down)
    /\ flusher \notin Bins
    /\ UNCHANGED <<held, acc, snap, tick, outbox, drainer, wire, bins, inbox, sending,
                   parts, gone, again, ledger, recorded, heard, discarded>>

HandleDelivered(n) ==
    /\ Take(n) /\ n.kind = "delivered"
    /\ BindByNotice(n.bin, n.epoch)
    /\ UNCHANGED <<flusher, todo, budget>>

\* HandleUOPAdjustment: a lifecycle announcement never binds an empty slot; a
\* person's correction does, unless parts are held for the next bin.
HandleUOPAdjustment(n) ==
    /\ Take(n) /\ n.kind \in {"lifecycle", "correction"}
    /\ IF \/ active = n.bin
          \/ active = None /\ n.kind = "correction" /\ held = 0
       THEN BindByNotice(n.bin, n.epoch)
       ELSE Ignore /\ UNCHANGED unanswered
    /\ UNCHANGED <<flusher, todo, budget>>

HandleBinEpochRefresh(n) ==
    /\ Take(n) /\ n.kind = "refresh"
    /\ IF active = n.bin
       THEN Bind(n.bin, n.epoch) /\ UNCHANGED unanswered
       ELSE Ignore /\ unanswered' = [unanswered EXCEPT ![n.bin] = n.epoch]
    /\ UNCHANGED <<flusher, todo, budget>>

\* HandleBinPickedUp up to its flush, for which it waits; FlushEnd unbinds.
HandleBinPickedUp(n) ==
    /\ Take(n) /\ n.kind = "picked_up"
    /\ StartFlush(n.bin)
    /\ UNCHANGED <<active, stamp, unanswered, budget>>

\* A notice expires before it is read, or the handler's write fails.
LoseNotice(n) ==
    /\ Take(n)
    /\ Fault
    /\ unanswered' = IF n.kind = "refresh" THEN [unanswered EXCEPT ![n.bin] = n.epoch]
                     ELSE unanswered
    /\ Ignore
    /\ UNCHANGED <<flusher, todo>>

\* The publish of a notice fails: those behind it in Core's outbox overtake it.
DelayNotice ==
    /\ Len(down) > 1
    /\ Fault
    /\ down' = Append(Tail(down), Head(down))
    /\ UNCHANGED <<slot, accumulator, tick, outbox, drainer, wire, bins, inbox, sending,
                   parts, gone, again, ledger, verdicts>>

EdgeHandles(n) ==
    \/ HandleDelivered(n) \/ HandleUOPAdjustment(n)
    \/ HandleBinEpochRefresh(n) \/ HandleBinPickedUp(n)

-----------------------------------------------------------------------------
(* Restarts.                                                               *)

\* The parts Edge's memory alone knows of: a tick under way, and what the
\* accumulator holds and has not queued.
InMemory ==
    LET queued == {s \in snap : s.queued}
    IN  Cardinality(tick) + SumFunction([b \in Bins |-> acc[b].delta])
                          - SumFunction([s \in queued |-> s.delta])

EdgeRestart ==
    /\ Fault
    /\ gone' = gone + InMemory
    /\ acc' = [b \in Bins |-> [delta |-> 0, epoch |-> 0]]
    /\ tick' = {} /\ flusher' = None /\ todo' = {} /\ snap' = {} /\ batch' = {}
    /\ UNCHANGED <<slot, outbox, sent, stumbled, wire, bins, inbox, sending, down, parts, again,
                   ledger, verdicts>>

CoreRestart ==
    /\ Fault
    /\ repaired' = [b \in Bins |-> 0]
    /\ handling' = {} /\ sending' = {}
    /\ stumbled' = stumbled \cup {h.row : h \in handling}
    /\ UNCHANGED <<slot, accumulator, tick, outbox, sent, batch, wire, bins, last, down,
                   parts, gone, again, ledger, verdicts>>

EdgeStep ==
    \/ TickRead \/ TickApply \/ FlushLoop \/ FlushStep \/ FlushSendFails \/ DrainBegin
    \/ \E i \in batch : Publish(i) \/ PublishUnacked(i) \/ PublishFails(i)

CoreStep ==
    \/ \E b \in Bins : Reset(b) \/ Arrive(b) \/ PickUp(b) \/ RecordCount(b)
    \/ SendDataToEdge \/ ReadEpoch \/ CoreHandles

NoticeStep == DelayNotice \/ \E n \in Range(down) : EdgeHandles(n) \/ LoseNotice(n)

Next == EdgeStep \/ CoreStep \/ NoticeStep \/ EdgeRestart \/ CoreRestart

Spec == Init /\ [][Next]_vars

\* The flush holds its mutex for the time of a pass, and Edge's consumer loop
\* reads notice after notice.
FairSpec ==
    /\ Spec
    /\ WF_vars(FlushStep)
    /\ WF_vars(\E n \in Range(down) : EdgeHandles(n))

-----------------------------------------------------------------------------
(* Properties.                                                             *)

Kinds == {"delivered", "picked_up", "lifecycle", "correction", "refresh"}
Delta == [bin : Bins, delta : Nat, epoch : Epochs, seq : Nat]
Message == [kind : Kinds, bin : Bins, epoch : 0..MaxEpoch]

SlotOK ==
    /\ active \in Bins \cup {None} /\ stamp \in 0..MaxEpoch /\ held \in Nat
    /\ acc \in [Bins -> [delta : Nat, epoch : 0..MaxEpoch]]
    /\ tick \subseteq [bin : Bins \cup {None}, epoch : 0..MaxEpoch, held : Nat]
    /\ flusher \in Bins \cup {None, Loop} /\ todo \subseteq Bins
    /\ snap \subseteq [bin : Bins, delta : Nat, epoch : Epochs, queued : BOOLEAN]

OutboxOK ==
    /\ seqNo \in [Bins -> [Epochs -> Nat]]
    /\ out \in Seq(Delta) /\ sent \subseteq DOMAIN out /\ batch \subseteq DOMAIN out
    /\ wire \in Seq(DOMAIN out)

CoreOK ==
    /\ at \in Bins \cup {None} /\ epoch \in [Bins -> Epochs] /\ uop \in [Bins -> Int]
    /\ last \in [Bins -> [Epochs -> Nat]] /\ repaired \in [Bins -> 0..MaxEpoch]
    /\ handling \subseteq [row : DOMAIN out, seen : Epochs]
    /\ sending \subseteq Message /\ down \in Seq(Message)

HistoryOK ==
    /\ parts \in Nat /\ gone \in Nat /\ again \in Nat
    /\ applied \subseteq DOMAIN out /\ declared \subseteq DOMAIN out
    /\ recorded \subseteq DOMAIN out /\ heard \subseteq DOMAIN out
    /\ unanswered \in [Bins -> 0..MaxEpoch] /\ discarded \in [Bins -> 0..MaxEpoch]
    /\ stumbled \subseteq DOMAIN out /\ moves \in Nat /\ faults \in Nat

(* The state keeps its types: in particular the accumulator never holds a  *)
(* negative number of parts (flushBins subtracts no more than it sent) and *)
(* every row it queues carries a generation Core has issued.               *)
TypeOK == SlotOK /\ OutboxOK /\ CoreOK /\ HistoryOK

(* Edge's books of parts balance, whatever ticks, flushes, failing writes  *)
(* and pickups interleave: each part is held for the next bin, in the      *)
(* memory of the accumulator or in the outbox, once (applyHoldAndReplay,   *)
(* recordBin, flushBins).  There are two ways to lose one, a restart of    *)
(* Edge with the part in memory and a failed write of the hold, and one    *)
(* way to count some twice, a failed clear of the hold, which leaves the   *)
(* parts just charged to be charged again.                                 *)
PartsConserved ==
    parts + again
        = held + InMemory + SumFunction([i \in DOMAIN out |-> out[i].delta]) + gone

(* Core's count of a bin is its last declaration less the rows applied     *)
(* since, each once, although the outbox repeats rows (claimDeltaSequence  *)
(* and the reset paths share the transaction of the count).                *)
CountIsLedger ==
    \A b \in Bins :
        uop[b] = -SumFunctionOnSet([i \in DOMAIN out |-> out[i].delta],
                                   {i \in applied \ declared : out[i].bin = b})

(* Edge is never ahead of Core: no count carries, and no bound bin is      *)
(* stamped with, a generation Core has not begun.  Core's applier takes a  *)
(* future stamp for an anomaly; here it cannot happen, though stamps reach *)
(* the slot late, out of order and for bins that come and go.              *)
NoFutureStamp ==
    /\ active # None => stamp <= epoch[active]
    /\ \A i \in DOMAIN out : out[i].epoch <= epoch[out[i].bin]

(* A count that Core has handled was applied or is in the discrepancy      *)
(* audit, unless its publish failed, or Core stopped with it in hand, and  *)
(* a later count of the same bin and generation went ahead of it:          *)
(* claimDeltaSequence then takes it for a replay.  Repeats, restarts of    *)
(* Edge and new generations skip nothing.                                  *)
OnlyOvertakenSkipped ==
    \A i \in heard \ (applied \cup recorded) :
        /\ i \in stumbled
        /\ \E j \in applied : /\ j > i /\ out[j].bin = out[i].bin
                              /\ out[j].epoch = out[i].epoch

(* A count that Core has handled was applied or is in the discrepancy      *)
(* audit: the promise protocol/expiry.go makes for late copies.            *)
AppliedOrRecorded == heard \subseteq applied \cup recorded

(* A slot whose counts are discarded for their stamp comes to the current  *)
(* generation or loses the bin: the reply of the stale branch ends the     *)
(* stall, unless that one reply found the slot without the bin, was lost,  *)
(* or went to a node the bin was at meanwhile, or an older notice came     *)
(* after it, since repairEpoch sends it once for each generation.          *)
Stalled(b) ==
    /\ active = b /\ stamp < epoch[b]
    /\ discarded[b] = epoch[b] /\ unanswered[b] # epoch[b]
DiscardIsAnswered == \A b \in Bins : Stalled(b) ~> ~Stalled(b)
=============================================================================
