------------------------------- MODULE Outbox -------------------------------
(***************************************************************************)
(* The transactional outbox and its drainer (protocol/outbox/drainer.go,   *)
(* with the row operations of shingo-core/store/messaging/messaging.go and *)
(* shingo-edge/store/messaging).                                           *)
(*                                                                         *)
(* Producers insert rows; ONE drainer goroutine lists the pending rows in  *)
(* id order and publishes them one by one.  The publish and the ack are    *)
(* two steps, so that a crash or a failing ack between them is a           *)
(* behaviour.  A publish that reports an error may still have reached the  *)
(* broker.                                                                 *)
(*                                                                         *)
(* A core enqueue may run inside a caller's transaction: its id is drawn   *)
(* and the doorbell is rung when the INSERT runs, and the row becomes      *)
(* visible later, when that transaction commits.                           *)
(***************************************************************************)
EXTENDS Integers, Sequences, FiniteSets

CONSTANTS
    MaxRetries,     \* delivery attempts before a row is dead-lettered
    Limit,          \* rows fetched by one drain pass
    MaxId,          \* bound: rows ever enqueued
    MaxRestarts,    \* bound: process restarts
    MaxFaults,      \* bound: disconnected passes and failed row updates
    MaxRequeues,    \* bound: operator requeues of a row
    MaxHits         \* bound: restarts, faults and requeues together

ASSUME OutboxAssumption ==
    /\ MaxRetries \in Nat \ {0}
    /\ Limit \in Nat \ {0}
    /\ MaxId \in Nat /\ MaxRestarts \in Nat
    /\ MaxFaults \in Nat /\ MaxRequeues \in Nat /\ MaxHits \in Nat

VARIABLES
    rows,       \* committed rows: id -> [retries, sent]
    snaps,      \* the ids whose message type is a coalescable snapshot
    nextId,     \* the next id of the outbox sequence
    open,       \* ids inserted by a transaction that has not committed
    taken,      \* the ids the broker has taken at least once
    last,       \* the id it took last (0: none)
    wake,       \* the doorbell channel, of capacity one
    muted,      \* run's local: the last pass saw a publish fail
    pc,         \* where the drainer goroutine is
    byTick,     \* the pass in progress came from the ticker
    batch,      \* ids of the pass in progress still to be published
    failed,     \* drain's result so far
    ticks,      \* history: ticker drains begun since the id was drawn
    restarts,   \* history: number of restarts
    faults,     \* history: number of faults
    requeues,   \* history: number of operator requeues
    stumbled,   \* history: ids of which a publish failed or panicked
    panicked,   \* history: ids of which a publish panicked
    earlier     \* history: the event rows committed when the id was drawn

producers == <<rows, snaps, nextId, open>>
drainer == <<muted, pc, byTick, batch, failed>>
budget == <<restarts, faults, requeues>>
history == <<ticks, stumbled, panicked, earlier>>
broker == <<taken, last>>
vars == <<producers, broker, wake, drainer, budget, history>>

\* The bound on what disturbs one behaviour.
Calm == restarts + faults + requeues < MaxHits

Ids == 1..MaxId
Row == [retries : 0..MaxRetries, sent : BOOLEAN]

\* Mutant: the comparison with the cap is off by one.
PendingAtCap(id) == ~rows[id].sent /\ rows[id].retries <= MaxRetries

\* `sent_at IS NULL AND retries < MaxRetries`
Pending(id) == ~rows[id].sent /\ rows[id].retries < MaxRetries
Dead(id) == ~rows[id].sent /\ rows[id].retries >= MaxRetries

\* ORDER BY id LIMIT Limit: the loop over it takes the least id each time, so
\* the pass is kept as a set.
ListPendingOutbox ==
    LET pending == {id \in DOMAIN rows : Pending(id)}
    IN  {id \in pending : Cardinality({j \in pending : j < id}) < Limit}

\* Mutant: ORDER BY id DESC.
FirstNewest(id) == id \in batch /\ \A j \in batch : id >= j

\* The row of the pass whose turn it is.
First(id) == id \in batch /\ \A j \in batch : id <= j

Without(f, S) == [x \in DOMAIN f \ S |-> f[x]]
With(f, x, v) == [y \in DOMAIN f \cup {x} |-> IF y = x THEN v ELSE f[y]]
Lesser(a, b) == IF a < b THEN a ELSE b

Init ==
    /\ rows = [id \in {} |-> 0] /\ snaps = {} /\ open = {} /\ nextId = 1
    /\ taken = {} /\ last = 0
    /\ wake = FALSE /\ muted = FALSE /\ pc = "select"
    /\ byTick = FALSE /\ batch = {} /\ failed = FALSE
    /\ restarts = 0 /\ faults = 0 /\ requeues = 0
    /\ ticks = [id \in Ids |-> 0] /\ earlier = [id \in Ids |-> {}]
    /\ stumbled = {} /\ panicked = {}

-----------------------------------------------------------------------------
(* Producers.                                                              *)

NewRow == [retries |-> 0, sent |-> FALSE]

\* What every insert does besides the row: it draws the id and rings the bell.
Insert ==
    /\ nextId \in Ids
    /\ nextId' = nextId + 1
    /\ wake' = TRUE
    /\ earlier' = [earlier EXCEPT ![nextId] = DOMAIN rows \ snaps]
    /\ UNCHANGED <<broker, drainer, budget, ticks, stumbled, panicked>>

\* EnqueueOutbox on the pool: one autocommitted INSERT.
Enqueue ==
    /\ Insert
    /\ rows' = With(rows, nextId, NewRow)
    /\ UNCHANGED <<open, snaps>>

\* EnqueueOutbox with a caller's transaction: visible only after its commit.
EnqueueInTx ==
    /\ Insert
    /\ open' = open \cup {nextId}
    /\ UNCHANGED <<rows, snaps>>

CommitTx(id) ==
    /\ id \in open
    /\ rows' = With(rows, id, NewRow)
    /\ open' = open \ {id}
    /\ UNCHANGED <<snaps, nextId, broker, wake, drainer, budget, history>>

RollbackTx(id) ==
    /\ id \in open
    /\ open' = open \ {id}
    /\ UNCHANGED <<rows, snaps, nextId, broker, wake, drainer, budget, history>>

\* EnqueueSnapshot deletes every unsent row of its type, the dead-lettered
\* ones included, and inserts itself, in one transaction.
Superseded == {id \in DOMAIN rows : id \in snaps /\ ~rows[id].sent}

\* Mutant: the unsent predecessors are left in the table.
EnqueueSnapshotKeeping ==
    /\ Insert
    /\ rows' = With(rows, nextId, NewRow)
    /\ snaps' = snaps \cup {nextId}
    /\ UNCHANGED open

EnqueueSnapshot ==
    /\ Insert
    /\ rows' = With(Without(rows, Superseded), nextId, NewRow)
    /\ snaps' = snaps \cup {nextId}
    /\ UNCHANGED open

\* An operator resets the retries of an unsent row.
RequeueOutbox(id) ==
    /\ id \in DOMAIN rows /\ ~rows[id].sent
    /\ requeues < MaxRequeues /\ Calm
    /\ requeues' = requeues + 1
    /\ rows' = [rows EXCEPT ![id].retries = 0]
    /\ UNCHANGED <<snaps, nextId, open, broker, wake, drainer, restarts, faults, history>>

-----------------------------------------------------------------------------
(* The drainer goroutine.                                                  *)

\* Mutant: the doorbell is heard in spite of a failing broker.
TakeWakeUnmuted ==
    /\ pc = "select" /\ wake
    /\ wake' = FALSE
    /\ pc' = "settle"
    /\ UNCHANGED <<producers, broker, muted, byTick, batch, failed, budget, history>>

\* The wake arm: a muted drainer consumes the signal and does nothing.
TakeWake ==
    /\ pc = "select" /\ wake
    /\ wake' = FALSE
    /\ pc' = IF muted THEN "select" ELSE "settle"
    /\ UNCHANGED <<producers, broker, muted, byTick, batch, failed, budget, history>>

\* drain: nothing is listed when the publisher is not connected or the query
\* fails, and the pass then reports no failure.  The tick history saturates at
\* MaxRetries, beyond which it bounds nothing.
BeginDrain(tick) ==
    /\ byTick' = tick
    /\ failed' = FALSE
    /\ pc' = "publish"
    /\ \/ batch' = ListPendingOutbox /\ UNCHANGED faults
       \/ faults < MaxFaults /\ Calm /\ faults' = faults + 1 /\ batch' = {}
    /\ ticks' = IF tick THEN [id \in Ids |-> IF id < nextId
                                             THEN Lesser(ticks[id] + 1, MaxRetries)
                                             ELSE ticks[id]]
                ELSE ticks
    /\ UNCHANGED <<producers, broker, wake, muted, restarts, requeues, stumbled,
                   panicked, earlier>>

SettleDone == pc = "settle" /\ BeginDrain(FALSE)
Tick == pc = "select" /\ BeginDrain(TRUE)

BrokerTakes(id) == taken' = taken \cup {id} /\ last' = id

\* publishOne up to the broker taking the message.
Publish ==
    /\ pc = "publish"
    /\ \E id \in batch : First(id) /\ BrokerTakes(id)
    /\ pc' = "ack"
    /\ UNCHANGED <<producers, wake, muted, byTick, batch, failed, budget, history>>

\* UPDATE of a row that may be gone, by a statement that may fail; both
\* outcomes are only logged.
UpdateRow(id, row) ==
    \/ /\ rows' = IF id \in DOMAIN rows THEN [rows EXCEPT ![id] = row] ELSE rows
       /\ UNCHANGED faults
    \/ faults < MaxFaults /\ Calm /\ faults' = faults + 1 /\ UNCHANGED rows

\* AckOutbox: when it fails the row stays pending and is published again.
Ack ==
    /\ pc = "ack"
    /\ \E id \in batch :
          /\ First(id)
          /\ UpdateRow(id, [rows[id] EXCEPT !.sent = TRUE])
          /\ batch' = batch \ {id}
    /\ pc' = "publish"
    /\ UNCHANGED <<snaps, nextId, open, broker, wake, muted, byTick, failed, restarts,
                   requeues, history>>

\* publishOne's failures: the loop goes on to the next message of the pass.
\* The message may have reached the broker all the same.
PublishFails(id) ==
    /\ pc = "publish"
    /\ First(id)
    /\ BrokerTakes(id) \/ UNCHANGED broker
    /\ stumbled' = stumbled \cup {id}
    /\ failed' = TRUE
    /\ batch' = batch \ {id}
    /\ UNCHANGED <<snaps, nextId, open, wake, muted, pc, byTick, restarts, requeues,
                   ticks, earlier>>

\* Mutant: the failed attempt is not counted.
PublishErrorUncounted ==
    \E id \in batch : PublishFails(id) /\ UNCHANGED <<rows, faults, panicked>>

\* A publish error: IncrementOutboxRetries.  (A listed row is below the cap
\* and only this goroutine raises it.)
PublishError ==
    \E id \in batch :
        /\ PublishFails(id)
        /\ UpdateRow(id, [rows[id] EXCEPT !.retries = @ + 1])
        /\ UNCHANGED panicked

\* A panic in Publish is recovered and the row is dead-lettered at once.
PublishPanic ==
    \E id \in batch :
        /\ PublishFails(id)
        /\ UpdateRow(id, [rows[id] EXCEPT !.retries = MaxRetries])
        /\ panicked' = panicked \cup {id}

\* Mutant: age alone decides.
PurgeAnyOutbox == \E old \in SUBSET DOMAIN rows : rows' = Without(rows, old)

\* Every PurgeCycleInterval-th ticker pass ends by deleting the delivered and
\* the dead-lettered rows past their retention.
PurgeOldOutbox ==
    \E old \in SUBSET {id \in DOMAIN rows : rows[id].sent \/ Dead(id)} :
        rows' = Without(rows, old)

EndDrain ==
    /\ pc = "publish" /\ batch = {}
    /\ muted' = failed
    /\ pc' = "select"
    /\ IF byTick THEN PurgeOldOutbox ELSE UNCHANGED rows
    /\ UNCHANGED <<snaps, nextId, open, broker, wake, byTick, batch, failed, budget,
                   history>>

\* The process dies and comes back: the goroutine's locals, the doorbell and
\* the open transactions are gone, the rows and the broker stay.
Restart ==
    /\ restarts < MaxRestarts /\ Calm
    /\ restarts' = restarts + 1
    /\ wake' = FALSE /\ muted' = FALSE /\ pc' = "select"
    /\ byTick' = FALSE /\ batch' = {} /\ failed' = FALSE
    /\ open' = {}
    /\ UNCHANGED <<rows, snaps, nextId, broker, faults, requeues, history>>

DrainStep == SettleDone \/ Publish \/ Ack \/ PublishError \/ PublishPanic \/ EndDrain

Next ==
    \/ Enqueue \/ EnqueueInTx \/ EnqueueSnapshot
    \/ \E id \in Ids : CommitTx(id) \/ RollbackTx(id) \/ RequeueOutbox(id)
    \/ TakeWake \/ Tick \/ DrainStep
    \/ Restart

Spec == Init /\ [][Next]_vars

\* The goroutine keeps running (it recovers from panics) and its ticker keeps
\* firing: Go's select picks among ready arms at random, so a bell that keeps
\* ringing cannot starve the ticker for ever.
FairSpec == Spec /\ WF_vars(DrainStep) /\ SF_vars(Tick)

-----------------------------------------------------------------------------
(* Properties.                                                             *)

TableOK ==
    /\ DOMAIN rows \subseteq Ids /\ rows \in [DOMAIN rows -> Row]
    /\ snaps \subseteq Ids /\ open \subseteq Ids /\ nextId \in 1..(MaxId + 1)

BrokerOK == taken \subseteq Ids /\ last \in Ids \cup {0}

DrainerOK ==
    /\ wake \in BOOLEAN /\ muted \in BOOLEAN /\ byTick \in BOOLEAN /\ failed \in BOOLEAN
    /\ pc \in {"select", "settle", "publish", "ack"}
    /\ batch \subseteq Ids

BudgetOK ==
    restarts \in 0..MaxRestarts /\ faults \in 0..MaxFaults /\ requeues \in 0..MaxRequeues

HistoryOK ==
    /\ stumbled \subseteq Ids /\ panicked \subseteq Ids
    /\ ticks \in [Ids -> 0..MaxRetries]
    /\ earlier \in [Ids -> SUBSET Ids]

(* The table and the drainer's locals stay in their types; in particular   *)
(* no row's retry count passes MaxRetries.                                 *)
TypeOK == TableOK /\ BrokerOK /\ DrainerOK /\ BudgetOK /\ HistoryOK

(* A row's retry budget is spent at the ticker's pace, however often the   *)
(* doorbell rings: a doorbell drain may add one attempt, and after a       *)
(* failure no other until a ticker drain has passed without one (muted in  *)
(* run).  Each restart forgets the mute and may cost one more.             *)
RetriesPacedByTicker ==
    \A id \in DOMAIN rows :
        id \in panicked \/ rows[id].retries <= ticks[id] + restarts + 1

(* An event row committed before another was inserted reaches the broker   *)
(* before it, unless one of its own publishes failed: what the single      *)
(* drainer and ORDER BY id give in spite of batches, unacked rows,         *)
(* restarts and transactions that commit late.                             *)
FirstDeliveryInOrder ==
    \A id \in taken : earlier[id] \subseteq taken \cup stumbled

(* A receiver never sees an older snapshot after a newer one, although     *)
(* publishes fail, are repeated and are not acked: EnqueueSnapshot deletes *)
(* every unsent predecessor in its own transaction.                        *)
SnapshotsNeverRegress ==
    last \in snaps => \A id \in taken \cap snaps : id <= last

(* A row leaves the table only after it was delivered, after it was        *)
(* dead-lettered, or because a newer snapshot takes its place: PurgeOldOutbox *)
(* and EnqueueSnapshot never delete a message that is still owed.          *)
RowsLeaveSettled ==
    [][\A id \in DOMAIN rows \ DOMAIN rows' :
          \/ id \in taken
          \/ Dead(id)
          \/ id \in snaps /\ \E n \in snaps' \cap DOMAIN rows' : n > id]_vars

(* Every pending row is eventually delivered, dead-lettered or superseded: *)
(* nothing ahead of it, and no bounded run of faults, can hold it in the   *)
(* table for ever (drain does not stop at a failing message).              *)
PendingSettles ==
    \A id \in Ids : (id \in DOMAIN rows /\ Pending(id))
                    ~> ~(id \in DOMAIN rows /\ Pending(id))
=============================================================================
