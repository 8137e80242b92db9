---------------------------- MODULE OutboxProofs ----------------------------
(***************************************************************************)
(* Proofs about the outbox drainer, for every number of rows, retries,     *)
(* batch sizes, faults and restarts.                                       *)
(***************************************************************************)
EXTENDS Outbox, FiniteSetTheorems, TLAPS

\* Every id in the table, or about to be, was drawn from the sequence.
Drawn == \A id \in DOMAIN rows \cup open : id < nextId

\* A listed row stays below the cap until the pass has dealt with it.
BatchBelowCap == \A id \in batch \cap DOMAIN rows : rows[id].retries < MaxRetries

\* The attempts an id may be ahead of the ticker: in a pass, one if the pass
\* has failed and is done with the id; between passes, one while muted.
Grace(id) ==
    IF pc \in {"publish", "ack"}
    THEN IF failed /\ id \notin batch THEN 1 ELSE 0
    ELSE IF muted THEN 1 ELSE 0

Paced ==
    /\ pc = "settle" => ~muted
    /\ \A id \in DOMAIN rows :
          id \in panicked \/ rows[id].retries <= ticks[id] + restarts + Grace(id)

IInv == TypeOK /\ Drawn /\ BatchBelowCap

\* The empty table and the idle drainer satisfy the invariant.
LEMMA InitIInv == Init => IInv /\ Paced
<1> SUFFICES ASSUME Init PROVE IInv /\ Paced
  OBVIOUS
<1>1. DOMAIN rows = {} /\ rows \in [DOMAIN rows -> Row]
  BY Zenon DEF Init
<1>2. TableOK /\ BrokerOK /\ BudgetOK
  BY <1>1, OutboxAssumption DEF Init, TableOK, BrokerOK, BudgetOK, Ids
<1>3. DrainerOK
  BY Zenon DEF Init, DrainerOK
<1>4. HistoryOK
  BY OutboxAssumption DEF Init, HistoryOK
<1>5. Drawn /\ BatchBelowCap /\ Paced
  BY <1>1, Zenon DEF Init, Drawn, BatchBelowCap, Paced
<1> QED
  BY <1>2, <1>3, <1>4, <1>5, Zenon DEF IInv, TypeOK

-----------------------------------------------------------------------------
(* The row operations.                                                     *)

\* The row an INSERT writes.
LEMMA NewRowType == NewRow \in Row /\ NewRow.retries = 0
BY OutboxAssumption DEF NewRow, Row

\* The table after the INSERT of a fresh row.
Inserted(id) ==
    /\ DOMAIN rows' = DOMAIN rows \cup {id} /\ rows' \in [DOMAIN rows' -> Row]
    /\ rows'[id] = NewRow
    /\ \A y \in DOMAIN rows : y # id => rows'[y] = rows[y]

\* What With does to the table.
LEMMA InsertRow ==
    ASSUME TableOK, NEW id, rows' = With(rows, id, NewRow) PROVE Inserted(id)
<1>1. rows \in [DOMAIN rows -> Row]
  BY Zenon DEF TableOK
<1>2. /\ DOMAIN With(rows, id, NewRow) = DOMAIN rows \cup {id}
      /\ With(rows, id, NewRow) \in [DOMAIN rows \cup {id} -> Row]
      /\ With(rows, id, NewRow)[id] = NewRow
      /\ \A y \in DOMAIN rows : y # id => With(rows, id, NewRow)[y] = rows[y]
  BY <1>1, NewRowType, Zenon DEF With
<1> QED
  BY <1>2, Zenon DEF Inserted

\* An UPDATE changes at most the row it names.
LEMMA UpdatedRow ==
    ASSUME TableOK, NEW id \in Ids, NEW row, UpdateRow(id, row),
           id \in DOMAIN rows => row \in Row
    PROVE  /\ DOMAIN rows' = DOMAIN rows
           /\ rows' \in [DOMAIN rows -> Row]
           /\ \A y \in DOMAIN rows : rows'[y] = rows[y] \/ (y = id /\ rows'[y] = row)
<1>1. CASE rows' = rows
  BY <1>1, Zenon DEF TableOK
<1>2. CASE id \in DOMAIN rows /\ rows' = [rows EXCEPT ![id] = row]
  BY <1>2, Zenon DEF TableOK
<1> QED
  BY <1>1, <1>2, Zenon DEF UpdateRow

\* What a drain pass lists is pending.
LEMMA ListedPending ==
    ListPendingOutbox \subseteq {id \in DOMAIN rows : rows[id].retries < MaxRetries}
BY Zenon DEF ListPendingOutbox, Pending

-----------------------------------------------------------------------------
(* Every step preserves the invariant.                                     *)

\* The part of the invariant that the rows and the sequence make up.
TableInv == TableOK /\ Drawn /\ BatchBelowCap

\* A producer's or an operator's step.
ProducerStep ==
    \/ Enqueue \/ EnqueueInTx \/ EnqueueSnapshot
    \/ \E id \in Ids : CommitTx(id) \/ RollbackTx(id) \/ RequeueOutbox(id)

\* Inserts, commits and operator requeues keep the table well formed.
LEMMA ProducerTable == IInv /\ ProducerStep => TableInv'
<1> SUFFICES ASSUME IInv, ProducerStep PROVE TableInv'
  OBVIOUS
<1> USE OutboxAssumption DEF IInv, TypeOK, TableOK, Drawn, BatchBelowCap, TableInv
<1>1. CASE Enqueue
  <2>1. /\ rows' = With(rows, nextId, NewRow) /\ nextId \in Ids /\ nextId' = nextId + 1
        /\ UNCHANGED <<open, snaps, batch>>
    BY <1>1, Zenon DEF Enqueue, Insert, drainer
  <2>2. Inserted(nextId)
    BY <2>1, InsertRow, Zenon
  <2> QED
    BY <2>1, <2>2, NewRowType DEF Ids, Inserted
<1>2. CASE EnqueueInTx
  BY <1>2 DEF EnqueueInTx, Insert, Ids, drainer
<1>3. CASE EnqueueSnapshot
  <2> DEFINE kept == Without(rows, Superseded)
  <2>1. /\ rows' = With(kept, nextId, NewRow) /\ nextId \in Ids /\ nextId' = nextId + 1
        /\ snaps' = snaps \cup {nextId} /\ UNCHANGED <<open, batch>>
    BY <1>3, Zenon DEF EnqueueSnapshot, Insert, drainer
  <2>2. /\ DOMAIN kept = DOMAIN rows \ Superseded /\ kept \in [DOMAIN kept -> Row]
        /\ \A y \in DOMAIN kept : kept[y] = rows[y]
    <3>1. rows \in [DOMAIN rows -> Row]
      OBVIOUS
    <3> QED
      BY <3>1, Zenon DEF Without
  <2> HIDE DEF kept
  <2>3. /\ DOMAIN rows' = DOMAIN kept \cup {nextId} /\ rows' \in [DOMAIN rows' -> Row]
        /\ rows'[nextId] = NewRow
        /\ \A y \in DOMAIN kept : y # nextId => rows'[y] = rows[y]
    BY <2>1, <2>2, NewRowType, Zenon DEF With
  <2> QED
    BY <2>1, <2>2, <2>3, NewRowType DEF Ids
<1>4. ASSUME NEW id \in Ids, CommitTx(id) PROVE TableInv'
  <2>1. rows' = With(rows, id, NewRow) /\ id \in open /\ open' = open \ {id}
        /\ UNCHANGED <<snaps, nextId, batch>>
    BY <1>4, Zenon DEF CommitTx, drainer
  <2>2. Inserted(id)
    BY <2>1, InsertRow, Zenon
  <2> QED
    BY <2>1, <2>2, NewRowType DEF Ids, Inserted
<1>5. ASSUME NEW id \in Ids, RollbackTx(id) PROVE TableInv'
  BY <1>5, Zenon DEF RollbackTx, drainer
<1>6. ASSUME NEW id \in Ids, RequeueOutbox(id) PROVE TableInv'
  <2>1. rows' = [rows EXCEPT ![id].retries = 0] /\ id \in DOMAIN rows
        /\ UNCHANGED <<snaps, nextId, open, batch>>
    BY <1>6, Zenon DEF RequeueOutbox, drainer
  <2>2. [rows[id] EXCEPT !.retries = 0] \in Row
    BY <2>1 DEF Row
  <2> QED
    BY <2>1, <2>2 DEF Row
<1> QED
  BY <1>1, <1>2, <1>3, <1>4, <1>5, <1>6, Zenon DEF ProducerStep

\* So do the drainer's steps and a restart: a counted attempt stays within the
\* cap because the row was listed below it.
LEMMA DrainerTable == IInv /\ (TakeWake \/ Tick \/ DrainStep \/ Restart) => TableInv'
<1> SUFFICES ASSUME IInv, TakeWake \/ Tick \/ DrainStep \/ Restart PROVE TableInv'
  OBVIOUS
<1> USE OutboxAssumption DEF IInv, TypeOK, Drawn, BatchBelowCap, TableInv
<1>1. CASE TakeWake
  BY <1>1, Zenon DEF TakeWake, TableOK, producers
<1>2. ASSUME NEW tick \in BOOLEAN, BeginDrain(tick) PROVE TableInv'
  <2>1. UNCHANGED <<rows, snaps, nextId, open>>
    BY <1>2, Zenon DEF BeginDrain, producers
  <2>2. batch' \subseteq {id \in DOMAIN rows : rows[id].retries < MaxRetries}
    BY <1>2, ListedPending, Zenon DEF BeginDrain
  <2> QED
    BY <2>1, <2>2, Zenon DEF TableOK
<1>3. CASE Publish
  BY <1>3, Zenon DEF Publish, TableOK, producers
<1>4. ASSUME NEW id \in batch, NEW row, UpdateRow(id, row), batch' = batch \ {id},
             UNCHANGED <<snaps, nextId, open>>, id \in DOMAIN rows => row \in Row
      PROVE  TableInv'
  <2>1. /\ DOMAIN rows' = DOMAIN rows /\ rows' \in [DOMAIN rows -> Row]
        /\ \A y \in DOMAIN rows : y # id => rows'[y] = rows[y]
    BY <1>4, UpdatedRow, Zenon DEF DrainerOK
  <2> QED
    BY <1>4, <2>1, Zenon DEF TableOK
<1>5. \A id \in DOMAIN rows : /\ rows[id] \in Row
                              /\ [rows[id] EXCEPT !.sent = TRUE] \in Row
                              /\ [rows[id] EXCEPT !.retries = MaxRetries] \in Row
                              /\ id \in batch => [rows[id] EXCEPT !.retries = @ + 1] \in Row
  <2> SUFFICES ASSUME NEW id \in DOMAIN rows
               PROVE  /\ rows[id] \in Row
                      /\ [rows[id] EXCEPT !.sent = TRUE] \in Row
                      /\ [rows[id] EXCEPT !.retries = MaxRetries] \in Row
                      /\ id \in batch => [rows[id] EXCEPT !.retries = @ + 1] \in Row
    OBVIOUS
  <2> DEFINE r == rows[id]
  <2>1. r \in Row /\ (id \in batch => r.retries + 1 \in 0..MaxRetries)
    BY DEF TableOK, Row
  <2> HIDE DEF r
  <2>2. [r EXCEPT !.sent = TRUE] \in Row
    BY <2>1, Zenon DEF Row
  <2>3. \A n \in 0..MaxRetries : [r EXCEPT !.retries = n] \in Row
    BY <2>1, Zenon DEF Row
  <2>4. MaxRetries \in 0..MaxRetries
    OBVIOUS
  <2> QED
    BY <2>1, <2>2, <2>3, <2>4, Zenon DEF r
<1>6. CASE Ack
  <2>1. PICK id \in batch : /\ UpdateRow(id, [rows[id] EXCEPT !.sent = TRUE])
                            /\ batch' = batch \ {id}
    BY <1>6, Zenon DEF Ack
  <2> QED
    BY <1>4, <1>5, <1>6, <2>1, Zenon DEF Ack
<1>7. CASE PublishError
  <2>1. PICK id \in batch : /\ UpdateRow(id, [rows[id] EXCEPT !.retries = @ + 1])
                            /\ PublishFails(id)
    BY <1>7, Zenon DEF PublishError
  <2> QED
    BY <1>4, <1>5, <2>1, Zenon DEF PublishFails
<1>8. CASE PublishPanic
  <2>1. PICK id \in batch : /\ UpdateRow(id, [rows[id] EXCEPT !.retries = MaxRetries])
                            /\ PublishFails(id)
    BY <1>8, Zenon DEF PublishPanic
  <2> QED
    BY <1>4, <1>5, <2>1, Zenon DEF PublishFails
<1>9. CASE EndDrain
  <2>1. /\ batch = {} /\ batch' = batch
        /\ UNCHANGED <<snaps, nextId, open>>
    BY <1>9, Zenon DEF EndDrain
  <2>2. \/ rows' = rows
        \/ \E old \in SUBSET DOMAIN rows : rows' = Without(rows, old)
    BY <1>9, Zenon DEF EndDrain, PurgeOldOutbox
  <2>3. DOMAIN rows' \subseteq DOMAIN rows /\ rows' \in [DOMAIN rows' -> Row]
    BY <2>2, Zenon DEF Without, TableOK
  <2> QED
    BY <2>1, <2>3, Zenon DEF TableOK
<1>10. CASE Restart
  BY <1>10, Zenon DEF Restart, TableOK
<1> QED
  BY <1>1, <1>2, <1>3, <1>6, <1>7, <1>8, <1>9, <1>10, Zenon DEF Tick, DrainStep, SettleDone

\* The drainer's locals, the broker, the budgets and the histories stay typed.
LEMMA RestTyped ==
    IInv /\ Next => BrokerOK' /\ DrainerOK' /\ BudgetOK' /\ HistoryOK'
<1> SUFFICES ASSUME IInv, Next PROVE BrokerOK' /\ DrainerOK' /\ BudgetOK' /\ HistoryOK'
  OBVIOUS
<1> USE DEF IInv, TypeOK
<1>1. BrokerOK'
  BY Zenon DEF Next, DrainStep, BrokerOK, DrainerOK, TableOK, broker, Enqueue, EnqueueInTx,
     EnqueueSnapshot, Insert, CommitTx, RollbackTx, RequeueOutbox, TakeWake, Tick,
     SettleDone, BeginDrain, Publish, BrokerTakes, Ack, PublishError, PublishPanic,
     PublishFails, EndDrain, Restart
<1>2. BudgetOK'
  <2>1. \/ UNCHANGED <<restarts, faults, requeues>>
        \/ restarts < MaxRestarts /\ restarts' = restarts + 1 /\ UNCHANGED <<faults, requeues>>
        \/ faults < MaxFaults /\ faults' = faults + 1 /\ UNCHANGED <<restarts, requeues>>
        \/ requeues < MaxRequeues /\ requeues' = requeues + 1 /\ UNCHANGED <<restarts, faults>>
    BY ZenonT(40)
       DEF Next, DrainStep, budget, Enqueue, EnqueueInTx, EnqueueSnapshot, Insert, CommitTx,
       RollbackTx, RequeueOutbox, TakeWake, Tick, SettleDone, BeginDrain, Publish, Ack,
       PublishError, PublishPanic, UpdateRow, PublishFails, EndDrain, Restart
  <2> QED
    BY <2>1, OutboxAssumption DEF BudgetOK
<1>3. batch' \subseteq Ids
  BY ListedPending, Zenon
     DEF Next, DrainStep, DrainerOK, TableOK, drainer, Enqueue, EnqueueInTx,
     EnqueueSnapshot, Insert, CommitTx, RollbackTx, RequeueOutbox, TakeWake, Tick,
     SettleDone, BeginDrain, Publish, Ack, PublishError, PublishPanic,
     PublishFails, EndDrain, Restart
<1>4. /\ wake' \in BOOLEAN /\ muted' \in BOOLEAN /\ byTick' \in BOOLEAN
      /\ failed' \in BOOLEAN /\ pc' \in {"select", "settle", "publish", "ack"}
  BY ZenonT(40)
     DEF Next, DrainStep, DrainerOK, drainer, Enqueue, EnqueueInTx,
     EnqueueSnapshot, Insert, CommitTx, RollbackTx, RequeueOutbox, TakeWake, Tick,
     SettleDone, BeginDrain, Publish, Ack, PublishError, PublishPanic,
     PublishFails, EndDrain, Restart
<1>5. HistoryOK'
  <2>1. stumbled' \subseteq Ids /\ panicked' \subseteq Ids
    BY Zenon DEF Next, DrainStep, HistoryOK, DrainerOK, history, Enqueue, EnqueueInTx,
       EnqueueSnapshot, Insert, CommitTx, RollbackTx, RequeueOutbox, TakeWake, Tick,
       SettleDone, BeginDrain, Publish, Ack, PublishError, PublishPanic,
       PublishFails, EndDrain, Restart
  <2>2. ticks' \in [Ids -> 0..MaxRetries]
    <3>1. \A id \in Ids : Lesser(ticks[id] + 1, MaxRetries) \in 0..MaxRetries
      BY OutboxAssumption DEF HistoryOK, Lesser
    <3> QED
      BY <3>1, Zenon DEF Next, DrainStep, HistoryOK, history, Enqueue, EnqueueInTx,
         EnqueueSnapshot, Insert, CommitTx, RollbackTx, RequeueOutbox, TakeWake, Tick,
         SettleDone, BeginDrain, Publish, Ack, PublishError, PublishPanic,
         PublishFails, EndDrain, Restart
  <2>3. earlier' \in [Ids -> SUBSET Ids]
    BY Zenon DEF Next, DrainStep, HistoryOK, TableOK, history, Enqueue, EnqueueInTx,
       EnqueueSnapshot, Insert, CommitTx, RollbackTx, RequeueOutbox, TakeWake, Tick,
       SettleDone, BeginDrain, Publish, Ack, PublishError, PublishPanic,
       PublishFails, EndDrain, Restart
  <2> QED
    BY <2>1, <2>2, <2>3, Zenon DEF HistoryOK
<1> QED
  BY <1>1, <1>2, <1>3, <1>4, <1>5, Zenon DEF DrainerOK

\* IInv is inductive.
LEMMA NextIInv == IInv /\ [Next]_vars => IInv'
<1> SUFFICES ASSUME IInv, [Next]_vars PROVE IInv'
  OBVIOUS
<1>1. CASE Next
  <2>1. TableInv'
    BY <1>1, ProducerTable, DrainerTable, Zenon DEF Next, ProducerStep
  <2> QED
    BY <1>1, <2>1, RestTyped, Zenon DEF IInv, TypeOK, TableInv
<1>2. CASE UNCHANGED vars
  BY <1>2, Zenon DEF vars, producers, drainer, budget, history, broker, IInv, TypeOK, TableOK,
     BrokerOK, DrainerOK, BudgetOK, HistoryOK, Drawn, BatchBelowCap
<1> QED
  BY <1>1, <1>2, Zenon

\* The outbox keeps its types, and no row is retried past the cap (Outbox).
THEOREM TypeCorrect == Spec => []TypeOK
<1>1. Init => IInv
  BY InitIInv, Zenon
<1>2. IInv /\ [Next]_vars => IInv'
  BY NextIInv, Zenon
<1>3. IInv => TypeOK
  BY Zenon DEF IInv
<1> QED
  BY <1>1, <1>2, <1>3, PTL DEF Spec

-----------------------------------------------------------------------------
(* The pace of the retries.                                                *)

\* Nothing that leaves the drainer where it is adds an attempt.
LEMMA PacedKept ==
    ASSUME IInv, Paced, UNCHANGED <<pc, muted, failed, batch, ticks, restarts, panicked>>,
           \A id \in DOMAIN rows' : \/ id \in DOMAIN rows /\ rows'[id].retries <= rows[id].retries
                                    \/ rows'[id].retries = 0,
           rows' \in [DOMAIN rows' -> Row], DOMAIN rows' \subseteq Ids
    PROVE  Paced'
<1> SUFFICES ASSUME NEW id \in DOMAIN rows', id \notin panicked
             PROVE  rows'[id].retries <= ticks[id] + restarts + Grace(id)
  BY Zenon DEF Paced, Grace
<1>1. /\ rows'[id].retries \in Nat /\ ticks[id] \in Nat /\ restarts \in Nat
      /\ Grace(id) \in {0, 1}
  BY OutboxAssumption DEF IInv, TypeOK, HistoryOK, BudgetOK, Grace, Row
<1>2. CASE rows'[id].retries = 0
  BY <1>1, <1>2
<1>3. CASE id \in DOMAIN rows /\ rows'[id].retries <= rows[id].retries
  <2>1. rows[id].retries \in Nat
    BY <1>3, OutboxAssumption DEF IInv, TypeOK, TableOK, Row
  <2>2. rows[id].retries <= ticks[id] + restarts + Grace(id)
    BY <1>3, Zenon DEF Paced
  <2> QED
    BY <1>1, <1>3, <2>1, <2>2
<1> QED
  BY <1>2, <1>3, Zenon

\* Producers and operators add no attempt.
LEMMA ProducerPaced == IInv /\ Paced /\ ProducerStep => Paced'
<1> SUFFICES ASSUME IInv, Paced, ProducerStep PROVE Paced'
  OBVIOUS
<1>1. TableOK' /\ TableOK
  BY ProducerTable, Zenon DEF TableInv, IInv, TypeOK
<1>2. UNCHANGED <<pc, muted, failed, batch, ticks, restarts, panicked>>
  BY Zenon DEF ProducerStep, Enqueue, EnqueueInTx, EnqueueSnapshot, Insert, CommitTx, RollbackTx,
     RequeueOutbox, drainer, budget, history
<1>3. \A id \in DOMAIN rows' : \/ id \in DOMAIN rows /\ rows'[id].retries <= rows[id].retries
                               \/ rows'[id].retries = 0
  <2>1. ASSUME NEW n, rows' = With(rows, n, NewRow)
        PROVE  \A id \in DOMAIN rows' : \/ id \in DOMAIN rows /\ rows'[id] = rows[id]
                                        \/ rows'[id].retries = 0
    BY <1>1, <2>1, InsertRow, NewRowType, Zenon DEF Inserted
  <2>2. CASE rows' = With(Without(rows, Superseded), nextId, NewRow)
    BY <1>1, <2>2, NewRowType, OutboxAssumption DEF With, Without, TableOK, Row
  <2>3. ASSUME NEW n \in DOMAIN rows, rows' = [rows EXCEPT ![n].retries = 0]
        PROVE  \A id \in DOMAIN rows' : \/ id \in DOMAIN rows /\ rows'[id] = rows[id]
                                        \/ rows'[id].retries = 0
    BY <1>1, <2>3, Zenon DEF TableOK, Row
  <2>4. \A id \in DOMAIN rows : rows[id].retries \in Int
    BY <1>1, OutboxAssumption DEF TableOK, Row
  <2>5. \/ rows' = rows
        \/ \E n : rows' = With(rows, n, NewRow)
        \/ rows' = With(Without(rows, Superseded), nextId, NewRow)
        \/ \E n \in DOMAIN rows : rows' = [rows EXCEPT ![n].retries = 0]
    BY Zenon DEF ProducerStep, Enqueue, EnqueueInTx, EnqueueSnapshot, CommitTx, RollbackTx,
       RequeueOutbox
  <2> QED
    BY <2>1, <2>2, <2>3, <2>4, <2>5
<1> QED
  BY <1>1, <1>2, <1>3, PacedKept, Zenon DEF TableOK

\* One step of the drainer adds at most one attempt to a row it takes out of the
\* batch, and lends it the grace for it by marking the pass as failed.
LEMMA DrainerPaced == IInv /\ Paced /\ (TakeWake \/ Tick \/ DrainStep \/ Restart) => Paced'
<1> SUFFICES ASSUME IInv, Paced, TakeWake \/ Tick \/ DrainStep \/ Restart PROVE Paced'
  OBVIOUS
<1>0. /\ \A id \in DOMAIN rows : rows[id].retries \in 0..MaxRetries /\ ticks[id] \in Nat
      /\ restarts \in Nat /\ MaxRetries \in Nat
      /\ DOMAIN rows \subseteq Ids
  BY OutboxAssumption DEF IInv, TypeOK, TableOK, HistoryOK, BudgetOK, Row
<1>1. CASE TakeWake
  <2>1. UNCHANGED <<rows, failed, batch, ticks, restarts, panicked, muted>>
    BY <1>1, Zenon DEF TakeWake, producers, budget, history
  <2>2. pc = "select" /\ pc' \in {"select", "settle"} /\ (pc' = "settle" => ~muted)
    BY <1>1, Zenon DEF TakeWake
  <2> QED
    BY <2>1, <2>2, Zenon DEF Paced, Grace
<1>2. CASE Tick
  <2>1. /\ UNCHANGED <<rows, restarts, panicked>> /\ ~failed' /\ pc' = "publish"
        /\ pc = "select"
        /\ ticks' = [id \in Ids |-> IF id < nextId THEN Lesser(ticks[id] + 1, MaxRetries)
                                                   ELSE ticks[id]]
    BY <1>2, Zenon DEF Tick, BeginDrain, producers
  <2>2. \A id \in DOMAIN rows : ticks'[id] = ticks[id] + 1 \/ ticks'[id] = MaxRetries
    BY <1>0, <2>1, Zenon DEF IInv, Drawn, Lesser
  <2>3. \A id \in DOMAIN rows : Grace(id) \in {0, 1} /\ Grace(id)' = 0
    BY <2>1, Zenon DEF Grace
  <2>4. ASSUME NEW id \in DOMAIN rows, id \notin panicked
        PROVE  rows[id].retries <= ticks'[id] + restarts
    <3>1. rows[id].retries <= ticks[id] + restarts + Grace(id)
      BY <2>4, Zenon DEF Paced
    <3>2. rows[id].retries \in 0..MaxRetries /\ ticks[id] \in Nat /\ Grace(id) \in {0, 1}
          /\ (ticks'[id] = ticks[id] + 1 \/ ticks'[id] = MaxRetries)
      BY <1>0, <2>2, <2>3, Zenon
    <3> QED
      BY <1>0, <3>1, <3>2
  <2>5. \A id \in DOMAIN rows' :
           id \in panicked' \/ rows'[id].retries <= ticks'[id] + restarts' + Grace(id)'
    <3> SUFFICES ASSUME NEW id \in DOMAIN rows, id \notin panicked
                 PROVE  rows[id].retries <= ticks'[id] + restarts + 0
      BY <2>1, <2>3, Zenon
    <3> QED
      BY <1>0, <2>2, <2>4
  <2> QED
    BY <2>1, <2>5, Zenon DEF Paced
<1>3. CASE SettleDone
  <2>1. /\ UNCHANGED <<rows, restarts, panicked, ticks>> /\ ~failed' /\ pc' = "publish"
        /\ pc = "settle"
    BY <1>3, Zenon DEF SettleDone, BeginDrain, producers
  <2>2. \A id \in DOMAIN rows : Grace(id) = 0 /\ Grace(id)' = 0
    BY <2>1, Zenon DEF Grace, Paced
  <2> QED
    BY <1>0, <2>1, <2>2, Zenon DEF Paced
<1>4. CASE Publish
  <2>1. UNCHANGED <<rows, failed, batch, ticks, restarts, panicked, muted>>
    BY <1>4, Zenon DEF Publish, producers, budget, history
  <2>2. pc = "publish" /\ pc' = "ack"
    BY <1>4, Zenon DEF Publish
  <2> QED
    BY <2>1, <2>2, Zenon DEF Paced, Grace
<1>5. CASE Ack
  <2>1. PICK id \in batch : /\ UpdateRow(id, [rows[id] EXCEPT !.sent = TRUE])
                            /\ batch' = batch \ {id}
    BY <1>5, Zenon DEF Ack
  <2>2. /\ UNCHANGED <<failed, ticks, restarts, panicked>> /\ pc = "ack" /\ pc' = "publish"
    BY <1>5, Zenon DEF Ack, history
  <2>3. DOMAIN rows' = DOMAIN rows /\ \A y \in DOMAIN rows : rows'[y].retries = rows[y].retries
    BY <2>1, SMTT(20) DEF UpdateRow, IInv, TypeOK, TableOK, Row
  <2>4. \A y \in DOMAIN rows : Grace(y) \in {0, 1} /\ Grace(y)' \in {0, 1} /\ Grace(y) <= Grace(y)'
    BY <2>1, <2>2 DEF Grace
  <2> QED
    BY <1>0, <2>2, <2>3, <2>4 DEF Paced
<1>6. CASE PublishError \/ PublishPanic
  <2>1. PICK id \in batch :
           /\ PublishFails(id)
           /\ \/ UpdateRow(id, [rows[id] EXCEPT !.retries = @ + 1]) /\ panicked' = panicked
              \/ /\ UpdateRow(id, [rows[id] EXCEPT !.retries = MaxRetries])
                 /\ panicked' = panicked \cup {id}
    BY <1>6, Zenon DEF PublishError, PublishPanic
  <2>2. /\ UNCHANGED <<ticks, restarts, pc>> /\ pc = "publish" /\ failed'
        /\ batch' = batch \ {id}
    BY <2>1, Zenon DEF PublishFails
  <2>3. /\ DOMAIN rows' = DOMAIN rows
        /\ \A y \in DOMAIN rows :
              \/ rows'[y].retries = rows[y].retries
              \/ y = id /\ id \in panicked'
              \/ y = id /\ rows'[y].retries = rows[y].retries + 1
    BY <2>1 DEF UpdateRow, IInv, TypeOK, TableOK, Row
  <2>4. \A y \in DOMAIN rows :
           /\ Grace(y) \in {0, 1} /\ Grace(y)' \in {0, 1} /\ Grace(y) <= Grace(y)'
           /\ y = id => Grace(y) = 0 /\ Grace(y)' = 1
    BY <2>2 DEF Grace
  <2>5. panicked \subseteq panicked'
    BY <2>1, Zenon
  <2> QED
    BY <1>0, <2>2, <2>3, <2>4, <2>5 DEF Paced
<1>7. CASE EndDrain
  <2>1. /\ UNCHANGED <<ticks, restarts, panicked>> /\ pc = "publish" /\ pc' = "select"
        /\ batch = {} /\ muted' = failed
    BY <1>7, Zenon DEF EndDrain, budget, history
  <2>2. DOMAIN rows' \subseteq DOMAIN rows /\ \A y \in DOMAIN rows' : rows'[y] = rows[y]
    BY <1>7, Zenon DEF EndDrain, PurgeOldOutbox, Without
  <2>3. \A y \in DOMAIN rows : Grace(y)' = Grace(y)
    BY <2>1, Zenon DEF Grace
  <2>4. \A y \in DOMAIN rows' :
           y \in panicked \/ rows'[y].retries <= ticks[y] + restarts + Grace(y)
    BY <2>2, Zenon DEF Paced
  <2>5. \A y \in DOMAIN rows' :
           y \in panicked' \/ rows'[y].retries <= ticks'[y] + restarts' + Grace(y)'
    BY <2>1, <2>2, <2>3, <2>4, Zenon
  <2> QED
    BY <2>1, <2>5, Zenon DEF Paced
<1>8. CASE Restart
  <2>1. /\ UNCHANGED <<rows, ticks, panicked>> /\ restarts' = restarts + 1
        /\ pc' = "select" /\ ~muted'
    BY <1>8, Zenon DEF Restart, history
  <2>2. \A y \in DOMAIN rows : Grace(y) \in {0, 1} /\ Grace(y)' = 0
    BY <2>1, Zenon DEF Grace
  <2> QED
    BY <1>0, <2>1, <2>2 DEF Paced
<1> QED
  BY <1>1, <1>2, <1>3, <1>4, <1>5, <1>6, <1>7, <1>8, Zenon DEF DrainStep

\* However the doorbell rings, a row's attempts never run ahead of the ticker by
\* more than one, and one more for each restart (Drainer.run's mute).
THEOREM PacedByTicker == Spec => []RetriesPacedByTicker
<1>1. Init => IInv /\ Paced
  BY InitIInv, Zenon
<1>2. IInv /\ Paced /\ [Next]_vars => (IInv /\ Paced)'
  <2> SUFFICES ASSUME IInv, Paced, [Next]_vars PROVE Paced'
    BY NextIInv, Zenon
  <2>1. CASE Next
    BY <2>1, ProducerPaced, DrainerPaced, Zenon DEF Next, ProducerStep
  <2>2. CASE UNCHANGED vars
    BY <2>2, Zenon DEF vars, producers, drainer, budget, history, Paced, Grace
  <2> QED
    BY <2>1, <2>2, Zenon
<1>3. IInv /\ Paced => RetriesPacedByTicker
  <2> SUFFICES ASSUME IInv, Paced, NEW id \in DOMAIN rows, id \notin panicked
               PROVE  rows[id].retries <= ticks[id] + restarts + 1
    BY Zenon DEF RetriesPacedByTicker
  <2>1. /\ rows[id].retries \in Nat /\ ticks[id] \in Nat /\ restarts \in Nat
        /\ Grace(id) \in {0, 1}
    BY OutboxAssumption DEF IInv, TypeOK, TableOK, HistoryOK, BudgetOK, Row, Grace
  <2> QED
    BY <2>1 DEF Paced
<1> QED
  BY <1>1, <1>2, <1>3, PTL DEF Spec
-----------------------------------------------------------------------------
(* The order of first delivery, and what may leave the table.              *)

\* Every id in use was drawn from the sequence, and a transaction's row is an
\* event.
DrawnToo == /\ \A id \in taken \cup stumbled \cup batch \cup snaps \cup open : id < nextId
            /\ last \in taken \cup {0}
            /\ open \cap snaps = {}

\* What a row records of its publishes has happened.
Honest ==
    \A id \in DOMAIN rows : /\ rows[id].sent => id \in taken
                            /\ rows[id].retries > 0 => id \in stumbled

\* The ack that is due is for a row the broker has.
AckDue == pc = "ack" => \A id \in batch : First(id) => id \in taken

\* An event row stays in the table until it was delivered or has failed.
Owed ==
    \A id \in Ids : \A j \in earlier[id] :
        j < id /\ j \notin snaps /\ j \in DOMAIN rows \cup taken \cup stumbled

\* A pass that lists a row lists the rows before it that are still owed.
ListedInOrder == \A id \in batch : earlier[id] \subseteq batch \cup taken \cup stumbled

\* An unsent snapshot is the newest one, and a listed snapshot the newest that
\* the broker will have seen.
NewestOnly ==
    /\ \A id \in DOMAIN rows \cap snaps : ~rows[id].sent => \A k \in snaps : k <= id
    /\ \A id \in batch \cap snaps : \A k \in (batch \cup taken) \cap snaps : k <= id

Delivery ==
    /\ DrawnToo /\ Honest /\ AckDue /\ Owed /\ ListedInOrder /\ NewestOnly
    /\ FirstDeliveryInOrder /\ SnapshotsNeverRegress

\* The empty table and the silent broker.
LEMMA InitDelivery == Init => Delivery
<1> SUFFICES ASSUME Init PROVE Delivery
  OBVIOUS
<1>1. DOMAIN rows = {}
  BY Zenon DEF Init
<1>2. DrawnToo /\ Honest /\ AckDue /\ ListedInOrder /\ NewestOnly
  BY <1>1, Zenon DEF Init, DrawnToo, Honest, AckDue, ListedInOrder, NewestOnly
<1>3. Owed /\ FirstDeliveryInOrder /\ SnapshotsNeverRegress
  BY Zenon DEF Init, Owed, FirstDeliveryInOrder, SnapshotsNeverRegress
<1> QED
  BY <1>2, <1>3, Zenon DEF Delivery

\* A pass that lists a row lists every pending row before it: the LIMIT cuts the
\* end of the list.
LEMMA ListedBefore ==
    ASSUME TableOK, NEW id \in ListPendingOutbox, NEW j \in DOMAIN rows, Pending(j), j < id
    PROVE  j \in ListPendingOutbox
<1> DEFINE pending == {k \in DOMAIN rows : Pending(k)}
           before(k) == {i \in pending : i < k}
<1>1. id \in pending /\ Cardinality(before(id)) < Limit
  BY Zenon DEF ListPendingOutbox
<1>2. pending \subseteq 1..MaxId
  BY Zenon DEF TableOK, Ids
<1>3. IsFiniteSet(1..MaxId)
  BY FS_Interval, OutboxAssumption
<1>4. id \in Int /\ j \in Int /\ \A k \in pending : k \in Int
  BY <1>1, <1>2, OutboxAssumption DEF TableOK, Ids
<1>5. before(j) \subseteq before(id) /\ before(id) \subseteq 1..MaxId
  BY <1>2, <1>4
<1>6. IsFiniteSet(before(id))
  BY <1>3, <1>5, FS_Subset, Zenon
<1>7. /\ Cardinality(before(j)) <= Cardinality(before(id))
      /\ IsFiniteSet(before(j))
  BY <1>5, <1>6, FS_Subset, Zenon
<1>8. Cardinality(before(j)) \in Nat /\ Cardinality(before(id)) \in Nat
  BY <1>6, <1>7, FS_CardinalityType, Zenon
<1>9. Cardinality(before(j)) < Limit
  BY <1>1, <1>7, <1>8, OutboxAssumption
<1> QED
  BY <1>9, Zenon DEF ListPendingOutbox

\* A step that adds no row, no id and no delivery, and takes no event row away,
\* keeps the invariant.
LEMMA DeliveryKept ==
    ASSUME Delivery,
           UNCHANGED <<snaps, nextId, taken, last, stumbled, earlier>>,
           open' \subseteq open, DOMAIN rows' \subseteq DOMAIN rows,
           \A y \in DOMAIN rows' : /\ rows'[y].sent => rows[y].sent \/ y \in taken
                                   /\ rows[y].sent => rows'[y].sent
                                   /\ rows'[y].retries > 0 => rows[y].retries > 0
                                                              \/ y \in stumbled,
           \A y \in DOMAIN rows \ DOMAIN rows' : y \in taken \cup stumbled,
           AckDue', ListedInOrder',
           batch' \subseteq batch
    PROVE  Delivery'
<1>1. DrawnToo'
  BY Zenon DEF Delivery, DrawnToo
<1>2. Honest'
  BY Zenon DEF Delivery, Honest
<1>3. Owed'
  BY Zenon DEF Delivery, Owed
<1>4. NewestOnly'
  BY Zenon DEF Delivery, NewestOnly
<1>5. FirstDeliveryInOrder' /\ SnapshotsNeverRegress'
  BY Zenon DEF Delivery, FirstDeliveryInOrder, SnapshotsNeverRegress
<1> QED
  BY <1>1, <1>2, <1>3, <1>4, <1>5, Zenon DEF Delivery

\* A row enters the table under a fresh or an open id; only superseded snapshots
\* leave it.
Entered(n, gone) ==
    /\ DOMAIN rows' = (DOMAIN rows \ gone) \cup {n}
    /\ rows'[n].sent = FALSE /\ rows'[n].retries = 0
    /\ \A y \in DOMAIN rows \ gone : y # n => rows'[y] = rows[y]

\* Every step that inserts a row, by its effect.
LEMMA EntersRow ==
    ASSUME TableOK
    PROVE  /\ Enqueue => Entered(nextId, {})
           /\ EnqueueSnapshot => Entered(nextId, Superseded)
           /\ \A id \in Ids : CommitTx(id) => Entered(id, {})
<1>0. NewRow.sent = FALSE /\ NewRow.retries = 0
  BY Zenon DEF NewRow
<1>1. ASSUME NEW n, rows' = With(rows, n, NewRow) PROVE Entered(n, {})
  <2>1. Inserted(n)
    BY <1>1, InsertRow, Zenon
  <2> QED
    BY <1>0, <2>1, Zenon DEF Inserted, Entered
<1>2. ASSUME EnqueueSnapshot PROVE Entered(nextId, Superseded)
  <2>1. rows' = With(Without(rows, Superseded), nextId, NewRow)
    BY <1>2, Zenon DEF EnqueueSnapshot
  <2> DEFINE kept == Without(rows, Superseded)
  <2>2. DOMAIN kept = DOMAIN rows \ Superseded /\ \A y \in DOMAIN kept : kept[y] = rows[y]
    BY Zenon DEF Without
  <2> HIDE DEF kept
  <2>3. /\ DOMAIN rows' = DOMAIN kept \cup {nextId} /\ rows'[nextId] = NewRow
        /\ \A y \in DOMAIN kept : y # nextId => rows'[y] = kept[y]
    BY <2>1, Zenon DEF With, kept
  <2> QED
    BY <1>0, <2>2, <2>3, Zenon DEF Entered
<1> QED
  BY <1>1, <1>2, Zenon DEF Enqueue, CommitTx

\* Inserts, commits, rollbacks and requeues keep the order: a new id is greater
\* than every id in use, and a new snapshot takes the place of the unsent one.
LEMMA ProducerDelivery == IInv /\ Delivery /\ ProducerStep => Delivery'
<1> SUFFICES ASSUME IInv, Delivery, ProducerStep PROVE Delivery'
  OBVIOUS
<1>0. /\ TableOK /\ Drawn /\ DrawnToo /\ nextId \in Nat
      /\ Honest /\ AckDue /\ Owed /\ ListedInOrder /\ NewestOnly
      /\ FirstDeliveryInOrder /\ SnapshotsNeverRegress
      /\ taken \subseteq Ids /\ batch \subseteq Ids
  BY DEF IInv, TypeOK, TableOK, Delivery, BrokerOK, DrainerOK
<1>a. /\ earlier \in [Ids -> SUBSET Ids] /\ Ids \subseteq Nat /\ snaps \subseteq Ids
      /\ open \subseteq Ids /\ DOMAIN rows \subseteq Ids /\ stumbled \subseteq Ids
  BY DEF IInv, TypeOK, HistoryOK, TableOK, Ids
<1>1. ASSUME Insert, snaps' \in {snaps, snaps \cup {nextId}},
             open' \in {open, open \cup {nextId}}, open' \cap snaps' = {},
             \/ rows' = rows /\ snaps' = snaps
             \/ Entered(nextId, {}) /\ snaps' = snaps
             \/ Entered(nextId, Superseded) /\ snaps' = snaps \cup {nextId}
      PROVE  Delivery'
  <2>1. /\ nextId \in Ids /\ nextId' = nextId + 1
        /\ earlier' = [earlier EXCEPT ![nextId] = DOMAIN rows \ snaps]
        /\ UNCHANGED <<taken, last, pc, batch, stumbled>>
    BY <1>1, Zenon DEF Insert, broker, drainer
  <2>2. \A k \in taken \cup stumbled \cup batch \cup snaps \cup open \cup DOMAIN rows :
           k < nextId /\ k # nextId
    BY <1>0, <1>a DEF Drawn, DrawnToo
  <2>3. DrawnToo'
    BY <1>0, <1>1, <1>a, <2>1, <2>2 DEF DrawnToo
  <2>4. /\ earlier'[nextId] = DOMAIN rows \ snaps
        /\ \A k \in Ids : k # nextId => earlier'[k] = earlier[k]
    BY <1>a, <2>1, Zenon
  <2>5. Honest'
    BY <1>0, <1>1, <2>1 DEF Honest, Entered
  <2>6. AckDue'
    BY <1>0, <2>1, Zenon DEF AckDue, First
  <2>7. Owed'
    <3> SUFFICES ASSUME NEW k \in Ids, NEW j \in earlier'[k]
                 PROVE  j < k /\ j \notin snaps' /\ j \in DOMAIN rows' \cup taken \cup stumbled
      BY <2>1, Zenon DEF Owed
    <3>1. \A i \in DOMAIN rows \ snaps : i \in DOMAIN rows'
      BY <1>1, Zenon DEF Entered, Superseded
    <3>2. CASE k = nextId
      BY <1>1, <2>2, <2>4, <3>1, <3>2, Zenon
    <3>3. CASE k # nextId
      <4>1. j < k /\ j \notin snaps /\ j \in DOMAIN rows \cup taken \cup stumbled
        BY <1>0, <2>4, <3>3, Zenon DEF Owed
      <4>2. j # nextId
        BY <4>1, <2>2, Zenon
      <4> QED
        BY <1>1, <3>1, <4>1, <4>2, Zenon
    <3> QED
      BY <3>2, <3>3, Zenon
  <2>8. ListedInOrder' /\ FirstDeliveryInOrder'
    BY <1>0, <2>1, <2>2, <2>4, Zenon DEF ListedInOrder, FirstDeliveryInOrder
  <2>9. NewestOnly'
    BY <1>0, <1>1, <1>a, <2>1, <2>2 DEF NewestOnly, Entered, Superseded
  <2>10. SnapshotsNeverRegress'
    BY <1>0, <1>1, <2>1, <2>2 DEF SnapshotsNeverRegress, DrawnToo
  <2> QED
    BY <2>3, <2>5, <2>6, <2>7, <2>8, <2>9, <2>10, Zenon DEF Delivery
<1>2. CASE Enqueue
  BY <1>0, <1>1, <1>2, EntersRow, Zenon DEF Enqueue, DrawnToo
<1>3. CASE EnqueueInTx
  <2>1. nextId \notin snaps
    BY <1>0 DEF DrawnToo
  <2> QED
    BY <1>0, <1>1, <1>3, <2>1, Zenon DEF EnqueueInTx, DrawnToo
<1>4. CASE EnqueueSnapshot
  <2>1. nextId \notin open
    BY <1>0 DEF DrawnToo
  <2> QED
    BY <1>0, <1>1, <1>4, <2>1, EntersRow, Zenon DEF EnqueueSnapshot, DrawnToo
<1>5. ASSUME NEW id \in Ids, CommitTx(id) PROVE Delivery'
  <2>1. /\ id \in open /\ open' = open \ {id}
        /\ UNCHANGED <<snaps, nextId, taken, last, pc, batch, stumbled, earlier>>
    BY <1>5, Zenon DEF CommitTx, broker, drainer, history
  <2>2. Entered(id, {})
    BY <1>0, <1>5, EntersRow, Zenon
  <2>3. DrawnToo' /\ AckDue' /\ ListedInOrder' /\ FirstDeliveryInOrder' /\ SnapshotsNeverRegress'
    BY <1>0, <2>1, Zenon DEF DrawnToo, AckDue, First, ListedInOrder, FirstDeliveryInOrder,
       SnapshotsNeverRegress
  <2>4. Honest' /\ Owed'
    BY <1>0, <2>1, <2>2 DEF Honest, Owed, Entered
  <2>5. NewestOnly'
    BY <1>0, <2>1, <2>2, Zenon DEF NewestOnly, Entered, DrawnToo
  <2> QED
    BY <2>3, <2>4, <2>5, Zenon DEF Delivery
<1>6. ASSUME NEW id \in Ids, RollbackTx(id) PROVE Delivery'
  <2>1. /\ open' = open \ {id}
        /\ UNCHANGED <<rows, snaps, nextId, taken, last, pc, batch, stumbled, earlier>>
    BY <1>6, Zenon DEF RollbackTx, broker, drainer, history
  <2>2. AckDue' /\ ListedInOrder'
    BY <1>0, <2>1, Zenon DEF AckDue, First, ListedInOrder
  <2> QED
    BY <2>1, <2>2, DeliveryKept, Zenon
<1>7. ASSUME NEW id \in Ids, RequeueOutbox(id) PROVE Delivery'
  <2>1. /\ id \in DOMAIN rows /\ rows' = [rows EXCEPT ![id].retries = 0]
        /\ UNCHANGED <<snaps, nextId, open, taken, last, pc, batch, stumbled, earlier>>
    BY <1>7, Zenon DEF RequeueOutbox, broker, drainer, history
  <2>2. AckDue' /\ ListedInOrder'
    BY <1>0, <2>1, Zenon DEF AckDue, First, ListedInOrder
  <2>3. /\ DOMAIN rows' = DOMAIN rows
        /\ \A y \in DOMAIN rows : /\ rows'[y].sent = rows[y].sent
                                  /\ rows'[y].retries > 0 => rows[y].retries > 0
    BY <1>0, <2>1 DEF TableOK, Row
  <2> QED
    BY <2>1, <2>2, <2>3, DeliveryKept, Zenon
<1> QED
  BY <1>2, <1>3, <1>4, <1>5, <1>6, <1>7, Zenon DEF ProducerStep

\* The broker takes, or fails to take, the row whose turn it is: every event row
\* before it has left the batch.
LEMMA TurnComes ==
    ASSUME IInv, Delivery, NEW id \in batch, First(id)
    PROVE  /\ earlier[id] \subseteq taken \cup stumbled
           /\ id \in snaps => \A k \in taken \cap snaps : k <= id
<1>1. \A j \in earlier[id] : j < id /\ j \in Ids
  BY Zenon DEF Delivery, Owed, IInv, TypeOK, DrainerOK, HistoryOK
<1>2. id \in Ids /\ batch \subseteq Ids /\ Ids \subseteq Int
  BY DEF IInv, TypeOK, DrainerOK, Ids
<1>3. \A j \in earlier[id] : j \notin batch
  BY <1>1, <1>2 DEF First
<1>4. earlier[id] \subseteq taken \cup stumbled
  BY <1>3, Zenon DEF Delivery, ListedInOrder
<1>5. id \in snaps => \A k \in taken \cap snaps : k <= id
  BY Zenon DEF Delivery, NewestOnly
<1> QED
  BY <1>4, <1>5, Zenon

\* The drainer's steps and a restart keep the order.
LEMMA DrainerDelivery == IInv /\ Delivery /\ (TakeWake \/ Tick \/ DrainStep \/ Restart) => Delivery'
<1> SUFFICES ASSUME IInv, Delivery, TakeWake \/ Tick \/ DrainStep \/ Restart PROVE Delivery'
  OBVIOUS
<1>0. /\ TableOK /\ Drawn /\ DrawnToo /\ nextId \in Nat
      /\ Honest /\ AckDue /\ Owed /\ ListedInOrder /\ NewestOnly
      /\ FirstDeliveryInOrder /\ SnapshotsNeverRegress
      /\ taken \subseteq Ids /\ batch \subseteq Ids
  BY DEF IInv, TypeOK, TableOK, Delivery, BrokerOK, DrainerOK
<1>a. /\ earlier \in [Ids -> SUBSET Ids] /\ Ids \subseteq Nat /\ snaps \subseteq Ids
      /\ open \subseteq Ids /\ DOMAIN rows \subseteq Ids /\ stumbled \subseteq Ids
  BY DEF IInv, TypeOK, HistoryOK, TableOK, Ids
<1>1. CASE TakeWake
  <2>1. /\ UNCHANGED <<rows, open, snaps, nextId, taken, last, batch, stumbled, earlier>>
        /\ pc' # "ack"
    BY <1>1, Zenon DEF TakeWake, producers, broker, history
  <2>2. AckDue' /\ ListedInOrder'
    BY <1>0, <2>1, Zenon DEF AckDue, ListedInOrder
  <2> QED
    BY <2>1, <2>2, DeliveryKept, Zenon
<1>2. ASSUME NEW tick \in BOOLEAN, BeginDrain(tick) PROVE Delivery'
  <2>1. /\ UNCHANGED <<rows, open, snaps, nextId, taken, last, stumbled, earlier>>
        /\ pc' = "publish" /\ batch' \in {ListPendingOutbox, {}}
    BY <1>2, Zenon DEF BeginDrain, producers, broker
  <2>2. \A k \in ListPendingOutbox : k \in DOMAIN rows /\ ~rows[k].sent
    BY Zenon DEF ListPendingOutbox, Pending
  <2>3. \A k \in ListPendingOutbox : earlier[k] \subseteq ListPendingOutbox \cup taken \cup stumbled
    <3> SUFFICES ASSUME NEW k \in ListPendingOutbox, NEW j \in earlier[k],
                        j \notin taken \cup stumbled
                 PROVE  j \in ListPendingOutbox
      OBVIOUS
    <3>1. k \in Ids
      BY <1>a, <2>2, Zenon
    <3>2. j < k /\ j \in DOMAIN rows
      BY <1>0, <3>1, Zenon DEF Owed
    <3>3. ~rows[j].sent /\ ~(rows[j].retries > 0) /\ rows[j].retries \in 0..MaxRetries
      BY <1>0, <3>2, Zenon DEF Honest, TableOK, Row
    <3>4. Pending(j)
      BY <3>3, OutboxAssumption DEF Pending
    <3> QED
      BY <1>0, <3>2, <3>4, ListedBefore, Zenon
  <2>4. DrawnToo'
    BY <1>0, <2>1, <2>2, Zenon DEF DrawnToo, Drawn
  <2>5. Honest' /\ AckDue' /\ Owed' /\ FirstDeliveryInOrder' /\ SnapshotsNeverRegress'
    BY <1>0, <2>1, Zenon DEF Honest, AckDue, Owed, FirstDeliveryInOrder, SnapshotsNeverRegress
  <2>6. ListedInOrder'
    BY <2>1, <2>3, Zenon DEF ListedInOrder
  <2>7. NewestOnly'
    BY <1>0, <2>1, <2>2, Zenon DEF NewestOnly
  <2> QED
    BY <2>4, <2>5, <2>6, <2>7, Zenon DEF Delivery
<1>3. CASE Publish
  <2>1. PICK id \in batch : First(id) /\ BrokerTakes(id)
    BY <1>3, Zenon DEF Publish
  <2>2. /\ UNCHANGED <<rows, open, snaps, nextId, batch, stumbled, earlier>>
        /\ taken' = taken \cup {id} /\ last' = id
    BY <1>3, <2>1, Zenon DEF Publish, producers, history, BrokerTakes
  <2>3. \A k \in batch : First(k) => k = id
    BY <1>0, <1>a, <2>1 DEF First
  <2>4. AckDue'
    BY <2>2, <2>3, Zenon DEF AckDue, First
  <2>5. DrawnToo' /\ Honest' /\ Owed' /\ ListedInOrder'
    BY <1>0, <2>2, Zenon DEF DrawnToo, Honest, Owed, ListedInOrder
  <2>6. NewestOnly'
    BY <1>0, <2>2, Zenon DEF NewestOnly
  <2>7. FirstDeliveryInOrder' /\ SnapshotsNeverRegress'
    BY <1>0, <1>a, <2>1, <2>2, TurnComes DEF FirstDeliveryInOrder, SnapshotsNeverRegress
  <2> QED
    BY <2>4, <2>5, <2>6, <2>7, Zenon DEF Delivery
<1>4. CASE Ack
  <2>1. PICK id \in batch : /\ First(id) /\ UpdateRow(id, [rows[id] EXCEPT !.sent = TRUE])
                            /\ batch' = batch \ {id}
    BY <1>4, Zenon DEF Ack
  <2>2. /\ UNCHANGED <<open, snaps, nextId, taken, last, stumbled, earlier>>
        /\ pc' = "publish" /\ id \in taken
    BY <1>0, <1>4, <2>1, Zenon DEF Ack, broker, history, AckDue
  <2>3. /\ DOMAIN rows' = DOMAIN rows
        /\ \A y \in DOMAIN rows : /\ rows'[y].sent => rows[y].sent \/ y = id
                                  /\ rows[y].sent => rows'[y].sent
                                  /\ rows'[y].retries = rows[y].retries
    BY <1>0, <2>1, SMTT(20) DEF UpdateRow, TableOK, Row
  <2>4. AckDue' /\ ListedInOrder'
    BY <1>0, <2>1, <2>2, Zenon DEF AckDue, ListedInOrder
  <2> QED
    BY <2>1, <2>2, <2>3, <2>4, DeliveryKept, Zenon
<1>5. CASE PublishError \/ PublishPanic
  <2>1. PICK id \in batch :
           /\ PublishFails(id)
           /\ \/ UpdateRow(id, [rows[id] EXCEPT !.retries = @ + 1])
              \/ UpdateRow(id, [rows[id] EXCEPT !.retries = MaxRetries])
    BY <1>5, Zenon DEF PublishError, PublishPanic
  <2>2. /\ UNCHANGED <<open, snaps, nextId, earlier>> /\ pc' = "publish"
        /\ First(id) /\ stumbled' = stumbled \cup {id} /\ batch' = batch \ {id}
        /\ \/ taken' = taken /\ last' = last
           \/ taken' = taken \cup {id} /\ last' = id
    BY <2>1, Zenon DEF PublishFails, BrokerTakes, broker
  <2>3. /\ DOMAIN rows' = DOMAIN rows
        /\ \A y \in DOMAIN rows : /\ rows'[y].sent = rows[y].sent
                                  /\ y # id => rows'[y] = rows[y]
    BY <1>0, <2>1 DEF UpdateRow, TableOK, Row
  <2>4. DrawnToo'
    BY <1>0, <2>2, Zenon DEF DrawnToo
  <2>5. Honest' /\ Owed'
    BY <1>0, <2>2, <2>3, Zenon DEF Honest, Owed
  <2>6. AckDue' /\ ListedInOrder'
    BY <1>0, <2>2, Zenon DEF AckDue, ListedInOrder
  <2>7. NewestOnly'
    BY <1>0, <2>2, <2>3 DEF NewestOnly
  <2>8. /\ earlier[id] \subseteq taken \cup stumbled
        /\ id \in snaps => \A k \in taken \cap snaps : k <= id
        /\ id \in Nat
    BY <1>0, <1>a, <2>2, TurnComes, Zenon
  <2>9. FirstDeliveryInOrder'
    BY <1>0, <2>2, <2>8, Zenon DEF FirstDeliveryInOrder
  <2>10. SnapshotsNeverRegress'
    <3>1. CASE taken' = taken /\ last' = last
      BY <1>0, <2>2, <3>1, Zenon DEF SnapshotsNeverRegress
    <3>2. CASE taken' = taken \cup {id} /\ last' = id
      <4>1. id <= id
        BY <2>8
      <4> QED
        BY <2>2, <2>8, <3>2, <4>1, Zenon DEF SnapshotsNeverRegress
    <3> QED
      BY <2>2, <3>1, <3>2, Zenon
  <2> QED
    BY <2>4, <2>5, <2>6, <2>7, <2>9, <2>10, Zenon DEF Delivery
<1>6. CASE EndDrain
  <2>1. /\ UNCHANGED <<open, snaps, nextId, taken, last, batch, stumbled, earlier>>
        /\ pc' = "select"
    BY <1>6, Zenon DEF EndDrain, broker, history
  <2>2. /\ DOMAIN rows' \subseteq DOMAIN rows /\ \A y \in DOMAIN rows' : rows'[y] = rows[y]
        /\ \A y \in DOMAIN rows \ DOMAIN rows' : rows[y].sent \/ Dead(y)
    BY <1>6, Zenon DEF EndDrain, PurgeOldOutbox, Without
  <2>3. \A y \in DOMAIN rows : rows[y].sent \/ Dead(y) => y \in taken \cup stumbled
    BY <1>0, OutboxAssumption DEF Honest, Dead, TableOK, Row
  <2>4. AckDue' /\ ListedInOrder'
    BY <1>0, <2>1, Zenon DEF AckDue, ListedInOrder
  <2>5. \A y \in DOMAIN rows \ DOMAIN rows' : y \in taken \cup stumbled
    BY <2>2, <2>3, Zenon
  <2>6. \A y \in DOMAIN rows' : rows'[y].sent = rows[y].sent /\ rows'[y].retries = rows[y].retries
    BY <2>2, Zenon
  <2> QED
    BY <2>1, <2>2, <2>4, <2>5, <2>6, DeliveryKept, Zenon
<1>7. CASE Restart
  <2>1. /\ UNCHANGED <<rows, snaps, nextId, taken, last, stumbled, earlier>>
        /\ pc' = "select" /\ batch' = {} /\ open' = {}
    BY <1>7, Zenon DEF Restart, broker, history
  <2>2. AckDue' /\ ListedInOrder'
    BY <2>1, Zenon DEF AckDue, ListedInOrder
  <2> QED
    BY <2>1, <2>2, DeliveryKept, Zenon
<1> QED
  BY <1>1, <1>2, <1>3, <1>4, <1>5, <1>6, <1>7, Zenon DEF Tick, DrainStep, SettleDone

\* The invariant of the deliveries holds in every reachable state.
LEMMA DeliveryInv == Spec => [](IInv /\ Delivery)
<1>1. Init => IInv /\ Delivery
  BY InitIInv, InitDelivery, Zenon
<1>2. IInv /\ Delivery /\ [Next]_vars => (IInv /\ Delivery)'
  <2> SUFFICES ASSUME IInv, Delivery, [Next]_vars PROVE Delivery'
    BY NextIInv, Zenon
  <2>1. CASE Next
    BY <2>1, ProducerDelivery, DrainerDelivery, Zenon DEF Next, ProducerStep
  <2>2. CASE UNCHANGED vars
    <3>1. UNCHANGED <<rows, open, snaps, nextId, taken, last, pc, batch, stumbled, earlier>>
      BY <2>2, Zenon DEF vars, producers, drainer, history, broker
    <3>2. AckDue' /\ ListedInOrder'
      BY <3>1, Zenon DEF Delivery, AckDue, First, ListedInOrder
    <3> QED
      BY <3>1, <3>2, DeliveryKept, Zenon
  <2> QED
    BY <2>1, <2>2, Zenon
<1> QED
  BY <1>1, <1>2, PTL DEF Spec

\* An event row committed before another was inserted reaches the broker first,
\* unless a publish of its own failed: for every batch size, number of rows and
\* sequence of faults (the one drainer, ORDER BY id and its LIMIT).
THEOREM InOrder == Spec => []FirstDeliveryInOrder
<1>1. IInv /\ Delivery => FirstDeliveryInOrder
  BY Zenon DEF Delivery
<1> QED
  BY <1>1, DeliveryInv, PTL

\* The broker never takes an older snapshot after a newer one (EnqueueSnapshot
\* deletes the unsent ones in its own transaction).
THEOREM NoRegress == Spec => []SnapshotsNeverRegress
<1>1. IInv /\ Delivery => SnapshotsNeverRegress
  BY Zenon DEF Delivery
<1> QED
  BY <1>1, DeliveryInv, PTL

\* A row leaves the table only when it was delivered, is dead, or a newer
\* snapshot has taken its place (PurgeOldOutbox and EnqueueSnapshot).
THEOREM LeaveSettled == Spec => RowsLeaveSettled
<1> DEFINE Leave == \A id \in DOMAIN rows \ DOMAIN rows' :
                       \/ id \in taken
                       \/ Dead(id)
                       \/ id \in snaps /\ \E n \in snaps' \cap DOMAIN rows' : n > id
<1>1. IInv /\ Delivery /\ [Next]_vars => [Leave]_vars
  <2> SUFFICES ASSUME IInv, Delivery, Next PROVE Leave
    OBVIOUS
  <2>1. CASE EnqueueSnapshot
    <3>1. Entered(nextId, Superseded) /\ nextId \in snaps'
      BY <2>1, EntersRow, Zenon DEF EnqueueSnapshot, IInv, TypeOK
    <3>2. \A id \in DOMAIN rows : id < nextId /\ id \in Int /\ nextId \in Int
      BY DEF IInv, Drawn, TypeOK, TableOK, Ids
    <3> QED
      BY <3>1, <3>2, Zenon DEF Entered, Superseded
  <2>2. CASE EndDrain
    BY <2>2, Zenon DEF EndDrain, PurgeOldOutbox, Without, Delivery, Honest
  <2>3. CASE ~EnqueueSnapshot /\ ~EndDrain
    <3>1. CASE Enqueue \/ \E id \in Ids : CommitTx(id)
      BY <3>1, EntersRow, Zenon DEF Entered, IInv, TypeOK
    <3>2. CASE ~(Enqueue \/ \E id \in Ids : CommitTx(id))
      <4>1. \/ rows' = rows
            \/ \E id \in DOMAIN rows : \E v : rows' = [rows EXCEPT ![id] = v]
            \/ \E id \in DOMAIN rows : rows' = [rows EXCEPT ![id].retries = 0]
        BY <2>3, <3>2, Zenon DEF Next, DrainStep, EnqueueInTx, RollbackTx, RequeueOutbox, TakeWake,
           Tick, SettleDone, BeginDrain, Publish, Ack, PublishError, PublishPanic,
           PublishFails, UpdateRow, Restart, producers
      <4> QED
        BY <4>1, Zenon
    <3> QED
      BY <3>1, <3>2, Zenon
  <2> QED
    BY <2>1, <2>2, <2>3, Zenon
<1> QED
  BY <1>1, DeliveryInv, PTL DEF Spec, RowsLeaveSettled
=============================================================================
