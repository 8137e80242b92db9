---------------------------- MODULE BoardProofs ----------------------------
(***************************************************************************)
(* Proof that the Edge's board agrees with Core's row, for every number of *)
(* waits, clicks and disturbances: while nothing went wrong, the row that  *)
(* the messages on their way to the Edge lead to fits the row Core has and *)
(* the report its poller is about to write.                                *)
(*                                                                         *)
(* An operator's click moves the row under those messages: they then lead  *)
(* to the same row as without the click, or to one that differs by the     *)
(* release or by the end Core is about to hear of.                         *)
(***************************************************************************)
EXTENDS EdgeMirrorProofs

-----------------------------------------------------------------------------
(* What the board will show: the row after the messages on their way.      *)

\* The row after a message, "doomed" if handling it is a lapse.
Step(e, s) == IF IsValidTransition(e, s) THEN s ELSE e
Jump(e, s) == IF IsForwardJump(e, s) THEN s ELSE Step(e, s)
Applied == {"queued", "sourcing", "dispatched", "in_transit", "faulted", "confirmed"}
AfterError(e, code) ==
    IF code = "manifest_sync_failed"
    THEN IF e \in {"staged", "in_transit"} THEN "staged" ELSE "doomed"
    ELSE IF code = "invalid_state" THEN IF e = "in_transit" THEN "staged" ELSE e
    ELSE IF code = "fleet_failed" THEN IF e \in Live THEN "doomed" ELSE e
    ELSE Step(e, "failed")
After(e, m) ==
    IF e = "doomed" THEN "doomed"
    ELSE CASE m.t = "ack" -> Jump(e, "acknowledged")
           [] m.t = "waybill" -> Jump(e, "in_transit")
           [] m.t = "staged" -> Jump(e, "staged")
           [] m.t = "cancelled" -> Jump(e, "cancelled")
           [] m.t = "update" -> IF m.s \in Applied /\ e \in Live THEN m.s ELSE e
           [] m.t = "delivered" -> Step(e, "delivered")
           [] m.t = "error" -> AfterError(e, m.s)
           [] m.t = "skipped" -> "skipped"
           [] OTHER -> "doomed"

Marks == Status \cup {"doomed"}
Past == {"in_transit", "staged", "faulted", "delivered"} \cup Terminal
Acq == {"submitted", "queued", "acknowledged"}

\* The rows the messages q lead through, from e to z; staged is among them only
\* if Core, in c, has been on its way.
Runs(q, e, z, c, r) ==
    /\ r \in Seq(Marks) /\ Len(r) = Len(q) + 1 /\ r[1] = e /\ r[Len(q) + 1] = z
    /\ \A k \in DOMAIN q : q[k].t # "snapshot" /\ r[k + 1] = After(r[k], q[k])
    /\ c \in Past \/ \A k \in DOMAIN r : r[k] # "staged"
Way(q, e, z, c) == \E r : Runs(q, e, z, c, r)

\* Farther does not mean out of a set no step leaves.
LEMMA FurtherStays ==
    ASSUME NEW near, NEW S \in SUBSET Status, \A s \in S : near[s] \subseteq S
    PROVE  \A s \in S : Further(near)[s] \subseteq S
<1> TAKE s \in S
<1>1. Further(near)[s] = near[s] \cup UNION {near[t] : t \in near[s]}
  BY Zenon DEF Further
<1> QED
  BY <1>1, Zenon

\* Farther is at least as far.
LEMMA FurtherGrows ==
    ASSUME NEW near
    PROVE  \A s \in Status : near[s] \subseteq Further(near)[s]
BY Zenon DEF Further

\* The sets of statuses no legal step leaves.
LEMMA ReachStays ==
    ASSUME NEW S \in SUBSET Status, \A s \in S : s \in Live => ValidTransitions[s] \subseteq S
    PROVE  \A s \in S : Reachable[s] \subseteq S
<1> PICK d : d = [s \in Status |-> IF s \in Live THEN ValidTransitions[s] ELSE {}]
  BY Zenon
<1>1. \A s \in S : d[s] \subseteq S
  BY Zenon
<1>2. \A s \in S : Further(d)[s] \subseteq S
  BY <1>1, FurtherStays
<1>3. \A s \in S : Further(Further(d))[s] \subseteq S
  BY <1>2, FurtherStays
<1>4. \A s \in S : Further(Further(Further(d)))[s] \subseteq S
  BY <1>3, FurtherStays
<1>5. \A s \in S : Further(Further(Further(Further(d))))[s] \subseteq S
  BY <1>4, FurtherStays
<1> QED
  BY <1>5, Zenon DEF Reachable

\* Two legal steps are within reach.
LEMMA ReachTwo ==
    ASSUME NEW s \in Live, NEW t \in Live, t \in ValidTransitions[s],
           NEW u \in ValidTransitions[t]
    PROVE  u \in Reachable[s]
<1> PICK d : d = [x \in Status |-> IF x \in Live THEN ValidTransitions[x] ELSE {}]
  BY Zenon
<1>1. s \in Status /\ t \in Status
  BY Statuses, Zenon
<1>2. t \in d[s] /\ u \in d[t]
  BY <1>1, Zenon
<1>3. u \in Further(d)[s]
  BY <1>1, <1>2, Zenon DEF Further
<1>4. u \in Further(Further(d))[s]
  BY <1>1, <1>3, FurtherGrows, Zenon
<1>5. u \in Further(Further(Further(d)))[s]
  BY <1>1, <1>4, FurtherGrows, Zenon
<1>6. u \in Further(Further(Further(Further(d))))[s]
  BY <1>1, <1>5, FurtherGrows, Zenon
<1> QED
  BY <1>6, Zenon DEF Reachable

\* The jumps of mirrorTransition there are, and those there are not.
LEMMA Jumps ==
    /\ "in_transit" \in Reachable["submitted"] /\ "staged" \in Reachable["faulted"]
    /\ \A s \in Terminal, t \in Status : t \notin Terminal => t \notin Reachable[s]
    /\ \A s \in Terminal : ~IsValidTransition(s, "cancelled") /\ "cancelled" \notin Reachable[s]
    /\ \A s \in {"in_transit", "staged", "faulted", "delivered"} : "acknowledged" \notin Reachable[s]
    /\ "in_transit" \notin Reachable["delivered"] /\ "staged" \notin Reachable["delivered"]
<1>1. "in_transit" \in Reachable["submitted"]
  <2>1. "submitted" \in Live /\ "queued" \in Live /\ "queued" \in ValidTransitions["submitted"]
        /\ "in_transit" \in ValidTransitions["queued"]
    BY DEF Live, ValidTransitions
  <2> QED
    BY <2>1, ReachTwo
<1>2. "staged" \in Reachable["faulted"]
  <2>1. "faulted" \in Live /\ "in_transit" \in Live /\ "in_transit" \in ValidTransitions["faulted"]
        /\ "staged" \in ValidTransitions["in_transit"]
    BY DEF Live, ValidTransitions
  <2> QED
    BY <2>1, ReachTwo
<1>3. ASSUME NEW s \in Terminal PROVE Reachable[s] = {}
  <2> PICK d : d = [x \in Status |-> IF x \in Live THEN ValidTransitions[x] ELSE {}]
    BY Zenon
  <2>1. s \in Status /\ s \notin Live
    BY Statuses, Zenon
  <2>2. \A near : near[s] = {} => Further(near)[s] = {}
    BY <2>1, Zenon DEF Further
  <2>3. d[s] = {}
    BY <2>1, Zenon
  <2>4. Further(Further(Further(Further(d))))[s] = {}
    BY <2>2, <2>3, Zenon
  <2> QED
    BY <2>4, Zenon DEF Reachable
<1>4. \A s \in Past : Reachable[s] \subseteq Past
  <2>1. Past \in SUBSET Status /\ \A s \in Past : s \in Live => ValidTransitions[s] \subseteq Past
    BY DEF Past, Status, Live, Terminal, ValidTransitions
  <2> QED
    BY <2>1, ReachStays
<1>5. Reachable["delivered"] \subseteq Terminal \cup {"delivered"}
  <2> PICK S : S = Terminal \cup {"delivered"}
    BY Zenon
  <2>1. S \in SUBSET Status /\ \A s \in S : s \in Live => ValidTransitions[s] \subseteq S
    BY DEF Status, Live, Terminal, ValidTransitions
  <2>2. \A s \in S : Reachable[s] \subseteq S
    BY <2>1, ReachStays
  <2> QED
    BY <2>2, Zenon
<1>6. "acknowledged" \notin Past /\ "in_transit" \notin Terminal \cup {"delivered"}
      /\ "staged" \notin Terminal \cup {"delivered"}
      /\ {"in_transit", "staged", "faulted", "delivered"} \subseteq Past
  BY DEF Past, Terminal
<1>7. \A s \in Terminal : ~IsValidTransition(s, "cancelled")
  BY Statuses, Zenon
<1> QED
  BY <1>1, <1>2, <1>3, <1>4, <1>5, <1>6, <1>7, Zenon

Closed == Terminal \cup {"doomed"}

\* Every status is a mark, live or closed.
LEMMA MarksAre ==
    /\ Marks = Live \cup Closed /\ \A e \in Live : e \notin Closed
    /\ Terminal \subseteq Closed /\ "doomed" \in Closed /\ Status \subseteq Marks
    /\ "doomed" \notin Status /\ "doomed" \notin Live /\ "none" \notin Marks
    /\ {"in_transit", "staged", "faulted", "delivered"} \subseteq Live /\ Acq \subseteq Live
BY DEF Marks, Closed, Status, Live, Terminal, Acq

AfterKind(e, m) ==
    /\ m.t = "ack" => After(e, m) = Jump(e, "acknowledged")
    /\ m.t = "waybill" => After(e, m) = Jump(e, "in_transit")
    /\ m.t = "staged" => After(e, m) = Jump(e, "staged")
    /\ m.t = "cancelled" => After(e, m) = Jump(e, "cancelled")
    /\ m.t = "update" => After(e, m) = IF m.s \in Applied /\ e \in Live THEN m.s ELSE e
    /\ m.t = "delivered" => After(e, m) = Step(e, "delivered")
    /\ m.t = "error" => After(e, m) = AfterError(e, m.s)
    /\ m.t = "skipped" => After(e, m) = "skipped"

\* What the kinds of message do.
LEMMA AfterKinds ==
    ASSUME NEW e \in Status, NEW m
    PROVE  AfterKind(e, m)
<1>1. e # "doomed"
  BY MarksAre, Zenon
<1> QED
  BY <1>1 DEF After, AfterKind

\* What a closed row does: it stays closed.
LEMMA AfterClosed ==
    ASSUME NEW e \in Closed, NEW m \in DownMsg, m.t # "snapshot"
    PROVE  /\ After(e, m) \in Closed
           /\ e = "doomed" => After(e, m) = "doomed"
           /\ e # "doomed" /\ m.t = "error" /\ m.s = "manifest_sync_failed" => After(e, m) = "doomed"
           /\ e # "doomed" /\ m.t = "skipped" => After(e, m) = "skipped"
           /\ e # "doomed" /\ m.t # "skipped" /\ ~(m.t = "error" /\ m.s = "manifest_sync_failed")
                 => After(e, m) = e
<1>1. CASE e = "doomed"
  BY <1>1 DEF After, Closed
<1>2. CASE e # "doomed"
  <2>1. e \in Terminal /\ e \in Status /\ e \notin Live /\ e \notin {"staged", "in_transit"}
    BY <1>2, Statuses DEF Closed, Terminal
  <2>2. \A s \in {"acknowledged", "in_transit", "staged", "cancelled"} : Jump(e, s) = e
    <3>1. \A s \in {"acknowledged", "in_transit", "staged"} : s \in Status /\ s \notin Terminal
      BY DEF Status, Live, Terminal
    <3>2. \A s \in {"acknowledged", "in_transit", "staged", "cancelled"} : s \notin Reachable[e]
      BY <2>1, <3>1, Jumps, Zenon
    <3> QED
      BY <2>1, <3>2, Zenon DEF Jump, Step, IsForwardJump, IsValidTransition
  <2>3. Step(e, "delivered") = e /\ Step(e, "failed") = e
    BY <2>1, Zenon DEF Step, IsValidTransition
  <2>4. AfterError(e, m.s) = IF m.s = "manifest_sync_failed" THEN "doomed" ELSE e
    BY <2>1, <2>3, Zenon DEF AfterError
  <2>5. m.t \in {"ack", "waybill", "staged", "cancelled", "update", "delivered", "error", "skipped"}
    BY DEF DownMsg
  <2>6. "skipped" \in Closed
    BY DEF Closed, Terminal
  <2>7. AfterKind(e, m)
    BY <2>1, AfterKinds
  <2>8. CASE m.t \in {"ack", "waybill", "staged", "cancelled", "update", "delivered"}
    <3>1. After(e, m) = e
      BY <2>1, <2>2, <2>3, <2>7, <2>8 DEF AfterKind
    <3> QED
      BY <1>2, <2>8, <3>1
  <2>9. CASE m.t = "error"
    <3>1. After(e, m) = IF m.s = "manifest_sync_failed" THEN "doomed" ELSE e
      BY <2>4, <2>7, <2>9, Zenon DEF AfterKind
    <3>2. "doomed" \in Closed
      BY MarksAre, Zenon
    <3> QED
      BY <1>2, <2>9, <3>1, <3>2
  <2>10. CASE m.t = "skipped"
    <3>1. After(e, m) = "skipped"
      BY <2>7, <2>10, Zenon DEF AfterKind
    <3> QED
      BY <1>2, <2>6, <2>10, <3>1
  <2> QED
    BY <2>5, <2>8, <2>9, <2>10
<1> QED
  BY <1>1, <1>2

\* The messages that close a row.
LEMMA Closing ==
    ASSUME NEW e \in Marks, NEW m \in DownMsg,
           \/ m.t \in {"cancelled", "skipped"}
           \/ m.t = "error" /\ m.s \in {"rejected", "not_found"}
           \/ m.t = "update" /\ m.s = "confirmed"
    PROVE  After(e, m) \in Closed
<1>1. CASE e \in Closed
  BY <1>1, AfterClosed
<1>2. CASE e \in Live
  <2>1. e \in Status /\ IsValidTransition(e, "cancelled") /\ IsValidTransition(e, "failed")
    BY <1>2 DEF Live, Status, IsValidTransition, ValidTransitions
  <2>2. Jump(e, "cancelled") = "cancelled" /\ Step(e, "failed") = "failed"
    BY <2>1, Zenon DEF Jump, Step
  <2>3. m.s \in {"rejected", "not_found"} => AfterError(e, m.s) = "failed"
    BY <2>2 DEF AfterError
  <2>4. {"cancelled", "failed", "skipped", "confirmed"} \subseteq Closed /\ "confirmed" \in Applied
    BY DEF Closed, Terminal, Applied
  <2>5. AfterKind(e, m)
    BY <2>1, AfterKinds
  <2> QED
    BY <1>2, <2>2, <2>3, <2>4, <2>5 DEF AfterKind
<1> QED
  BY <1>1, <1>2, MarksAre, Zenon

\* An update of a live row.
LEMMA AfterUpdate ==
    ASSUME NEW e \in Live, NEW s
    PROVE  After(e, Msg("update", s)) = IF s \in Applied THEN s ELSE e
<1>1. Msg("update", s).t = "update" /\ Msg("update", s).s = s
  BY DEF Msg
<1>2. AfterKind(e, Msg("update", s))
  BY AfterKinds, Statuses
<1> QED
  BY <1>1, <1>2, Zenon DEF AfterKind

\* The ack and the waybill.
LEMMA AfterWaybill ==
    ASSUME NEW m
    PROVE  /\ m.t = "ack" => /\ \A e \in Acq : After(e, m) = "acknowledged"
                             /\ \A e \in {"in_transit", "staged", "delivered"} : After(e, m) = e
           /\ m.t = "waybill" => /\ \A e \in Acq \cup {"in_transit", "staged"} : After(e, m) = "in_transit"
                                 /\ After("delivered", m) = "delivered"
<1>1. \A e \in Acq : Jump(e, "acknowledged") = "acknowledged"
  BY DEF Acq, Jump, Step, IsForwardJump, IsValidTransition, ValidTransitions, Live
<1>2. \A e \in {"in_transit", "staged", "delivered"} : Jump(e, "acknowledged") = e
  BY Jumps DEF Jump, Step, IsForwardJump, IsValidTransition, ValidTransitions, Live
<1>3. \A e \in Acq \cup {"in_transit", "staged"} : Jump(e, "in_transit") = "in_transit"
  BY Jumps DEF Acq, Jump, Step, IsForwardJump, IsValidTransition, ValidTransitions, Live
<1>4. Jump("delivered", "in_transit") = "delivered"
  BY Jumps DEF Jump, Step, IsForwardJump, IsValidTransition, ValidTransitions, Live
<1>5. Acq \subseteq Status /\ {"in_transit", "staged", "delivered"} \subseteq Status
  BY DEF Acq, Status, Live
<1> QED
  <2>1. \A e \in Acq : AfterKind(e, m)
    BY <1>5, AfterKinds
  <2>2. \A e \in {"in_transit", "staged", "delivered"} : AfterKind(e, m)
    BY <1>5, AfterKinds
  <2>3. CASE m.t = "ack"
    BY <1>1, <1>2, <2>1, <2>2, <2>3 DEF AfterKind
  <2>4. CASE m.t = "waybill"
    BY <1>3, <1>4, <2>1, <2>2, <2>4 DEF AfterKind
  <2> QED
    BY <2>3, <2>4

\* A stop at a wait, and a delivery.
LEMMA AfterStop ==
    ASSUME NEW m
    PROVE  /\ m.t = "staged" => \A e \in {"in_transit", "staged"} : After(e, m) = "staged"
           /\ m.t = "delivered" => \A e \in {"in_transit", "staged", "faulted", "delivered"} :
                                       After(e, m) = "delivered"
<1>1. \A e \in {"in_transit", "staged"} : Jump(e, "staged") = "staged"
  <2>1. IsValidTransition("in_transit", "staged")
    BY DEF IsValidTransition, ValidTransitions, Live
  <2> QED
    BY <2>1 DEF Jump, Step, IsForwardJump
<1>2. \A e \in {"in_transit", "staged", "faulted", "delivered"} : Step(e, "delivered") = "delivered"
  <2>1. \A e \in {"in_transit", "staged", "faulted"} : IsValidTransition(e, "delivered")
    BY DEF IsValidTransition, ValidTransitions, Live
  <2> QED
    BY <2>1 DEF Step
<1>3. {"in_transit", "staged", "faulted", "delivered"} \subseteq Status
  BY DEF Status, Live
<1> QED
  <2>1. \A e \in {"in_transit", "staged", "faulted", "delivered"} : AfterKind(e, m)
    BY <1>3, AfterKinds
  <2> QED
    BY <1>1, <1>2, <2>1 DEF AfterKind

\* The answers to a release.
LEMMA AfterRefusal ==
    ASSUME NEW e \in Live, NEW m, m.t = "error"
    PROVE  /\ m.s = "manifest_sync_failed" =>
                 After(e, m) = IF e \in {"staged", "in_transit"} THEN "staged" ELSE "doomed"
           /\ m.s = "invalid_state" => After(e, m) = IF e = "in_transit" THEN "staged" ELSE e
           /\ m.s = "fleet_failed" => After(e, m) = "doomed"
<1>1. After(e, m) = AfterError(e, m.s)
  <2>1. AfterKind(e, m)
    BY AfterKinds, Statuses
  <2> QED
    BY <2>1, Zenon DEF AfterKind
<1> QED
  BY <1>1 DEF AfterError

\* A row goes to a status, or is doomed.
LEMMA AfterTyped ==
    ASSUME NEW e \in Marks, NEW m \in DownMsg, m.t # "snapshot"
    PROVE  After(e, m) \in Marks
<1>1. CASE e \in Closed
  BY <1>1, AfterClosed, MarksAre
<1>2. CASE e \in Live
  <2>1. e \in Status
    BY <1>2, Statuses, Zenon
  <2>2. m.t \in {"ack", "waybill", "staged", "cancelled", "update", "delivered", "error", "skipped"}
    BY DEF DownMsg
  <2>3. \A s \in {"acknowledged", "in_transit", "staged", "cancelled", "delivered", "failed"} :
            Jump(e, s) \in {s, e} /\ Step(e, s) \in {s, e}
    BY Zenon DEF Jump, Step
  <2>4. AfterError(e, m.s) \in {"staged", "doomed", e, Step(e, "failed")}
    BY DEF AfterError
  <2>5. {"acknowledged", "in_transit", "staged", "cancelled", "delivered", "failed", "skipped", "doomed"}
            \subseteq Marks /\ Applied \subseteq Marks
    BY DEF Marks, Status, Live, Terminal, Applied
  <2> QED
    <3>1. AfterKind(e, m)
      BY <2>1, AfterKinds
    <3>2. CASE m.t \in {"ack", "waybill", "staged", "cancelled", "delivered"}
      BY <2>3, <2>5, <3>1, <3>2 DEF AfterKind, Marks
    <3>3. CASE m.t \in {"update", "error", "skipped"}
      BY <2>1, <2>3, <2>4, <2>5, <3>1, <3>3 DEF AfterKind, Marks
    <3> QED
      BY <2>2, <3>2, <3>3
<1> QED
  BY <1>1, <1>2, MarksAre, Zenon

\* A release in between: what moves a row in transit moves a staged one alike.
LEMMA AfterRelease ==
    ASSUME NEW m \in DownMsg, m.t # "snapshot"
    PROVE  /\ After("in_transit", m) = "in_transit" => After("staged", m) \in {"staged", "in_transit"}
           /\ After("in_transit", m) # "in_transit" => After("staged", m) = After("in_transit", m)
<1>1. m.t \in {"ack", "waybill", "staged", "cancelled", "update", "delivered", "error", "skipped"}
  BY DEF DownMsg
<1>2. "staged" \in Live /\ "in_transit" \in Live /\ "staged" \in Status /\ "in_transit" \in Status
  BY DEF Status, Live
<1>3. AfterKind("staged", m) /\ AfterKind("in_transit", m)
  BY <1>2, AfterKinds
<1>4. CASE m.t \in {"ack", "waybill"}
  BY <1>4, AfterWaybill
<1>5. CASE m.t \in {"staged", "delivered"}
  BY <1>5, AfterStop
<1>6. CASE m.t = "cancelled"
  <2>1. Jump("in_transit", "cancelled") = "cancelled" /\ Jump("staged", "cancelled") = "cancelled"
    BY DEF Jump, Step, IsForwardJump, IsValidTransition, ValidTransitions, Live
  <2> QED
    BY <1>3, <1>6, <2>1 DEF AfterKind
<1>7. CASE m.t = "update"
  <2>1. \A e \in {"staged", "in_transit"} : After(e, m) = IF m.s \in Applied THEN m.s ELSE e
    BY <1>2, <1>3, <1>7 DEF AfterKind
  <2> QED
    BY <2>1, Zenon
<1>8. CASE m.t = "error"
  <2>1. Step("in_transit", "failed") = "failed" /\ Step("staged", "failed") = "failed"
    BY DEF Step, IsValidTransition, ValidTransitions, Live
  <2>2. \A e \in {"staged", "in_transit"} : After(e, m) = AfterError(e, m.s)
    BY <1>3, <1>8 DEF AfterKind
  <2> QED
    BY <1>2, <2>1, <2>2 DEF AfterError
<1>9. CASE m.t = "skipped"
  BY <1>3, <1>9 DEF AfterKind
<1> QED
  BY <1>1, <1>4, <1>5, <1>6, <1>7, <1>8, <1>9

\* Nothing on its way.
LEMMA WayNone ==
    ASSUME NEW e \in Marks, NEW c, e = "staged" => c \in Past
    PROVE  Way(<<>>, e, e, c)
<1>1. <<e>> \in Seq(Marks) /\ Len(<<e>>) = 1 /\ <<e>>[1] = e /\ DOMAIN <<e>> = {1}
  OBVIOUS
<1>2. Len(<<>>) = 0 /\ DOMAIN <<>> = {}
  OBVIOUS
<1>3. Runs(<<>>, e, e, c, <<e>>)
  BY <1>1, <1>2 DEF Runs
<1> QED
  BY <1>3, Zenon DEF Way

\* The ends of a way.
LEMMA WayEnds ==
    ASSUME NEW q \in Seq(DownMsg), NEW e, NEW z, NEW c, Way(q, e, z, c)
    PROVE  /\ e \in Marks /\ z \in Marks /\ (q = <<>> => z = e)
           /\ e = "staged" \/ z = "staged" => c \in Past
<1>1. PICK r : Runs(q, e, z, c, r)
  BY Zenon DEF Way
<1>2. Len(q) \in Nat /\ (q = <<>> => Len(q) = 0)
  OBVIOUS
<1>3. r \in Seq(Marks) /\ DOMAIN r = 1..(Len(q) + 1)
  BY <1>1, <1>2 DEF Runs
<1>4. 1 \in DOMAIN r /\ Len(q) + 1 \in DOMAIN r
  BY <1>2, <1>3
<1>5. r[1] \in Marks /\ r[Len(q) + 1] \in Marks
  BY <1>3, <1>4
<1>6. q = <<>> => r[1] = r[Len(q) + 1]
  BY <1>2
<1> QED
  BY <1>1, <1>4, <1>5, <1>6, Zenon DEF Runs

\* Core moves on.
LEMMA WayStays ==
    ASSUME NEW q, NEW e, NEW z, NEW c, NEW d, Way(q, e, z, c), c \in Past => d \in Past
    PROVE  Way(q, e, z, d)
BY Zenon DEF Way, Runs

\* A message is sent.
LEMMA WayGrows ==
    ASSUME NEW q \in Seq(DownMsg), NEW e, NEW z, NEW c, Way(q, e, z, c),
           NEW m \in DownMsg, m.t # "snapshot", After(z, m) = "staged" => c \in Past
    PROVE  Way(q \o <<m>>, e, After(z, m), c) /\ q \o <<m>> \in Seq(DownMsg)
<1>1. PICK r : Runs(q, e, z, c, r)
  BY Zenon DEF Way
<1> PICK n : n = Len(q)
  BY Zenon
<1> PICK y : y = After(z, m)
  BY Zenon
<1>2. n \in Nat /\ DOMAIN q = 1..n
  OBVIOUS
<1>3. r \in Seq(Marks) /\ Len(r) = n + 1 /\ r[1] = e /\ r[n + 1] = z
      /\ \A k \in 1..n : q[k].t # "snapshot" /\ r[k + 1] = After(r[k], q[k])
  BY <1>1, <1>2, Zenon DEF Runs
<1>4. z \in Marks
  BY WayEnds
<1>5. y \in Marks
  BY <1>4, AfterTyped
<1> PICK b : b = Append(r, y)
  BY Zenon
<1>6. /\ b \in Seq(Marks) /\ Len(b) = n + 2 /\ DOMAIN b = 1..(n + 2) /\ DOMAIN r = 1..(n + 1)
      /\ b[n + 2] = y /\ \A k \in 1..(n + 1) : b[k] = r[k]
  BY ONLY <1>2, <1>3, <1>5, b = Append(r, y)
<1> PICK p : p = q \o <<m>>
  BY Zenon
<1>7. /\ p \in Seq(DownMsg) /\ Len(p) = n + 1 /\ DOMAIN p = 1..(n + 1)
      /\ p[n + 1] = m /\ \A k \in 1..n : p[k] = q[k]
  BY ONLY <1>2, p = q \o <<m>>, q \in Seq(DownMsg), m \in DownMsg, n = Len(q)
<1>8. b[1] = e /\ b[n + 1] = z
  BY <1>2, <1>3, <1>6
<1>9. ASSUME NEW k \in DOMAIN p
      PROVE  p[k].t # "snapshot" /\ b[k + 1] = After(b[k], p[k])
  <2>1. CASE k \in 1..n
    <3>1. k \in 1..(n + 1) /\ k + 1 \in 1..(n + 1)
      BY <1>2, <2>1
    <3> QED
      BY <1>3, <1>6, <1>7, <2>1, <3>1, Zenon
  <2>2. CASE k = n + 1
    <3>1. k + 1 = n + 2
      BY <1>2, <2>2
    <3> QED
      BY <1>6, <1>7, <1>8, <2>2, <3>1, Zenon
  <2>3. k \in 1..n \/ k = n + 1
    BY ONLY <1>2, <1>7, <1>9
  <2> QED
    BY <2>1, <2>2, <2>3, Zenon
<1>10. c \in Past \/ \A k \in DOMAIN b : b[k] # "staged"
  <2>1. \A k \in DOMAIN b : k \in DOMAIN r \/ k = n + 2
    BY ONLY <1>2, <1>6
  <2>2. c \in Past \/ \A k \in DOMAIN r : r[k] # "staged"
    BY <1>1, Zenon DEF Runs
  <2> QED
    BY <1>6, <2>1, <2>2, Zenon
<1>11. Len(b) = Len(p) + 1 /\ Len(p) + 1 = n + 2
  BY ONLY <1>2, <1>6, <1>7
<1>12. Runs(p, e, y, c, b)
  BY <1>6, <1>8, <1>9, <1>10, <1>11, Zenon DEF Runs
<1> QED
  BY <1>7, <1>12, Zenon DEF Way

\* Two messages are sent.
LEMMA WayGrowsTwo ==
    ASSUME NEW q \in Seq(DownMsg), NEW e, NEW z, NEW c, Way(q, e, z, c),
           NEW m \in DownMsg, m.t # "snapshot", After(z, m) = "staged" => c \in Past,
           NEW n \in DownMsg, n.t # "snapshot", After(After(z, m), n) = "staged" => c \in Past
    PROVE  Way(q \o <<m, n>>, e, After(After(z, m), n), c)
<1>1. Way(q \o <<m>>, e, After(z, m), c) /\ q \o <<m>> \in Seq(DownMsg)
  BY WayGrows
<1>2. Way((q \o <<m>>) \o <<n>>, e, After(After(z, m), n), c)
  BY <1>1, WayGrows
<1>3. (q \o <<m>>) \o <<n>> = q \o <<m, n>>
  OBVIOUS
<1> QED
  BY <1>2, <1>3, Zenon

\* The Edge takes a message.
LEMMA WayTaken ==
    ASSUME NEW q \in Seq(DownMsg), q # <<>>, NEW e, NEW z, NEW c, Way(q, e, z, c)
    PROVE  Way(Tail(q), After(e, Head(q)), z, c) /\ Head(q).t # "snapshot"
<1>1. PICK r : Runs(q, e, z, c, r)
  BY Zenon DEF Way
<1> PICK n : n = Len(q)
  BY Zenon
<1>2. n \in Nat /\ n > 0 /\ DOMAIN q = 1..n /\ Head(q) = q[1]
  OBVIOUS
<1>3. r \in Seq(Marks) /\ Len(r) = n + 1 /\ r[1] = e /\ r[n + 1] = z
      /\ \A k \in 1..n : q[k].t # "snapshot" /\ r[k + 1] = After(r[k], q[k])
  BY <1>1, <1>2, Zenon DEF Runs
<1> PICK b : b = Tail(r)
  BY Zenon
<1>4. /\ b \in Seq(Marks) /\ Len(b) = n /\ DOMAIN b = 1..n
      /\ \A k \in 1..n : b[k] = r[k + 1]
  BY ONLY <1>2, <1>3, b = Tail(r)
<1> PICK p : p = Tail(q)
  BY Zenon
<1>5. /\ Len(p) = n - 1 /\ DOMAIN p = 1..(n - 1)
      /\ \A k \in 1..(n - 1) : p[k] = q[k + 1]
  BY ONLY <1>2, p = Tail(q), q \in Seq(DownMsg), q # <<>>, n = Len(q)
<1>6. 1 \in 1..n /\ n \in 1..n /\ Len(p) + 1 = n
  BY ONLY <1>2, <1>5
<1>7. b[1] = After(e, q[1]) /\ b[n] = z /\ q[1].t # "snapshot"
  <2>1. 1 + 1 = 2 /\ b[1] = r[1 + 1] /\ r[1 + 1] = After(r[1], q[1]) /\ b[n] = r[n + 1]
    BY <1>3, <1>4, <1>6
  <2> QED
    BY <1>3, <1>6, <2>1, Zenon
<1>8. ASSUME NEW k \in DOMAIN p
      PROVE  p[k].t # "snapshot" /\ b[k + 1] = After(b[k], p[k])
  <2>1. k \in 1..(n - 1) /\ k + 1 \in 1..n /\ k \in 1..n
    BY ONLY <1>2, <1>5, <1>8
  <2> QED
    BY <1>3, <1>4, <1>5, <2>1, Zenon
<1>9. c \in Past \/ \A k \in DOMAIN b : b[k] # "staged"
  <2>1. \A k \in DOMAIN b : k + 1 \in DOMAIN r
    BY ONLY <1>2, <1>3, <1>4
  <2>2. c \in Past \/ \A k \in DOMAIN r : r[k] # "staged"
    BY <1>1, Zenon DEF Runs
  <2> QED
    BY <1>4, <2>1, <2>2, Zenon
<1>10. Runs(p, After(e, q[1]), z, c, b)
  BY <1>4, <1>6, <1>7, <1>8, <1>9, Zenon DEF Runs
<1> QED
  BY <1>2, <1>7, <1>10, Zenon DEF Way

\* A staged row is released while messages are on their way: they lead where
\* they led, or leave the row in transit that they left staged.
LEMMA WayReleased ==
    ASSUME NEW q \in Seq(DownMsg), NEW z, NEW c, Way(q, "staged", z, c)
    PROVE  \E y : /\ Way(q, "in_transit", y, c)
                  /\ y = z \/ (y = "in_transit" /\ z \in {"staged", "in_transit"})
<1>1. PICK r : Runs(q, "staged", z, c, r)
  BY Zenon DEF Way
<1> PICK n : n = Len(q)
  BY Zenon
<1>2. n \in Nat /\ DOMAIN q = 1..n /\ \A k \in 1..n : q[k] \in DownMsg
  OBVIOUS
<1>3. /\ r \in Seq(Marks) /\ Len(r) = n + 1 /\ r[1] = "staged" /\ r[n + 1] = z
      /\ \A k \in 1..n : q[k].t # "snapshot" /\ r[k + 1] = After(r[k], q[k])
  BY <1>1, <1>2, Zenon DEF Runs
<1>4. DOMAIN r = 1..(n + 1) /\ \A k \in 1..(n + 1) : r[k] \in Marks
  BY <1>2, <1>3
<1> DEFINE P(k) == r[k] = "staged" /\ After("in_transit", q[k]) = "in_transit"
           All(i) == \A k \in 1..(n + 1) : k < i => P(k)
<1> PICK b : b = [i \in 1..(n + 1) |-> IF All(i) THEN "in_transit" ELSE r[i]]
  BY Zenon
<1>5. \A i \in 1..(n + 1) : /\ All(i) => b[i] = "in_transit"
                            /\ ~All(i) => b[i] = r[i]
  BY Zenon
<1>6. "in_transit" \in Marks /\ "in_transit" # "staged"
  BY DEF Marks, Status, Live
<1>7. \A i \in 1..(n + 1) : b[i] \in Marks
  BY <1>4, <1>5, <1>6, Zenon
<1>8. b \in Seq(Marks) /\ Len(b) = n + 1 /\ DOMAIN b = 1..(n + 1)
  <2>1. DOMAIN b = 1..(n + 1)
    BY Zenon
  <2>2. b = [i \in 1..(n + 1) |-> b[i]]
    BY <2>1, Zenon
  <2>3. n + 1 \in Nat
    BY <1>2
  <2> HIDE DEF All, P
  <2> QED
    BY ONLY <1>7, <2>1, <2>2, <2>3
<1>9. b[1] = "in_transit"
  <2>1. 1 \in 1..(n + 1) /\ \A k \in 1..(n + 1) : ~(k < 1)
    BY <1>2
  <2> QED
    BY <1>5, <2>1, Zenon
<1>10. \A i \in 1..(n + 1) : All(i) => r[i] \in {"staged", "in_transit"}
  <2> SUFFICES ASSUME NEW i \in 1..(n + 1), All(i) PROVE r[i] \in {"staged", "in_transit"}
    BY Zenon
  <2>1. CASE i = 1
    BY <1>3, <2>1, Zenon
  <2>2. CASE i # 1
    <3> PICK k : k = i - 1
      BY Zenon
    <3>1. k \in 1..n /\ k \in 1..(n + 1) /\ k < i /\ k + 1 = i
      BY <1>2, <2>2
    <3>2. r[k] = "staged" /\ After("in_transit", q[k]) = "in_transit"
      BY <3>1, Zenon
    <3>3. r[i] = After("staged", q[k]) /\ q[k] \in DownMsg /\ q[k].t # "snapshot"
      BY <1>2, <1>3, <3>1, <3>2, Zenon
    <3> QED
      BY <3>2, <3>3, AfterRelease, Zenon
  <2> QED
    BY <2>1, <2>2
<1>11. ASSUME NEW k \in DOMAIN q
       PROVE  q[k].t # "snapshot" /\ b[k + 1] = After(b[k], q[k])
  <2>1. k \in 1..n /\ k \in 1..(n + 1) /\ k + 1 \in 1..(n + 1) /\ k < k + 1
    BY <1>2, <1>11
  <2>2. q[k] \in DownMsg /\ q[k].t # "snapshot" /\ r[k + 1] = After(r[k], q[k])
    BY <1>2, <1>3, <2>1, Zenon
  <2>3. /\ After("in_transit", q[k]) # "in_transit" => After("staged", q[k]) = After("in_transit", q[k])
    BY <2>2, AfterRelease, Zenon
  <2>4. All(k + 1) <=> All(k) /\ P(k)
    <3>1. \A j \in 1..(n + 1) : j < k + 1 <=> j < k \/ j = k
      BY ONLY <1>2, <2>1
    <3> QED
      BY <2>1, <3>1, Zenon
  <2>5. CASE ~All(k)
    BY <1>5, <2>1, <2>2, <2>4, <2>5, Zenon
  <2>6. CASE All(k) /\ P(k)
    <3>1. b[k] = "in_transit" /\ b[k + 1] = "in_transit"
      BY <1>5, <2>1, <2>4, <2>6, Zenon
    <3> QED
      BY <2>2, <2>6, <3>1, Zenon
  <2>7. CASE All(k) /\ ~P(k)
    <3>1. b[k] = "in_transit" /\ b[k + 1] = r[k + 1]
      BY <1>5, <2>1, <2>4, <2>7, Zenon
    <3>2. r[k] \in {"staged", "in_transit"}
      BY <1>10, <2>1, <2>7, Zenon
    <3> QED
      BY <2>2, <2>3, <2>7, <3>1, <3>2, Zenon
  <2> QED
    BY <2>5, <2>6, <2>7, Zenon
<1>12. c \in Past
  BY <1>1, WayEnds DEF Way
<1>13. Runs(q, "in_transit", b[n + 1], c, b)
  BY <1>8, <1>9, <1>11, <1>12, Zenon DEF Runs
<1>14. b[n + 1] = z \/ (b[n + 1] = "in_transit" /\ z \in {"staged", "in_transit"})
  <2>1. n + 1 \in 1..(n + 1)
    BY <1>2
  <2> QED
    BY <1>3, <1>5, <1>10, <2>1, Zenon
<1> QED
  BY <1>13, <1>14, Zenon DEF Way

\* A row is ended while messages are on their way: they leave it ended.
LEMMA WayClosed ==
    ASSUME NEW q \in Seq(DownMsg), NEW e, NEW z, NEW c, Way(q, e, z, c), NEW f \in Terminal
    PROVE  \E y \in Closed : Way(q, f, y, c)
<1>1. PICK r : Runs(q, e, z, c, r)
  BY Zenon DEF Way
<1> PICK n : n = Len(q)
  BY Zenon
<1>2. n \in Nat /\ DOMAIN q = 1..n /\ \A k \in 1..n : q[k] \in DownMsg
  OBVIOUS
<1>3. \A k \in 1..n : q[k].t # "snapshot"
  BY <1>1, <1>2, Zenon DEF Runs
<1> DEFINE Sync(k) == q[k].t = "error" /\ q[k].s = "manifest_sync_failed"
           Doom(i) == \E k \in 1..n : k < i /\ Sync(k)
           Skip(i) == \E k \in 1..n : k < i /\ q[k].t = "skipped"
<1> PICK b : b = [i \in 1..(n + 1) |-> IF Doom(i) THEN "doomed" ELSE IF Skip(i) THEN "skipped" ELSE f]
  BY Zenon
<1>4. \A i \in 1..(n + 1) : /\ Doom(i) => b[i] = "doomed"
                            /\ ~Doom(i) /\ Skip(i) => b[i] = "skipped"
                            /\ ~Doom(i) /\ ~Skip(i) => b[i] = f
  BY Zenon
<1>5. f \in Closed /\ "skipped" \in Closed /\ "doomed" \in Closed /\ f # "doomed" /\ "skipped" # "doomed"
  BY DEF Closed, Terminal
<1>6. \A i \in 1..(n + 1) : b[i] \in Closed
  BY <1>4, <1>5, Zenon
<1>7. Closed \subseteq Marks /\ "staged" \notin Closed
  BY MarksAre DEF Closed, Terminal
<1>8. b \in Seq(Marks) /\ Len(b) = n + 1 /\ DOMAIN b = 1..(n + 1)
  <2>1. DOMAIN b = 1..(n + 1)
    BY Zenon
  <2>2. b = [i \in 1..(n + 1) |-> b[i]] /\ \A i \in 1..(n + 1) : b[i] \in Marks
    BY <1>6, <1>7, <2>1, Zenon
  <2>3. n + 1 \in Nat
    BY <1>2
  <2> HIDE DEF Doom, Skip, Sync
  <2> QED
    BY ONLY <2>1, <2>2, <2>3
<1>9. b[1] = f
  <2>1. 1 \in 1..(n + 1) /\ \A k \in 1..n : ~(k < 1)
    BY <1>2
  <2> QED
    BY <1>4, <2>1, Zenon
<1>10. ASSUME NEW k \in DOMAIN q
       PROVE  q[k].t # "snapshot" /\ b[k + 1] = After(b[k], q[k])
  <2>1. k \in 1..n /\ k \in 1..(n + 1) /\ k + 1 \in 1..(n + 1)
    BY <1>2, <1>10
  <2>2. q[k] \in DownMsg /\ q[k].t # "snapshot" /\ b[k] \in Closed
    BY <1>2, <1>3, <1>6, <2>1, Zenon
  <2>3. \A j \in 1..n : j < k + 1 <=> j < k \/ j = k
    BY ONLY <1>2, <2>1
  <2>4. (Doom(k + 1) <=> Doom(k) \/ Sync(k)) /\ (Skip(k + 1) <=> Skip(k) \/ q[k].t = "skipped")
    BY <2>1, <2>3, Zenon
  <2>5. /\ b[k] = "doomed" => After(b[k], q[k]) = "doomed"
        /\ b[k] # "doomed" /\ Sync(k) => After(b[k], q[k]) = "doomed"
        /\ b[k] # "doomed" /\ q[k].t = "skipped" => After(b[k], q[k]) = "skipped"
        /\ b[k] # "doomed" /\ q[k].t # "skipped" /\ ~Sync(k) => After(b[k], q[k]) = b[k]
    <3> HIDE DEF Doom, Skip
    <3> PICK d : d = q[k]
      BY Zenon
    <3> PICK x : x = b[k]
      BY Zenon
    <3>1. d \in DownMsg /\ d.t # "snapshot" /\ x \in Closed
      BY <2>2, Zenon
    <3>2. /\ x = "doomed" => After(x, d) = "doomed"
          /\ x # "doomed" /\ d.t = "error" /\ d.s = "manifest_sync_failed" => After(x, d) = "doomed"
          /\ x # "doomed" /\ d.t = "skipped" => After(x, d) = "skipped"
          /\ x # "doomed" /\ d.t # "skipped" /\ ~(d.t = "error" /\ d.s = "manifest_sync_failed")
                => After(x, d) = x
      BY ONLY <3>1, AfterClosed, Zenon
    <3> QED
      BY <3>2, Zenon
  <2>6. ~(Sync(k) /\ q[k].t = "skipped")
    OBVIOUS
  <2>7. CASE Doom(k)
    BY <1>4, <2>1, <2>2, <2>4, <2>5, <2>7, Zenon
  <2>8. CASE ~Doom(k) /\ Sync(k)
    <3>1. b[k] # "doomed"
      BY <1>4, <1>5, <2>1, <2>8, Zenon
    <3> QED
      BY <1>4, <2>1, <2>2, <2>4, <2>5, <2>8, <3>1, Zenon
  <2>9. CASE ~Doom(k) /\ ~Sync(k)
    <3>1. b[k] # "doomed" /\ ~Doom(k + 1)
      BY <1>4, <1>5, <2>1, <2>4, <2>9, Zenon
    <3>2. CASE q[k].t = "skipped"
      BY <1>4, <2>1, <2>2, <2>4, <2>5, <3>1, <3>2, Zenon
    <3>3. CASE q[k].t # "skipped"
      <4>1. After(b[k], q[k]) = b[k]
        BY <2>5, <2>9, <3>1, <3>3, Zenon
      <4>2. b[k + 1] = b[k]
        BY <1>4, <2>1, <2>4, <2>9, <3>1, <3>3, Zenon
      <4> QED
        BY <2>2, <4>1, <4>2, Zenon
    <3> QED
      BY <3>2, <3>3, Zenon
  <2> QED
    BY <2>7, <2>8, <2>9, Zenon
<1>11. \A k \in DOMAIN b : b[k] # "staged"
  BY <1>6, <1>7, <1>8, Zenon
<1>12. Runs(q, f, b[n + 1], c, b)
  BY <1>8, <1>9, <1>10, <1>11, Zenon DEF Runs
<1>13. b[n + 1] \in Closed
  <2>1. n + 1 \in 1..(n + 1)
    BY <1>2
  <2> QED
    BY <1>6, <2>1, Zenon
<1> QED
  BY <1>12, <1>13, Zenon DEF Way

-----------------------------------------------------------------------------
(* The invariant behind QuietBoardsAgree.                                  *)

\* The Edge's row once the write in hand is made.
Shown == IF reply # "none" THEN reply ELSE IF click # "none" THEN click ELSE edge

UpHas(t) == \E k \in DOMAIN up : up[k].t = t
Coming(t) == hand.m.t = t \/ UpHas(t)
Releasing == UpHas("release") \/ (hand.m.t = "release" /\ hand.row # "in_transit")
Ending == Coming("cancel") \/ Coming("receipt") \/ (core = "none" /\ ~Coming("request"))

Early == {"none", "queued", "reshuffling"}
Tracked == {"dispatched", "in_transit", "staged", "faulted"}
Done == {"delivered"} \cup Terminal

\* The row z, which the messages on their way lead to, fits Core's.
FitsLive(z) ==
    /\ core \notin Terminal
    /\ core = "none" => z = "submitted" /\ Coming("request")
    /\ core \in {"queued", "reshuffling"} => z \in Acq
    /\ core = "delivered" => z = "delivered"
    /\ core \in Tracked /\ poll.m.s = "delivered" => z = "delivered"
    /\ poll.m.s # "delivered" =>
          /\ core = "dispatched" => z \in Acq \cup {"in_transit"}
          /\ core = "in_transit" => z = "in_transit" \/ (plain /\ z = "staged")
          /\ core = "staged" => z = "staged" \/ (z = "in_transit" /\ Releasing)
          /\ core = "faulted" => z = "faulted"
Fits(z) ==
    /\ z \in Terminal => core \in Terminal \/ Ending
    /\ z \in Live => FitsLive(z)

\* The Edge's two writers do not meet, and nobody has asked for a snapshot.
WriterOK ==
    /\ reply = "none" \/ click = "none"
    /\ click \in {"none", "in_transit", "cancelled", "confirmed"}
    /\ ~Coming("ask")

\* The poller and the scanner work on an order that was dispatched.
PollerOK ==
    /\ core \in Early \cup Tracked \cup Done
    /\ core \in Early => told = "none" /\ poll = Idle /\ ~owed /\ ~robot
    /\ ~robot => poll = Idle /\ (core \in Early \/ core = "dispatched" \/ core \in Terminal)
    /\ robot /\ core = "dispatched" => poll # Idle
    /\ job = "dispatched" => told \in {"none", "dispatched"}
    /\ owed => /\ core \in {"dispatched", "in_transit"} \cup Terminal
               /\ job \in {"dispatched", "in_transit", "cancelled"}
               /\ poll.m.s \in {"none", "dispatched", "in_transit", "cancelled"}

\* A release comes after the robot has set out.
ReleaseOK ==
    /\ Coming("release") => core \in Past
    /\ hand.m.t = "release" => hand.row \in Past
    /\ hand.row = "delivered" => core \in Done

Sound == WriterOK /\ PollerOK /\ ReleaseOK
Ends(z) == Way(down, Shown, z, core)
Agreed == Sound /\ \E z : Ends(z) /\ Fits(z)

\* The statuses Core's row goes through.
LEMMA CoreRows ==
    /\ Past = {"in_transit", "staged", "faulted", "delivered"} \cup Terminal
    /\ Done \subseteq Past /\ Terminal \subseteq Done /\ "delivered" \in Done
    /\ \A c \in Early : c \notin Past /\ c \notin Terminal /\ c \notin Tracked
    /\ \A c \in Tracked : c \notin Terminal /\ c \notin Early /\ c \notin Done
    /\ \A c \in Tracked : c # "dispatched" => c \in Past
    /\ "delivered" \notin Terminal
BY DEF Past, Done, Early, Tracked, Terminal

\* What the Edge has, and what is on its way to Core.
SameBoard ==
    /\ Shown' = Shown /\ UNCHANGED <<reply, click, hand, up, plain>>
    /\ \A t : Coming(t)' = Coming(t)
    /\ Releasing' = Releasing

\* Core works on its own.
LEMMA BoardStays ==
    ASSUME UNCHANGED <<hand, up, board, plain>>
    PROVE  SameBoard
<1>1. hand' = hand /\ up' = up /\ edge' = edge /\ reply' = reply /\ click' = click /\ plain' = plain
  BY Zenon DEF board
<1>2. Shown' = Shown
  BY <1>1, Zenon DEF Shown
<1>3. \A t : UpHas(t)' = UpHas(t)
  BY <1>1, Zenon DEF UpHas
<1> QED
  BY <1>1, <1>2, <1>3, Zenon DEF SameBoard, Coming, Releasing

\* Core's row goes forward only.
Forward ==
    /\ core \in Past => core' \in Past
    /\ core \in Done => core' \in Done
    /\ core \in Terminal => core' \in Terminal
    /\ core' = "none" <=> core = "none"

\* What a step of Core leaves alone.
LEMMA OwnSound ==
    ASSUME Sound, SameBoard, Forward, PollerOK'
    PROVE  Sound'
<1>1. WriterOK'
  BY Zenon DEF Sound, WriterOK, SameBoard
<1>2. ReleaseOK'
  BY Zenon DEF Sound, ReleaseOK, SameBoard, Forward
<1> QED
  BY <1>1, <1>2, Zenon DEF Sound

\* A closed row stays closed.
LEMMA OwnClosed ==
    ASSUME NEW z \in Closed, Fits(z), NEW y \in Closed, z = "doomed" => y = "doomed",
           SameBoard, Forward
    PROVE  Fits(y)'
<1>1. y \notin Live /\ (y \in Terminal => z \in Terminal)
  BY MarksAre, Zenon DEF Closed, Marks
<1>2. Ending' <=> Ending
  BY Zenon DEF Ending, SameBoard, Forward
<1> QED
  BY <1>1, <1>2, Zenon DEF Fits, Forward

\* An order that has ended shows a closed row.
LEMMA EndedFits ==
    ASSUME NEW y \in Closed, core' \in Terminal
    PROVE  Fits(y)'
BY MarksAre, Zenon DEF Fits

\* The board stays, and Core's row does not go back behind its first move.
Onward == Shown' = Shown /\ (core \in Past => core' \in Past)

\* A step of Core is such a step.
LEMMA OwnOnward ==
    ASSUME SameBoard, Forward
    PROVE  Onward
BY Zenon DEF Onward, SameBoard, Forward

\* Nothing is sent.
LEMMA EndsStay ==
    ASSUME NEW z, Ends(z), Onward, down' = down
    PROVE  Ends(z)'
<1>1. Way(down, Shown, z, core')
  BY WayStays, Zenon DEF Ends, Onward
<1> QED
  BY <1>1, Zenon DEF Ends, Onward

\* A message is sent.
LEMMA EndsGrow ==
    ASSUME Good, NEW z, Ends(z), Onward, NEW m \in DownMsg, m.t # "snapshot",
           Send(<<m>>), After(z, m) = "staged" => core' \in Past
    PROVE  Ends(After(z, m))'
<1>1. Way(down, Shown, z, core') /\ down \in Seq(DownMsg)
  BY WayStays, Zenon DEF Ends, Onward, Good, Types, Mail
<1>2. Way(down \o <<m>>, Shown, After(z, m), core')
  BY <1>1, WayGrows
<1> QED
  BY <1>2, Zenon DEF Ends, Onward, Send

\* Two messages are sent.
LEMMA EndsGrowTwo ==
    ASSUME Good, NEW z, Ends(z), Onward, NEW m \in DownMsg, m.t # "snapshot",
           NEW n \in DownMsg, n.t # "snapshot", Send(<<m, n>>),
           After(z, m) = "staged" => core' \in Past,
           After(After(z, m), n) = "staged" => core' \in Past
    PROVE  Ends(After(After(z, m), n))'
<1>1. Way(down, Shown, z, core') /\ down \in Seq(DownMsg)
  BY WayStays, Zenon DEF Ends, Onward, Good, Types, Mail
<1>2. Way(down \o <<m, n>>, Shown, After(After(z, m), n), core')
  BY <1>1, WayGrowsTwo
<1> QED
  BY <1>2, Zenon DEF Ends, Onward, Send

\* The row the board will show.
LEMMA EndsTyped ==
    ASSUME Good, NEW z, Ends(z)
    PROVE  /\ z \in Marks /\ (z \in Live \/ z \in Closed) /\ (down = <<>> => z = Shown)
           /\ z = "staged" \/ Shown = "staged" => core \in Past
<1>1. down \in Seq(DownMsg)
  BY Zenon DEF Good, Types, Mail
<1> QED
  BY <1>1, WayEnds, MarksAre, Zenon DEF Ends

\* A message to a closed row.
LEMMA SendClosed ==
    ASSUME Good, NEW z \in Closed, Ends(z), Fits(z), SameBoard, Forward,
           NEW m \in DownMsg, m.t # "snapshot", Send(<<m>>)
    PROVE  \E y : Ends(y)' /\ Fits(y)'
<1>1. After(z, m) \in Closed /\ (z = "doomed" => After(z, m) = "doomed")
  BY AfterClosed
<1>2. "staged" \notin Closed
  BY DEF Closed, Terminal
<1>3. Ends(After(z, m))'
  BY <1>1, <1>2, EndsGrow, OwnOnward, Zenon
<1>4. Fits(After(z, m))'
  BY <1>1, OwnClosed
<1> QED
  BY <1>3, <1>4, Zenon

\* Two messages to a closed row.
LEMMA SendClosedTwo ==
    ASSUME Good, NEW z \in Closed, Ends(z), Fits(z), SameBoard, Forward,
           NEW m \in DownMsg, m.t # "snapshot", NEW n \in DownMsg, n.t # "snapshot", Send(<<m, n>>)
    PROVE  \E y : Ends(y)' /\ Fits(y)'
<1>1. After(z, m) \in Closed /\ (z = "doomed" => After(z, m) = "doomed")
  BY AfterClosed
<1>2. /\ After(After(z, m), n) \in Closed
      /\ After(z, m) = "doomed" => After(After(z, m), n) = "doomed"
  BY <1>1, AfterClosed
<1>3. "staged" \notin Closed
  BY DEF Closed, Terminal
<1>4. Ends(After(After(z, m), n))'
  BY <1>1, <1>2, <1>3, EndsGrowTwo, OwnOnward, Zenon
<1>5. Fits(After(After(z, m), n))'
  BY <1>1, <1>2, OwnClosed, Zenon
<1> QED
  BY <1>4, <1>5, Zenon

\* A message that closes the row ends the order.
LEMMA SendEnd ==
    ASSUME Good, NEW z, Ends(z), Onward, core' \in Terminal,
           NEW m \in DownMsg, Send(<<m>>),
           \/ m.t \in {"cancelled", "skipped"}
           \/ m.t = "error" /\ m.s \in {"rejected", "not_found"}
           \/ m.t = "update" /\ m.s = "confirmed"
    PROVE  \E y : Ends(y)' /\ Fits(y)'
<1>1. After(z, m) \in Closed
  BY EndsTyped, Closing, Zenon
<1>2. "staged" \notin Closed /\ m.t # "snapshot"
  BY DEF Closed, Terminal
<1>3. Ends(After(z, m))'
  BY <1>1, <1>2, EndsGrow, Zenon
<1>4. Fits(After(z, m))'
  BY <1>1, EndedFits
<1> QED
  BY <1>3, <1>4, Zenon

\* The same with a second message.
LEMMA SendEndTwo ==
    ASSUME Good, NEW z, Ends(z), Onward, core' \in Terminal,
           NEW m \in DownMsg, m.t # "snapshot", NEW n \in DownMsg, Send(<<m, n>>),
           \/ n.t \in {"cancelled", "skipped"}
           \/ n.t = "error" /\ n.s \in {"rejected", "not_found"}
           \/ n.t = "update" /\ n.s = "confirmed"
    PROVE  \E y : Ends(y)' /\ Fits(y)'
<1>1. After(z, m) \in Marks
  BY EndsTyped, AfterTyped, Zenon
<1>2. After(After(z, m), n) \in Closed
  BY <1>1, Closing, Zenon
<1>3. "staged" \notin Closed /\ n.t # "snapshot"
  BY DEF Closed, Terminal
<1>4. core' \in Past
  BY CoreRows, Zenon
<1>5. Ends(After(After(z, m), n))'
  BY <1>2, <1>3, <1>4, EndsGrowTwo, Zenon
<1>6. Fits(After(After(z, m), n))'
  BY <1>2, EndedFits
<1> QED
  BY <1>5, <1>6, Zenon

\* The fleet moves the job.
LEMMA FleetAgrees ==
    ASSUME Good, Agreed, Drive \/ Fault \/ Recover \/ StopAtFleet
    PROVE  Agreed'
<1>1. /\ UNCHANGED <<hand, up, board, plain>> /\ UNCHANGED <<core, told, poll, robot, owed, down>>
      /\ owed => job' \in {"dispatched", "in_transit", "cancelled"}
      /\ job' # "dispatched"
  <2>1. CASE Drive
    BY <2>1 DEF Drive
  <2>2. CASE Fault \/ StopAtFleet
    BY <2>2 DEF Fault, StopAtFleet
  <2>3. CASE Recover
    <3>1. owed => job # "faulted"
      BY DEF Agreed, Sound, PollerOK
    <3> QED
      BY <2>3, <3>1 DEF Recover
  <2> QED
    BY <2>1, <2>2, <2>3, Zenon
<1>2. SameBoard /\ Forward
  BY <1>1, BoardStays, Zenon DEF Forward
<1>3. PollerOK'
  BY <1>1, Zenon DEF Agreed, Sound, PollerOK
<1>4. Sound'
  BY <1>2, <1>3, OwnSound, Zenon DEF Agreed
<1>5. PICK z : Ends(z) /\ Fits(z)
  BY Zenon DEF Agreed
<1>6. Ends(z)'
  BY <1>1, <1>2, <1>5, EndsStay, OwnOnward, Zenon
<1>7. Ending' <=> Ending
  BY <1>1, <1>2, Zenon DEF Ending, SameBoard
<1>8. core' = core /\ poll' = poll /\ plain' = plain /\ Releasing' = Releasing
      /\ Coming("request")' = Coming("request")
  BY <1>1, <1>2, Zenon DEF SameBoard
<1>9. FitsLive(z) => FitsLive(z)'
  BY <1>8, Zenon DEF FitsLive
<1>10. Fits(z)'
  BY <1>5, <1>7, <1>8, <1>9, Zenon DEF Fits
<1> QED
  BY <1>4, <1>6, <1>10, Zenon DEF Agreed

\* notifyEdgeDispatched: whatever the board will show by now, it shows a moving
\* order in the end.
LEMMA NotifyAgrees ==
    ASSUME Good, Agreed, NotifyEdgeDispatched
    PROVE  Agreed'
<1>1. /\ UNCHANGED <<hand, up, board, plain>> /\ UNCHANGED <<core, told, poll, robot, job>>
      /\ owed /\ owed' = FALSE /\ Send(<<Msg("ack", "none"), Msg("waybill", "none")>>)
  BY Zenon DEF NotifyEdgeDispatched
<1>2. SameBoard /\ Forward
  BY <1>1, BoardStays, Zenon DEF Forward
<1>3. PollerOK'
  BY <1>1, Zenon DEF Agreed, Sound, PollerOK
<1>4. Sound'
  BY <1>2, <1>3, OwnSound, Zenon DEF Agreed
<1>5. PICK z : Ends(z) /\ Fits(z)
  BY Zenon DEF Agreed
<1> PICK m : m = Msg("ack", "none")
  BY Zenon
<1> PICK n : n = Msg("waybill", "none")
  BY Zenon
<1>6. /\ m \in DownMsg /\ m.t = "ack" /\ m.t # "snapshot"
      /\ n \in DownMsg /\ n.t = "waybill" /\ n.t # "snapshot" /\ Send(<<m, n>>)
  BY <1>1, Wording DEF Msg
<1>7. CASE z \in Closed
  BY <1>2, <1>4, <1>5, <1>6, <1>7, SendClosedTwo DEF Agreed
<1>8. CASE z \in Live
  <2>1. core \in {"dispatched", "in_transit"} /\ poll.m.s # "delivered"
    BY <1>1, <1>5, <1>8 DEF Agreed, Sound, PollerOK, Fits, FitsLive
  <2>2. z \in Acq \cup {"in_transit", "staged"}
    BY <1>5, <1>8, <2>1 DEF Fits, FitsLive
  <2>3. After(z, m) \in {"acknowledged", z} /\ After(z, m) \in Acq \cup {"in_transit", "staged"}
    BY <1>6, <2>2, AfterWaybill DEF Acq
  <2>4. After(After(z, m), n) = "in_transit"
    BY <1>6, <2>3, AfterWaybill
  <2>5. After(z, m) = "staged" => core' \in Past
    BY <1>1, <1>5, <2>3, EndsTyped
  <2>6. Ends("in_transit")'
    BY <1>2, <1>5, <1>6, <2>4, <2>5, EndsGrowTwo, OwnOnward
  <2>7. Fits("in_transit")'
    BY <1>1, <2>1 DEF Fits, FitsLive, Terminal, Early, Tracked, Done
  <2> QED
    BY <1>4, <2>6, <2>7, Zenon DEF Agreed
<1> QED
  BY <1>5, <1>7, <1>8, EndsTyped

\* The scanner dispatches, a dig begins, a lane wait is released: no word to
\* the Edge.
LEMMA MuteAgrees ==
    ASSUME Good, Agreed, Dispatch \/ BeginReshuffle \/ ReleaseGate
    PROVE  Agreed'
<1>1. /\ UNCHANGED <<hand, up, board, plain>> /\ UNCHANGED <<poll, robot, down>>
      /\ \/ core = "queued" /\ core' = "dispatched"
         \/ core = "queued" /\ core' = "reshuffling" /\ UNCHANGED <<told, owed, job>>
         \/ plain /\ core = "staged" /\ core' = "in_transit" /\ UNCHANGED <<told, owed>>
      /\ core' = "dispatched" => job' = "dispatched" /\ told' = "dispatched"
      /\ job' = "dispatched" => told' = "dispatched" \/ (job = "dispatched" /\ told' = told)
  BY DEF Dispatch, BeginReshuffle, ReleaseGate, mission
<1>2. SameBoard
  BY <1>1, BoardStays, Zenon
<1>3. Forward
  BY <1>1 DEF Forward, Past, Done, Terminal
<1>4. PollerOK'
  <2>1. poll = Idle => poll.m.s = "none"
    BY DEF Idle, Msg
  <2> QED
    BY <1>1, <2>1 DEF Agreed, Sound, PollerOK, Early, Tracked, Done, Terminal
<1>5. Sound'
  BY <1>2, <1>3, <1>4, OwnSound, Zenon DEF Agreed
<1>6. PICK z : Ends(z) /\ Fits(z)
  BY Zenon DEF Agreed
<1>7. Ends(z)'
  BY <1>1, <1>2, <1>3, <1>6, EndsStay, OwnOnward, Zenon
<1>8. CASE z \in Closed
  BY <1>2, <1>3, <1>5, <1>6, <1>7, <1>8, OwnClosed, Zenon DEF Agreed
<1>9. CASE z \in Live
  <2>1. FitsLive(z)
    BY <1>6, <1>9, Zenon DEF Fits
  <2>2. core = "queued" => poll.m.s # "delivered"
    BY DEF Agreed, Sound, PollerOK, Early, Idle, Msg
  <2>3. FitsLive(z)'
    BY <1>1, <2>1, <2>2 DEF FitsLive, Terminal, Tracked
  <2>4. z \notin Terminal
    BY <1>9, Statuses, Zenon
  <2> QED
    BY <1>5, <1>7, <2>3, <2>4, Zenon DEF Agreed, Fits
<1> QED
  BY <1>6, <1>8, <1>9, EndsTyped

\* A dig ends: the board will show a queued order.
LEMMA ResumeAgrees ==
    ASSUME Good, Agreed, ResumeCompound
    PROVE  Agreed'
<1>1. /\ UNCHANGED <<hand, up, board, plain>> /\ UNCHANGED <<told, owed, job, poll, robot>>
      /\ core = "reshuffling" /\ core' = "queued" /\ Send(<<Msg("update", "queued")>>)
  BY Zenon DEF ResumeCompound, mission, Update
<1>2. SameBoard
  BY <1>1, BoardStays, Zenon
<1>3. Forward
  BY <1>1 DEF Forward, Past, Done, Terminal
<1>4. PollerOK'
  BY <1>1 DEF Agreed, Sound, PollerOK, Early, Tracked, Done, Terminal
<1>5. Sound'
  BY <1>2, <1>3, <1>4, OwnSound, Zenon DEF Agreed
<1>6. PICK z : Ends(z) /\ Fits(z)
  BY Zenon DEF Agreed
<1> PICK m : m = Msg("update", "queued")
  BY Zenon
<1>7. m \in DownMsg /\ m.t # "snapshot" /\ Send(<<m>>)
  BY <1>1, Wording DEF Msg, Row, Status, Live
<1>8. CASE z \in Closed
  BY <1>2, <1>3, <1>5, <1>6, <1>7, <1>8, SendClosed DEF Agreed
<1>9. CASE z \in Live
  <2>1. After(z, m) = "queued"
    BY <1>9, AfterUpdate DEF Applied
  <2>2. Ends("queued")'
    BY <1>2, <1>3, <1>6, <1>7, <2>1, EndsGrow, OwnOnward
  <2>3. Fits("queued")'
    BY <1>1 DEF Fits, FitsLive, Terminal, Tracked, Acq
  <2> QED
    BY <1>5, <2>2, <2>3, Zenon DEF Agreed
<1> QED
  BY <1>6, <1>8, <1>9, EndsTyped

\* Messages sent together.
LEMMA Joining ==
    ASSUME NEW m, NEW n
    PROVE  /\ <<m>> \o <<n>> = <<m, n>> /\ <<m>> \o <<>> = <<m>>
           /\ <<>> \o <<n>> = <<n>> /\ <<>> \o <<>> = <<>>
<1>1. <<m>> \o <<n>> = <<m, n>>
  <2> PICK S : S = {m, n}
    BY Zenon
  <2> PICK s : s = <<m>> \o <<n>>
    BY Zenon
  <2> PICK t : t = <<m, n>>
    BY Zenon
  <2>1. m \in S /\ n \in S
    BY Zenon
  <2>2. s \in Seq(S) /\ Len(s) = 2 /\ s[1] = m /\ s[2] = n
    BY <2>1
  <2>3. t \in Seq(S) /\ Len(t) = 2 /\ t[1] = m /\ t[2] = n
    BY <2>1
  <2>4. \A k \in 1..2 : s[k] = t[k]
    BY ONLY <2>2, <2>3
  <2>5. s = t
    BY ONLY <2>2, <2>3, <2>4
  <2> QED
    BY <2>5, Zenon
<1>2. <<m>> \o <<>> = <<m>>
  OBVIOUS
<1>3. <<>> \o <<n>> = <<n>>
  OBVIOUS
<1>4. <<>> \o <<>> = <<>>
  OBVIOUS
<1> QED
  BY <1>1, <1>2, <1>3, <1>4, Zenon

\* Core ends the order by itself.
LEMMA EndAgrees ==
    ASSUME Good, Agreed, EndInPlanning \/ CancelAtCore \/ GraceExpires \/ AutoConfirm
    PROVE  Agreed'
<1>1. /\ UNCHANGED <<hand, up, board, plain>> /\ UNCHANGED <<poll, robot, told, owed>>
      /\ core \in Live /\ core' \in Terminal /\ job' \in {job, "cancelled"}
  BY DEF EndInPlanning, CancelAtCore, GraceExpires, AutoConfirm, mission, StopJob, Live, Terminal
<1>2. PICK m \in {Msg("error", "rejected"), Msg("skipped", "none"), Msg("cancelled", "none"),
                  Msg("update", "confirmed")} : Send(<<m>>)
  BY Zenon DEF EndInPlanning, CancelAtCore, GraceExpires, AutoConfirm, Update
<1>3. /\ m \in DownMsg
      /\ \/ m.t \in {"cancelled", "skipped"}
         \/ m.t = "error" /\ m.s \in {"rejected", "not_found"}
         \/ m.t = "update" /\ m.s = "confirmed"
  BY Wording DEF Msg, Row, Status, Terminal, Codes
<1>4. SameBoard
  BY <1>1, BoardStays, Zenon
<1>5. Forward
  <2>1. core \notin Terminal /\ core # "none" /\ core' # "none"
    BY <1>1, Statuses, Zenon
  <2> QED
    BY <1>1, <2>1, CoreRows, Zenon DEF Forward
<1>6. PollerOK'
  BY <1>1 DEF Agreed, Sound, PollerOK, Early, Tracked, Done, Terminal
<1>7. Sound'
  BY <1>4, <1>5, <1>6, OwnSound, Zenon DEF Agreed
<1>8. PICK z : Ends(z) /\ Fits(z)
  BY Zenon DEF Agreed
<1>9. \E y : Ends(y)' /\ Fits(y)'
  BY <1>1, <1>2, <1>3, <1>4, <1>5, <1>8, SendEnd, OwnOnward
<1> QED
  BY <1>7, <1>9, Zenon DEF Agreed

\* A report is read: a delivery is announced before it is recorded.
LEMMA ReportAgrees ==
    ASSUME Good, Agreed, Report
    PROVE  Agreed'
<1>1. /\ UNCHANGED <<hand, up, board, plain>> /\ UNCHANGED <<core, owed, job>>
      /\ poll = Idle /\ told # "none" /\ job # told /\ robot' /\ told' \in {"none", job}
      /\ poll' = IF job = core THEN Idle ELSE Held(Msg("report", job))
  BY Zenon DEF Report
<1>2. /\ poll.m.s = "none" /\ (job = core => poll'.m.s = "none")
      /\ job # core => poll'.m.s = job /\ poll' # Idle
  BY <1>1 DEF Idle, Held, Msg
<1>3. SameBoard /\ Forward
  BY <1>1, BoardStays, Zenon DEF Forward
<1>4. PollerOK /\ core \notin Early /\ job # "dispatched"
  BY <1>1 DEF Agreed, Sound, PollerOK
<1>5. PollerOK'
  BY <1>1, <1>2, <1>4 DEF PollerOK
<1>6. Sound'
  BY <1>3, <1>5, OwnSound, Zenon DEF Agreed
<1>7. PICK z : Ends(z) /\ Fits(z)
  BY Zenon DEF Agreed
<1> PICK m : m = Msg("waybill", "none")
  BY Zenon
<1> PICK n : n = Msg("delivered", "none")
  BY Zenon
<1>8. /\ m \in DownMsg /\ m.t = "waybill" /\ m.t # "snapshot"
      /\ n \in DownMsg /\ n.t = "delivered" /\ n.t # "snapshot"
  BY Wording DEF Msg
<1> DEFINE Arrives == job = "delivered" /\ job # core
<1>9. /\ ~robot /\ Arrives => Send(<<m, n>>)
      /\ ~robot /\ ~Arrives => Send(<<m>>)
      /\ robot /\ Arrives => Send(<<n>>)
      /\ robot /\ ~Arrives => down' = down
  <2>1. down \in Seq(DownMsg)
    BY Zenon DEF Good, Types, Mail
  <2>2. /\ <<m>> \o <<n>> = <<m, n>> /\ <<m>> \o <<>> = <<m>>
        /\ <<>> \o <<n>> = <<n>> /\ <<>> \o <<>> = <<>>
    BY Joining, Zenon
  <2>3. Send((IF robot THEN <<>> ELSE <<m>>) \o (IF Arrives THEN <<n>> ELSE <<>>))
    BY Zenon DEF Report
  <2>4. down \o <<>> = down
    BY <2>1
  <2> QED
    BY <2>2, <2>3, <2>4, Zenon DEF Send
<1> HIDE DEF Arrives
<1>10. CASE z \in Closed
  <2>1. CASE robot /\ ~Arrives
    <3>1. Ends(z)' /\ Fits(z)'
      BY <1>3, <1>7, <1>9, <1>10, <2>1, EndsStay, OwnOnward, OwnClosed, Zenon
    <3> QED
      BY <1>6, <3>1, Zenon DEF Agreed
  <2>2. CASE ~robot /\ Arrives
    BY <1>3, <1>6, <1>7, <1>8, <1>9, <1>10, <2>2, SendClosedTwo DEF Agreed
  <2>3. CASE ~robot /\ ~Arrives
    BY <1>3, <1>6, <1>7, <1>8, <1>9, <1>10, <2>3, SendClosed DEF Agreed
  <2>4. CASE robot /\ Arrives
    BY <1>3, <1>6, <1>7, <1>8, <1>9, <1>10, <2>4, SendClosed DEF Agreed
  <2> QED
    BY <2>1, <2>2, <2>3, <2>4, Zenon
<1>11. CASE z \in Live
  <2>1. FitsLive(z) /\ core \in Tracked \cup {"delivered"}
    BY <1>4, <1>7, <1>11 DEF Fits, FitsLive, PollerOK, Done
  <2>2. CASE ~robot
    <3>1. core = "dispatched" /\ z \in Acq \cup {"in_transit"}
      BY <1>2, <1>4, <2>1, <2>2 DEF PollerOK, FitsLive
    <3>2. After(z, m) = "in_transit" /\ After("in_transit", n) = "delivered"
      BY <1>8, <3>1, AfterWaybill, AfterStop
    <3>3. CASE Arrives
      <4>1. Ends("delivered")'
        BY <1>3, <1>7, <1>8, <1>9, <2>2, <3>2, <3>3, EndsGrowTwo, OwnOnward
      <4>2. Fits("delivered")'
        BY <1>1, <1>2, <3>1, <3>3 DEF Arrives, Fits, FitsLive, Terminal, Tracked
      <4> QED
        BY <1>6, <4>1, <4>2, Zenon DEF Agreed
    <3>4. CASE ~Arrives
      <4>1. Ends("in_transit")'
        BY <1>3, <1>7, <1>8, <1>9, <2>2, <3>2, <3>4, EndsGrow, OwnOnward
      <4>2. Fits("in_transit")'
        BY <1>1, <1>2, <3>1, <3>4 DEF Arrives, Fits, FitsLive, Terminal, Tracked
      <4> QED
        BY <1>6, <4>1, <4>2, Zenon DEF Agreed
    <3> QED
      BY <3>3, <3>4, Zenon
  <2>3. CASE robot /\ Arrives
    <3>1. core # "dispatched" /\ core # "delivered"
      BY <1>1, <1>4, <2>3 DEF PollerOK, Arrives
    <3>2. z \in {"in_transit", "staged", "faulted"} /\ core \in Tracked
      BY <1>2, <2>1, <3>1 DEF FitsLive, Tracked
    <3>3. After(z, n) = "delivered"
      BY <1>8, <3>2, AfterStop
    <3>4. Ends("delivered")'
      BY <1>3, <1>7, <1>8, <1>9, <2>3, <3>3, EndsGrow, OwnOnward
    <3>5. Fits("delivered")'
      BY <1>1, <1>2, <2>3, <3>2 DEF Arrives, Fits, FitsLive, Terminal, Tracked
    <3> QED
      BY <1>6, <3>4, <3>5, Zenon DEF Agreed
  <2>4. CASE robot /\ ~Arrives
    <3>1. Ends(z)'
      BY <1>3, <1>7, <1>9, <2>4, EndsStay, OwnOnward, Zenon
    <3>2. poll'.m.s # "delivered"
      BY <1>2, <2>4 DEF Arrives
    <3>3. z \notin Terminal
      BY <1>11, Statuses, Zenon
    <3>4. core' = core /\ plain' = plain /\ Releasing' = Releasing /\ core # "none"
      BY <1>1, <1>3, <1>4 DEF SameBoard, Early
    <3>5. FitsLive(z)'
      BY <1>2, <2>1, <3>2, <3>4 DEF FitsLive
    <3> QED
      BY <1>6, <3>1, <3>3, <3>5, Zenon DEF Agreed, Fits
  <2> QED
    BY <2>2, <2>3, <2>4, Zenon
<1> QED
  BY <1>7, <1>10, <1>11, EndsTyped

\* The report is written and told.
LEMMA MarkAgrees ==
    ASSUME Good, Agreed, lapse' = {}, MarkStatus
    PROVE  Agreed'
<1> PICK s : s = poll.m.s
  BY Zenon
<1>1. /\ UNCHANGED <<hand, up, board, plain>> /\ UNCHANGED <<robot, owed, job, told>>
      /\ poll' = Idle /\ s \in {"in_transit", "staged", "faulted", "delivered"}
      /\ \/ core' = s /\ IsValidTransition(core, s)
         \/ core' = core /\ core \in Terminal
  BY Zenon DEF MarkStatus, mission, CanMark, Ended
<1>2. poll # Idle /\ poll'.m.s = "none"
  BY <1>1 DEF Idle, Msg
<1>3. PollerOK /\ robot /\ core \in Tracked \cup Done
  BY <1>2 DEF Agreed, Sound, PollerOK
<1>4. core' # core => /\ core' = s /\ core \in Tracked /\ (s = "staged" => core = "in_transit")
  <2>1. IsValidTransition(core, s) => core \in Tracked /\ (s = "staged" => core = "in_transit")
    BY <1>1, <1>3 DEF IsValidTransition, Live, ValidTransitions, Tracked, Done, Terminal
  <2> QED
    BY <1>1, <2>1
<1>5. core' = core => core \in Terminal
  <2>1. /\ ~IsValidTransition("in_transit", "in_transit") /\ ~IsValidTransition("staged", "staged")
        /\ ~IsValidTransition("faulted", "faulted") /\ ~IsValidTransition("delivered", "delivered")
    BY DEF IsValidTransition, ValidTransitions
  <2> QED
    BY <1>1, <2>1
<1>6. SameBoard
  BY <1>1, BoardStays, Zenon
<1>7. Forward
  <2>1. core' # core => core' \in Past /\ core \notin Done /\ core # "none" /\ core' # "none"
    BY <1>1, <1>4 DEF Tracked, Done, Past, Terminal
  <2> QED
    BY <2>1, CoreRows, Zenon DEF Forward
<1>8. PollerOK'
  <2>1. core' \in Terminal \/ (core' = s /\ (owed => s = "in_transit"))
    BY <1>1, <1>3 DEF PollerOK
  <2> QED
    BY <1>1, <1>2, <1>3, <2>1 DEF PollerOK, Early, Tracked, Done, Terminal
<1>9. Sound'
  BY <1>6, <1>7, <1>8, OwnSound, Zenon DEF Agreed
<1>10. PICK z : Ends(z) /\ Fits(z)
  BY Zenon DEF Agreed
<1> PICK m : m = Msg("update", s)
  BY Zenon
<1> PICK n : n = Msg("staged", "none")
  BY Zenon
<1>11. /\ m \in DownMsg /\ m.t # "snapshot" /\ n \in DownMsg /\ n.t = "staged" /\ n.t # "snapshot"
  BY <1>1, Wording DEF Msg, Row, Status, Live
<1>12. /\ s = "staged" => Send(<<m, n>>)
       /\ s # "staged" => Send(<<m>>)
  <2>1. <<m>> \o <<n>> = <<m, n>> /\ <<m>> \o <<>> = <<m>>
    BY Joining, Zenon
  <2>2. Send(<<m>> \o (IF s = "staged" THEN <<n>> ELSE <<>>))
    BY Zenon DEF MarkStatus, Update
  <2> QED
    BY <2>1, <2>2, Zenon
<1>13. CASE z \in Closed
  <2>1. CASE s = "staged"
    BY <1>6, <1>7, <1>9, <1>10, <1>11, <1>12, <1>13, <2>1, SendClosedTwo DEF Agreed
  <2>2. CASE s # "staged"
    BY <1>6, <1>7, <1>9, <1>10, <1>11, <1>12, <1>13, <2>2, SendClosed DEF Agreed
  <2> QED
    BY <2>1, <2>2, Zenon
<1>14. CASE z \in Live
  <2>1. FitsLive(z) /\ core' = s /\ core \in Tracked /\ (s = "staged" => core = "in_transit")
    BY <1>4, <1>5, <1>10, <1>14, Zenon DEF Fits, FitsLive
  <2>2. After(z, m) = IF s \in Applied THEN s ELSE z
    BY <1>14, AfterUpdate, Zenon
  <2>3. CASE s \in {"in_transit", "faulted"}
    <3>1. After(z, m) = s
      BY <2>2, <2>3 DEF Applied
    <3>2. Ends(s)'
      BY <1>6, <1>7, <1>10, <1>11, <1>12, <2>3, <3>1, EndsGrow, OwnOnward
    <3>3. Fits(s)'
      BY <1>2, <2>1, <2>3 DEF Fits, FitsLive, Terminal, Tracked
    <3> QED
      BY <1>9, <3>2, <3>3, Zenon DEF Agreed
  <2>4. CASE s = "delivered"
    <3>1. z = "delivered"
      BY <2>1, <2>4 DEF FitsLive
    <3>2. After(z, m) = "delivered"
      BY <2>2, <2>4, <3>1 DEF Applied
    <3>3. Ends("delivered")'
      BY <1>6, <1>7, <1>10, <1>11, <1>12, <2>4, <3>2, EndsGrow, OwnOnward
    <3>4. Fits("delivered")'
      BY <1>2, <2>1, <2>4 DEF Fits, FitsLive, Terminal, Tracked
    <3> QED
      BY <1>9, <3>3, <3>4, Zenon DEF Agreed
  <2>5. CASE s = "staged"
    <3>1. z \in {"in_transit", "staged"}
      BY <2>1, <2>5 DEF FitsLive
    <3>2. After(z, m) = z
      BY <2>2, <2>5 DEF Applied
    <3>3. After(z, n) = "staged"
      BY <1>11, <3>1, AfterStop
    <3>4. core' \in Past
      BY <2>1, <2>5 DEF Past
    <3>5. Ends("staged")'
      BY <1>6, <1>7, <1>10, <1>11, <1>12, <2>5, <3>2, <3>3, <3>4, EndsGrowTwo, OwnOnward
    <3>6. Fits("staged")'
      BY <1>2, <2>1, <2>5 DEF Fits, FitsLive, Terminal, Tracked
    <3> QED
      BY <1>9, <3>5, <3>6, Zenon DEF Agreed
  <2> QED
    BY <1>1, <2>3, <2>4, <2>5
<1> QED
  BY <1>10, <1>13, <1>14, EndsTyped

\* The fleet ended the job.
LEMMA FleetCancelAgrees ==
    ASSUME Good, Agreed, FleetOrderCancelled
    PROVE  Agreed'
<1>1. /\ UNCHANGED <<hand, up, board, plain>> /\ UNCHANGED <<robot, owed, job, told>>
      /\ poll # Idle /\ poll' = Idle
  BY Zenon DEF FleetOrderCancelled, mission
<1> PICK m : m = Msg("update", "cancelled")
  BY Zenon
<1> PICK n : n = Msg("cancelled", "none")
  BY Zenon
<1>2. /\ m \in DownMsg /\ m.t # "snapshot" /\ n \in DownMsg /\ n.t = "cancelled"
  BY Wording DEF Msg, Row, Status, Terminal
<1>3. /\ core' \in Terminal /\ (core \in Terminal => core' = core)
      /\ core \in Terminal => Send(<<m>>)
      /\ core \notin Terminal => Send(<<m, n>>)
  <2>1. <<m>> \o <<n>> = <<m, n>> /\ <<m>> \o <<>> = <<m>>
    BY Joining, Zenon
  <2>2. CASE poll.row \in Terminal
    BY <2>2, Zenon DEF FleetOrderCancelled, Update, Good, RowsRead
  <2>3. CASE poll.row \notin Terminal
    <3>1. Terminalize("cancelled") /\ Send(<<m>> \o Event(<<n>>))
      BY <2>3, Zenon DEF FleetOrderCancelled, Update
    <3>2. "cancelled" \in Terminal
      BY DEF Terminal
    <3> QED
      BY <2>1, <3>1, <3>2, Zenon DEF Terminalize, Event, Ended
  <2> QED
    BY <2>2, <2>3, Zenon
<1>4. SameBoard
  BY <1>1, BoardStays, Zenon
<1>5. core # "none" /\ core' # "none"
  BY <1>1, <1>3, Statuses, Zenon DEF Good, RowsRead
<1>6. Forward
  BY <1>3, <1>5, CoreRows, Zenon DEF Forward
<1>7. PollerOK'
  <2>1. poll'.m.s = "none"
    BY <1>1 DEF Idle, Msg
  <2> QED
    BY <1>1, <1>3, <2>1 DEF Agreed, Sound, PollerOK, Early, Tracked, Done, Terminal
<1>8. Sound'
  BY <1>4, <1>6, <1>7, OwnSound, Zenon DEF Agreed
<1>9. PICK z : Ends(z) /\ Fits(z)
  BY Zenon DEF Agreed
<1>10. CASE core \in Terminal
  <2>1. z \in Closed
    BY <1>9, <1>10, EndsTyped, Zenon DEF Fits, FitsLive
  <2> QED
    BY <1>2, <1>3, <1>4, <1>6, <1>8, <1>9, <1>10, <2>1, SendClosed DEF Agreed
<1>11. CASE core \notin Terminal
  <2>1. \E y : Ends(y)' /\ Fits(y)'
    BY <1>2, <1>3, <1>4, <1>6, <1>9, <1>11, SendEndTwo, OwnOnward
  <2> QED
    BY <1>8, <2>1, Zenon DEF Agreed
<1> QED
  BY <1>10, <1>11, Zenon

-----------------------------------------------------------------------------
(* The steps of Core's message goroutine.                                  *)

\* A message was handled: what is on its way to Core is in the outbox.
Served ==
    /\ Onward /\ UNCHANGED <<reply, click, up, plain>>
    /\ hand'.m.t \in {"none", "queued"} /\ hand'.row \in {"none", "queued"}
    /\ \A t : UpHas(t)' = UpHas(t)

\* A handler ends, or sends its answer later.
LEMMA Serving ==
    ASSUME UNCHANGED <<up, board, plain>>, core \in Past => core' \in Past,
           hand' \in {Idle, [m |-> Msg("queued", "none"), row |-> "queued"]}
    PROVE  Served
<1>1. up' = up /\ edge' = edge /\ reply' = reply /\ click' = click /\ plain' = plain
  BY Zenon DEF board
<1>2. Onward
  BY <1>1, Zenon DEF Onward, Shown
<1>3. \A t : UpHas(t)' = UpHas(t)
  BY <1>1, Zenon DEF UpHas
<1>4. hand'.m.t \in {"none", "queued"} /\ hand'.row \in {"none", "queued"}
  BY DEF Idle, Msg
<1> QED
  BY <1>1, <1>2, <1>3, <1>4, Zenon DEF Served

\* What is coming after a message was handled.
LEMMA StillComing ==
    ASSUME Served
    PROVE  /\ \A t \in {"request", "release", "cancel", "receipt", "ask"} : (Coming(t)' <=> UpHas(t))
           /\ Releasing' <=> UpHas("release")
<1>1. \A t \in {"request", "release", "cancel", "receipt", "ask"} : hand'.m.t # t
  BY DEF Served
<1>2. \A t : UpHas(t)' = UpHas(t)
  BY Zenon DEF Served
<1>3. \A t \in {"request", "release", "cancel", "receipt", "ask"} : Coming(t)' <=> UpHas(t)
  BY <1>1, <1>2, Zenon DEF Coming
<1>4. hand'.m.t # "release"
  BY <1>1
<1>5. Releasing' <=> UpHas("release")
  BY <1>2, <1>4, Zenon DEF Releasing
<1> QED
  BY <1>3, <1>5, Zenon

\* The goroutine leaves the writers alone.
LEMMA ServedSound ==
    ASSUME Sound, Served, PollerOK'
    PROVE  Sound'
<1>1. WriterOK'
  BY StillComing, Zenon DEF Sound, WriterOK, Served, Coming
<1>2. ReleaseOK'
  <2>1. "delivered" \notin {"none", "queued"} /\ "release" \notin {"none", "queued"}
    OBVIOUS
  <2> QED
    BY <2>1, StillComing, Zenon DEF Sound, ReleaseOK, Served, Onward, Coming
<1> QED
  BY <1>1, <1>2, Zenon DEF Sound

\* A closed row stays closed.
LEMMA ServedClosed ==
    ASSUME Good, NEW z \in Closed, Fits(z), NEW y \in Closed, z = "doomed" => y = "doomed",
           Served, core \in Terminal => core' \in Terminal,
           hand.m.t \notin {"cancel", "receipt"}, core = "none" => core' = "none" \/ hand.m.t = "request"
    PROVE  Fits(y)'
<1>1. y \notin Live /\ (y \in Terminal => z \in Terminal)
  BY MarksAre, Zenon DEF Closed, Marks
<1>2. SUFFICES ASSUME y \in Terminal, core' \notin Terminal PROVE Ending'
  BY <1>1, Zenon DEF Fits
<1>3. Ending
  BY <1>1, <1>2, Zenon DEF Fits
<1>4. CASE UpHas("cancel") \/ UpHas("receipt")
  BY <1>4, StillComing, Zenon DEF Ending
<1>5. CASE ~(UpHas("cancel") \/ UpHas("receipt"))
  <2>1. core = "none" /\ ~Coming("request")
    BY <1>3, <1>5 DEF Ending, Coming
  <2> QED
    BY <2>1, StillComing, Zenon DEF Ending, Coming
<1> QED
  BY <1>4, <1>5, Zenon

\* An answer to a closed row.
LEMMA AnswerClosed ==
    ASSUME Good, NEW z \in Closed, Ends(z), Fits(z), Served, core \in Terminal => core' \in Terminal,
           hand.m.t \notin {"cancel", "receipt"}, core = "none" => core' = "none" \/ hand.m.t = "request",
           \/ down' = down
           \/ \E m \in DownMsg : m.t # "snapshot" /\ Send(<<m>>)
    PROVE  \E y : Ends(y)' /\ Fits(y)'
<1>1. Onward
  BY Zenon DEF Served
<1>2. CASE down' = down
  <2>1. Ends(z)'
    BY <1>1, <1>2, EndsStay, Zenon
  <2>2. Fits(z)'
    BY ServedClosed
  <2> QED
    BY <2>1, <2>2, Zenon
<1>3. ASSUME NEW m \in DownMsg, m.t # "snapshot", Send(<<m>>)
      PROVE  \E y : Ends(y)' /\ Fits(y)'
  <2>1. After(z, m) \in Closed /\ (z = "doomed" => After(z, m) = "doomed")
    BY <1>3, AfterClosed
  <2>2. "staged" \notin Closed
    BY DEF Closed, Terminal
  <2>3. Ends(After(z, m))'
    BY <1>1, <1>3, <2>1, <2>2, EndsGrow, Zenon
  <2>4. Fits(After(z, m))'
    BY <2>1, ServedClosed
  <2> QED
    BY <2>3, <2>4, Zenon
<1> QED
  BY <1>2, <1>3, Zenon

\* Core takes the next message.
LEMMA TakeAgrees ==
    ASSUME Good, Agreed, Take
    PROVE  Agreed'
<1>1. /\ UNCHANGED <<core, poll, down, robot, owed, plain, job, told>> /\ hand = Idle /\ up # <<>>
      /\ edge' = edge /\ reply' = reply /\ click' = click
      /\ hand' = Held(Head(up)) /\ up' = Tail(up)
  BY Zenon DEF Take, mission, board
<1>2. hand'.m = Head(up) /\ hand'.row = core /\ hand.m.t = "none" /\ hand.row = "none"
  BY <1>1 DEF Held, Idle, Msg
<1>3. /\ up \in Seq(UpMsg) /\ Head(up) = up[1] /\ 1 \in DOMAIN up
      /\ \A k \in DOMAIN Tail(up) : k + 1 \in DOMAIN up /\ Tail(up)[k] = up[k + 1]
      /\ \A k \in DOMAIN up : k = 1 \/ (k - 1 \in DOMAIN Tail(up) /\ Tail(up)[k - 1] = up[k])
  <2>1. up \in Seq(UpMsg)
    BY Zenon DEF Good, Types
  <2> QED
    BY ONLY <1>1, <2>1, Taking
<1>4. \A t : (Head(up).t = t \/ UpHas(t)') <=> UpHas(t)
  <2> TAKE t
  <2>1. UpHas(t)' <=> \E k \in DOMAIN Tail(up) : Tail(up)[k].t = t
    BY <1>1, Zenon DEF UpHas
  <2>2. ASSUME NEW k \in DOMAIN Tail(up), Tail(up)[k].t = t PROVE UpHas(t)
    BY <1>3, <2>2, Zenon DEF UpHas
  <2>3. Head(up).t = t => UpHas(t)
    BY <1>3, Zenon DEF UpHas
  <2>4. ASSUME NEW k \in DOMAIN up, up[k].t = t PROVE Head(up).t = t \/ UpHas(t)'
    <3>1. CASE k = 1
      BY <1>3, <2>4, <3>1, Zenon
    <3>2. CASE k # 1
      BY <1>3, <2>1, <2>4, <3>2, Zenon
    <3> QED
      BY <3>1, <3>2, Zenon
  <2> QED
    BY <2>1, <2>2, <2>3, <2>4, Zenon DEF UpHas
<1>5. \A t \in {"request", "release", "cancel", "receipt", "ask"} :
          /\ Coming(t)' <=> Coming(t)
          /\ Coming(t) <=> UpHas(t)
  <2>1. \A t \in {"request", "release", "cancel", "receipt", "ask"} : hand.m.t # t
    BY <1>2
  <2> QED
    BY <1>2, <1>4, <2>1, Zenon DEF Coming
<1>6. core # "in_transit" => (Releasing <=> Releasing')
  BY <1>2, <1>4, <1>5, Zenon DEF Releasing, Coming
<1>7. PollerOK'
  BY <1>1, Zenon DEF Agreed, Sound, PollerOK
<1>8. WriterOK'
  BY <1>1, <1>5, Zenon DEF Agreed, Sound, WriterOK
<1>9. ReleaseOK'
  <2>1. hand'.m.t = "release" => Coming("release")
    BY <1>2, <1>4, <1>5
  <2> QED
    BY <1>1, <1>2, <1>5, <2>1, CoreRows, Zenon DEF Agreed, Sound, ReleaseOK
<1>10. PICK z : Ends(z) /\ Fits(z)
  BY Zenon DEF Agreed
<1>11. Onward
  BY <1>1, Zenon DEF Onward, Shown
<1>12. Ends(z)'
  BY <1>1, <1>10, <1>11, EndsStay, Zenon
<1>13. Ending' <=> Ending
  BY <1>1, <1>5, Zenon DEF Ending
<1>14. FitsLive(z) => FitsLive(z)'
  BY <1>1, <1>5, <1>6 DEF FitsLive
<1>15. Fits(z)'
  BY <1>1, <1>10, <1>13, <1>14, Zenon DEF Fits
<1> QED
  BY <1>7, <1>8, <1>9, <1>12, <1>15, Zenon DEF Agreed, Sound

\* A plain order is queued or failed, a complex one queued and acknowledged or
\* refused.
LEMMA RequestAgrees ==
    ASSUME Good, Agreed, HandleOrderRequest \/ HandleComplexOrderRequest
    PROVE  Agreed'
<1>1. /\ hand.m.t = "request" /\ UNCHANGED <<up, board, plain>>
      /\ UNCHANGED <<poll, robot, owed, job, told>>
      /\ core' \in {"queued", "failed", core}
      /\ hand' \in {Idle, [m |-> Msg("queued", "none"), row |-> "queued"]}
  BY Zenon DEF HandleOrderRequest, HandleComplexOrderRequest, mission
<1>2. core = "none" /\ ~UpHas("request")
  BY <1>1, Zenon DEF Good, Requests, UpHas
<1>3. core \notin Past
  BY <1>2 DEF Past, Terminal
<1>4. Served /\ Onward
  BY <1>1, <1>3, Serving, Zenon DEF Served
<1>5. PollerOK'
  BY <1>1, <1>2 DEF Agreed, Sound, PollerOK, Early, Tracked, Done, Terminal
<1>6. Sound'
  BY <1>4, <1>5, ServedSound, Zenon DEF Agreed
<1>7. PICK z : Ends(z) /\ Fits(z)
  BY Zenon DEF Agreed
<1> PICK a : a = Msg("ack", "none")
  BY Zenon
<1> PICK m : m = Msg("error", "rejected")
  BY Zenon
<1>8. /\ a \in DownMsg /\ a.t = "ack" /\ a.t # "snapshot"
      /\ m \in DownMsg /\ m.t # "snapshot" /\ m.t = "error" /\ m.s \in {"rejected", "not_found"}
  BY Wording DEF Msg, Codes
<1>9. \/ core' = "queued" /\ (down' = down \/ Send(<<a>>))
      \/ core' = "failed" /\ Send(<<m, m>>)
      \/ core' = "none" /\ Send(<<m>>)
  BY <1>2, Zenon DEF HandleOrderRequest, HandleComplexOrderRequest, Reject
<1>10. CASE core' = "queued" /\ (down' = down \/ Send(<<a>>))
  <2>1. CASE z \in Closed
    <3>1. \E y : Ends(y)' /\ Fits(y)'
      <4>1. core \notin Terminal /\ hand.m.t \notin {"cancel", "receipt"}
        BY <1>1, <1>2 DEF Terminal
      <4>2. down' = down \/ \E n \in DownMsg : n.t # "snapshot" /\ Send(<<n>>)
        BY <1>8, <1>10, Zenon
      <4> QED
        BY <1>1, <1>4, <1>7, <2>1, <4>1, <4>2, AnswerClosed
    <3> QED
      BY <1>6, <3>1, Zenon DEF Agreed
  <2>2. CASE z \in Live
    <3>1. z = "submitted"
      BY <1>2, <1>7, <2>2, Zenon DEF Fits, FitsLive
    <3>2. After(z, a) = "acknowledged"
      BY <1>8, <3>1, AfterWaybill DEF Acq
    <3>3. Ends("submitted")' \/ Ends("acknowledged")'
      BY <1>4, <1>7, <1>8, <1>10, <3>1, <3>2, EndsStay, EndsGrow
    <3>4. Fits("submitted")' /\ Fits("acknowledged")'
      BY <1>10 DEF Fits, FitsLive, Acq, Terminal, Tracked
    <3> QED
      BY <1>6, <3>3, <3>4, Zenon DEF Agreed
  <2> QED
    BY <1>7, <2>1, <2>2, EndsTyped
<1>11. CASE core' = "failed" /\ Send(<<m, m>>)
  <2>1. core' \in Terminal
    BY <1>11 DEF Terminal
  <2>2. \E y : Ends(y)' /\ Fits(y)'
    BY <1>4, <1>7, <1>8, <1>11, <2>1, SendEndTwo
  <2> QED
    BY <1>6, <2>2, Zenon DEF Agreed
<1>12. CASE core' = "none" /\ Send(<<m>>)
  <2>1. After(z, m) \in Closed
    BY <1>7, <1>8, EndsTyped, Closing, Zenon
  <2>2. "staged" \notin Closed
    BY DEF Closed, Terminal
  <2>3. Ends(After(z, m))'
    BY <1>4, <1>7, <1>8, <1>12, <2>1, <2>2, EndsGrow, Zenon
  <2>4. Ending'
    BY <1>2, <1>4, <1>12, StillComing, Zenon DEF Ending
  <2>5. Fits(After(z, m))'
    BY <2>1, <2>4, MarksAre, Zenon DEF Fits
  <2> QED
    BY <1>6, <2>3, <2>5, Zenon DEF Agreed
<1> QED
  BY <1>9, <1>10, <1>11, <1>12, Zenon

\* The answer of a queued order, and the push of its reason.
LEMMA QueuedAgrees ==
    ASSUME Good, Agreed, lapse' = {}, ReplyQueued \/ PushQueueReason
    PROVE  Agreed'
<1>1. /\ hand.m.t = "queued" /\ hand' = Idle /\ UNCHANGED <<up, board, plain>>
      /\ UNCHANGED <<core, poll, robot, owed, job, told>>
  BY Zenon DEF ReplyQueued, PushQueueReason, mission, Handling
<1>2. \/ /\ Send(Update("queued")) /\ poll.m.s # "delivered"
         /\ core \in {"queued", "reshuffling", "dispatched"}
      \/ down' = down
      \/ core \in {"queued", "sourcing"} /\ Send(Update(core))
  BY Zenon DEF ReplyQueued, PushQueueReason, IsAcquiring, When
<1>3. Served /\ Onward
  BY <1>1, Serving, Zenon DEF Served
<1>4. PollerOK'
  BY <1>1, Zenon DEF Agreed, Sound, PollerOK
<1>5. Sound'
  BY <1>3, <1>4, ServedSound, Zenon DEF Agreed
<1>6. PICK z : Ends(z) /\ Fits(z)
  BY Zenon DEF Agreed
<1>7. \A s \in Row : Msg("update", s) \in DownMsg /\ Msg("update", s).t # "snapshot"
  BY Wording DEF Msg
<1>8. "queued" \in Row /\ "sourcing" \in Row
  BY DEF Row, Status, Live
<1>9. CASE z \in Closed
  <2>1. hand.m.t \notin {"cancel", "receipt"}
    BY <1>1
  <2>2. down' = down \/ \E m \in DownMsg : m.t # "snapshot" /\ Send(<<m>>)
    BY <1>2, <1>7, <1>8 DEF Update
  <2>3. \E y : Ends(y)' /\ Fits(y)'
    BY <1>1, <1>3, <1>6, <1>9, <2>1, <2>2, AnswerClosed
  <2> QED
    BY <1>5, <2>3, Zenon DEF Agreed
<1>10. CASE z \in Live
  <2>1. FitsLive(z) /\ z \notin Terminal
    BY <1>6, <1>10, Statuses, Zenon DEF Fits
  <2>2. CASE down' = down
    <3>1. Ends(z)'
      BY <1>3, <1>6, <2>2, EndsStay, Zenon
    <3>2. Coming("request")' = Coming("request") /\ Releasing' = Releasing
      <4>1. hand.m.t # "request" /\ hand.m.t # "release"
        BY <1>1
      <4> QED
        BY <1>3, <4>1, StillComing, Zenon DEF Coming, Releasing
    <3>3. FitsLive(z)'
      BY <1>1, <2>1, <3>2 DEF FitsLive
    <3> QED
      BY <1>5, <2>1, <3>1, <3>3, Zenon DEF Agreed, Fits
  <2>3. CASE Send(Update("queued")) /\ core \in {"queued", "reshuffling", "dispatched"}
             /\ poll.m.s # "delivered"
    <3> PICK m : m = Msg("update", "queued")
      BY Zenon
    <3>1. m \in DownMsg /\ m.t # "snapshot" /\ Send(<<m>>)
      BY <1>7, <1>8, <2>3, Zenon DEF Update
    <3>2. After(z, m) = "queued"
      BY <1>10, AfterUpdate DEF Applied
    <3>3. Ends("queued")'
      BY <1>3, <1>6, <3>1, <3>2, EndsGrow
    <3>4. Fits("queued")'
      BY <1>1, <2>3 DEF Fits, FitsLive, Acq, Terminal, Tracked
    <3> QED
      BY <1>5, <3>3, <3>4, Zenon DEF Agreed
  <2>4. CASE core \in {"queued", "sourcing"} /\ Send(Update(core))
    <3>1. core = "queued"
      BY <2>4 DEF Agreed, Sound, PollerOK, Early, Tracked, Done, Terminal
    <3>2. poll.m.s # "delivered"
      BY <3>1 DEF Agreed, Sound, PollerOK, Early, Idle, Msg
    <3> QED
      BY <2>3, <2>4, <3>1, <3>2
  <2> QED
    BY <1>2, <2>2, <2>3, <2>4, Zenon
<1> QED
  BY <1>6, <1>9, <1>10, EndsTyped

\* A release is refused.
LEMMA RefusalAgrees ==
    ASSUME Good, Agreed, lapse' = {}, RefuseRelease
    PROVE  Agreed'
<1>1. /\ hand.m.t = "release" /\ hand' = Idle /\ UNCHANGED <<up, board, plain>>
      /\ UNCHANGED <<core, poll, robot, owed, job, told>>
  BY Zenon DEF RefuseRelease, mission, Handling
<1>2. core \in Past /\ hand.row \in Past
  BY <1>1, Zenon DEF Agreed, Sound, ReleaseOK, Coming
<1>3. Served /\ Onward
  BY <1>1, Serving, Zenon DEF Served
<1>4. PollerOK'
  BY <1>1, Zenon DEF Agreed, Sound, PollerOK
<1>5. Sound'
  BY <1>3, <1>4, ServedSound, Zenon DEF Agreed
<1>6. PICK z : Ends(z) /\ Fits(z)
  BY Zenon DEF Agreed
<1>7. ASSUME NEW c \in Codes
      PROVE  Msg("error", c) \in DownMsg /\ Msg("error", c).t = "error"
             /\ Msg("error", c).s = c /\ Msg("error", c).t # "snapshot"
  BY Wording DEF Msg
<1>8. /\ hand.row # "faulted"
      /\ core # "staged" => ~Reject("manifest_sync_failed")
      /\ core # "staged" /\ ~plain /\ hand.row = "staged" => ~Reject("invalid_state")
  BY Zenon DEF RefuseRelease, When
<1>9. \/ hand.row \in Done /\ Reject("invalid_state")
      \/ core = "staged" /\ Reject("manifest_sync_failed")
      \/ (plain \/ core = "staged") /\ Reject("invalid_state")
      \/ hand.row = "in_transit" /\ down' = down
      \/ Reject("fleet_failed")
  <2>1. hand.row \notin {"faulted", "staged", "in_transit"} => hand.row \in Done
    BY <1>2 DEF Past, Done
  <2>2. \/ hand.row \notin {"faulted", "staged", "in_transit"} /\ Reject("invalid_state")
        \/ Reject("manifest_sync_failed")
        \/ hand.row = "staged" /\ Reject("invalid_state")
        \/ hand.row = "in_transit" /\ down' = down
        \/ Reject("fleet_failed")
    BY <1>8, Zenon DEF RefuseRelease
  <2> QED
    BY <1>8, <2>1, <2>2, Zenon
<1>10. {"invalid_state", "manifest_sync_failed", "fleet_failed"} \subseteq Codes
  BY DEF Codes
<1>11. CASE z \in Closed
  <2>1. hand.m.t \notin {"cancel", "receipt"}
    BY <1>1
  <2>2. down' = down \/ \E m \in DownMsg : m.t # "snapshot" /\ Send(<<m>>)
    BY <1>7, <1>9, <1>10, Zenon DEF Reject
  <2>3. \E y : Ends(y)' /\ Fits(y)'
    BY <1>1, <1>3, <1>6, <1>11, <2>1, <2>2, AnswerClosed
  <2> QED
    BY <1>5, <2>3, Zenon DEF Agreed
<1>12. CASE z \in Live
  <2>1. FitsLive(z) /\ z \notin Terminal /\ core \notin Terminal /\ core \notin Early
        /\ core # "dispatched"
    BY <1>2, <1>6, <1>12, Statuses DEF Fits, FitsLive, Past, Early, Terminal
  <2>2. CASE Reject("fleet_failed")
    <3> PICK m : m = Msg("error", "fleet_failed")
      BY Zenon
    <3>1. m \in DownMsg /\ m.t = "error" /\ m.s = "fleet_failed" /\ m.t # "snapshot" /\ Send(<<m>>)
      BY <1>7, <1>10, <2>2, Zenon DEF Reject
    <3>2. After(z, m) = "doomed"
      BY <1>12, <3>1, AfterRefusal
    <3>3. Ends("doomed")'
      BY <1>3, <1>6, <3>1, <3>2, EndsGrow
    <3>4. Fits("doomed")'
      BY DEF Fits, Terminal, Live
    <3> QED
      BY <1>5, <3>3, <3>4, Zenon DEF Agreed
  <2>3. CASE core = "staged" /\ Reject("manifest_sync_failed")
    <3> PICK m : m = Msg("error", "manifest_sync_failed")
      BY Zenon
    <3>1. m \in DownMsg /\ m.t = "error" /\ m.s = "manifest_sync_failed" /\ m.t # "snapshot"
          /\ Send(<<m>>)
      BY <1>7, <1>10, <2>3, Zenon DEF Reject
    <3>2. After(z, m) = IF z \in {"staged", "in_transit"} THEN "staged" ELSE "doomed"
      BY <1>12, <3>1, AfterRefusal
    <3>3. Ends(After(z, m))'
      BY <1>1, <1>2, <1>3, <1>6, <3>1, EndsGrow
    <3>4. CASE z \in {"staged", "in_transit"}
      <4>1. poll.m.s # "delivered"
        BY <2>1, <2>3, <3>4 DEF FitsLive, Tracked
      <4>2. Fits("staged")'
        BY <1>1, <2>3, <4>1 DEF Fits, FitsLive, Terminal
      <4> QED
        BY <1>5, <3>2, <3>3, <3>4, <4>2, Zenon DEF Agreed
    <3>5. CASE z \notin {"staged", "in_transit"}
      <4>1. Fits("doomed")'
        BY DEF Fits, Terminal, Live
      <4> QED
        BY <1>5, <3>2, <3>3, <3>5, <4>1, Zenon DEF Agreed
    <3> QED
      BY <3>4, <3>5, Zenon
  <2>4. CASE (hand.row \in Done \/ plain \/ core = "staged") /\ Reject("invalid_state")
    <3> PICK m : m = Msg("error", "invalid_state")
      BY Zenon
    <3>1. m \in DownMsg /\ m.t = "error" /\ m.s = "invalid_state" /\ m.t # "snapshot"
          /\ Send(<<m>>)
      BY <1>7, <1>10, <2>4, Zenon DEF Reject
    <3>2. After(z, m) = IF z = "in_transit" THEN "staged" ELSE z
      BY <1>12, <3>1, AfterRefusal
    <3>3. Ends(After(z, m))'
      BY <1>1, <1>2, <1>3, <1>6, <3>1, EndsGrow
    <3>4. hand.row \in Done => core = "delivered"
      BY <2>1 DEF Good, RowsRead, Agreed, Sound, ReleaseOK, Done
    <3>5. CASE z = "in_transit"
      <4>1. core \in {"in_transit", "staged"} /\ poll.m.s # "delivered" /\ (plain \/ core = "staged")
        BY <1>2, <2>1, <2>4, <3>4, <3>5 DEF FitsLive, Past, Tracked
      <4>2. Fits("staged")'
        BY <1>1, <4>1 DEF Fits, FitsLive, Terminal
      <4> QED
        BY <1>5, <3>2, <3>3, <3>5, <4>2, Zenon DEF Agreed
    <3>6. CASE z # "in_transit"
      <4>1. FitsLive(z)'
        BY <1>1, <2>1, <3>6 DEF FitsLive, Early
      <4> QED
        BY <1>5, <2>1, <3>2, <3>3, <3>6, <4>1, Zenon DEF Agreed, Fits
    <3> QED
      BY <3>5, <3>6, Zenon
  <2>5. CASE hand.row = "in_transit" /\ down' = down
    <3>1. Ends(z)'
      BY <1>3, <1>6, <2>5, EndsStay, Zenon
    <3>2. Releasing' <=> Releasing
      BY <1>3, <2>5, StillComing, Zenon DEF Releasing
    <3>3. FitsLive(z)'
      BY <1>1, <2>1, <3>2 DEF FitsLive, Early
    <3> QED
      BY <1>5, <2>1, <3>1, <3>3, Zenon DEF Agreed, Fits
  <2> QED
    BY <1>9, <2>2, <2>3, <2>4, <2>5, Zenon
<1> QED
  BY <1>6, <1>11, <1>12, EndsTyped

\* The next segment is appended.
LEMMA AppendAgrees ==
    ASSUME Good, Agreed, lapse' = {}, AppendSegment
    PROVE  Agreed'
<1>1. /\ hand.m.t = "release" /\ hand' = Idle /\ UNCHANGED <<up, board, plain>>
      /\ UNCHANGED <<poll, robot, owed, told>> /\ job' = IF job = "staged" THEN "in_transit" ELSE job
      /\ "in_transit" \in {edge, click} /\ reply = "none" /\ down = <<>>
      /\ core' = core \/ (core = "staged" /\ core' = "in_transit")
  BY Zenon DEF AppendSegment, Handling, When
<1>2. core \in Past /\ core' \in Past
  <2>1. core \in Past
    BY <1>1, Zenon DEF Agreed, Sound, ReleaseOK, Coming
  <2> QED
    BY <1>1, <2>1 DEF Past
<1>3. Served /\ Onward
  BY <1>1, <1>2, Serving, Zenon DEF Served
<1>4. PollerOK'
  BY <1>1 DEF Agreed, Sound, PollerOK, Early, Tracked, Done, Terminal
<1>5. Sound'
  BY <1>3, <1>4, ServedSound, Zenon DEF Agreed
<1>6. PICK z : Ends(z) /\ Fits(z)
  BY Zenon DEF Agreed
<1>7. z = Shown
  BY <1>1, <1>6, EndsTyped
<1>8. z \in Live => z = "in_transit"
  BY <1>1, <1>7 DEF Shown, Agreed, Sound, WriterOK, Live
<1> PICK m : m = Msg("error", "fleet_failed")
  BY Zenon
<1>9. m \in DownMsg /\ m.t = "error" /\ m.s = "fleet_failed" /\ m.t # "snapshot"
  BY Wording DEF Msg, Codes
<1>10. \/ hand.row = "in_transit" /\ core' = core /\ down' = down
       \/ core = "staged" /\ core' = "in_transit" /\ down' = down
       \/ core' = core /\ Send(<<m>>)
  BY Zenon DEF AppendSegment, Reject
<1>11. CASE z \in Closed
  <2>1. hand.m.t \notin {"cancel", "receipt"} /\ core # "none" /\ (core \in Terminal => core' \in Terminal)
    BY <1>1, <1>2 DEF Past, Terminal
  <2>2. down' = down \/ \E n \in DownMsg : n.t # "snapshot" /\ Send(<<n>>)
    BY <1>9, <1>10, Zenon
  <2>3. \E y : Ends(y)' /\ Fits(y)'
    BY <1>3, <1>6, <1>11, <2>1, <2>2, AnswerClosed
  <2> QED
    BY <1>5, <2>3, Zenon DEF Agreed
<1>12. CASE z \in Live
  <2>1. z = "in_transit" /\ FitsLive(z) /\ z \notin Terminal /\ core # "none"
    BY <1>2, <1>6, <1>8, <1>12, Statuses DEF Fits, Past, Terminal
  <2>2. CASE hand.row = "in_transit" /\ core' = core /\ down' = down
    <3>1. Ends(z)'
      BY <1>3, <1>6, <2>2, EndsStay, Zenon
    <3>2. Releasing' <=> Releasing
      BY <1>3, <2>2, StillComing, Zenon DEF Releasing
    <3>3. FitsLive(z)'
      BY <1>1, <2>1, <2>2, <3>2 DEF FitsLive
    <3> QED
      BY <1>5, <2>1, <3>1, <3>3, Zenon DEF Agreed, Fits
  <2>3. CASE core = "staged" /\ core' = "in_transit" /\ down' = down
    <3>1. Ends(z)'
      BY <1>3, <1>6, <2>3, EndsStay, Zenon
    <3>2. poll.m.s # "delivered"
      BY <2>1, <2>3 DEF FitsLive, Tracked
    <3>3. FitsLive(z)'
      BY <1>1, <2>1, <2>3, <3>2 DEF FitsLive, Terminal
    <3> QED
      BY <1>5, <2>1, <3>1, <3>3, Zenon DEF Agreed, Fits
  <2>4. CASE core' = core /\ Send(<<m>>)
    <3>1. After(z, m) = "doomed"
      BY <1>9, <1>12, AfterRefusal
    <3>2. Ends("doomed")'
      BY <1>3, <1>6, <1>9, <2>4, <3>1, EndsGrow
    <3>3. Fits("doomed")'
      BY DEF Fits, Terminal, Live
    <3> QED
      BY <1>5, <3>2, <3>3, Zenon DEF Agreed
  <2> QED
    BY <1>10, <2>2, <2>3, <2>4, Zenon
<1> QED
  BY <1>6, <1>11, <1>12, EndsTyped

\* A message was handled that left the order ended, in silence.
LEMMA ServedEnded ==
    ASSUME Good, NEW z, Ends(z), Fits(z), Served, core \in Terminal, core' \in Terminal, down' = down
    PROVE  \E y : Ends(y)' /\ Fits(y)'
<1>1. z \in Closed
  BY EndsTyped, Zenon DEF Fits, FitsLive
<1>2. Ends(z)'
  BY EndsStay, Zenon DEF Served
<1>3. Fits(z)'
  BY <1>1, EndedFits
<1> QED
  BY <1>2, <1>3, Zenon

\* The Edge's cancel.
LEMMA CancelAgrees ==
    ASSUME Good, Agreed, HandleOrderCancel, lapse' = {}
    PROVE  Agreed'
<1>1. /\ hand.m.t = "cancel" /\ hand' = Idle /\ UNCHANGED <<up, board, plain>>
      /\ UNCHANGED <<poll, robot, owed, told>> /\ job' \in {job, "cancelled"}
  BY Zenon DEF HandleOrderCancel, Handling, StopJob
<1>2. hand # Idle
  BY <1>1 DEF Idle, Msg
<1> PICK m : m = Msg("error", "not_found")
  BY Zenon
<1> PICK n : n = Msg("cancelled", "none")
  BY Zenon
<1>3. /\ m \in DownMsg /\ m.t = "error" /\ m.s \in {"rejected", "not_found"} /\ m.t # "snapshot"
      /\ n \in DownMsg /\ n.t \in {"cancelled", "skipped"} /\ n.t # "snapshot"
  BY Wording DEF Msg, Codes
<1>4. \/ core = "none" /\ core' = "none" /\ Send(<<m>>)
      \/ core \in Terminal /\ core' = core /\ (down' = down \/ Send(<<n>>))
      \/ core # "none" /\ core' \in Terminal /\ (Send(<<n>>) \/ Send(<<n, n>>))
         /\ (core \in Terminal => core' = core)
  <2>1. CASE hand.row = "none" /\ Reject("not_found") /\ core' = core
    BY <1>2, <2>1, Zenon DEF Good, RowsRead, Reject
  <2>2. CASE hand.row = "cancelled" /\ UNCHANGED <<core, down>>
    <3>1. hand.row \in Terminal
      BY <2>2 DEF Terminal
    <3> QED
      BY <2>2, <3>1, Zenon DEF Good, RowsRead
  <2>3. CASE hand.row \in Terminal \ {"cancelled"} /\ core' = core /\ Send(<<n>>)
    BY <2>3, Zenon DEF Good, RowsRead
  <2>4. CASE hand.row \in Live /\ Terminalize("cancelled") /\ Send(Event(<<n>>) \o <<n>>)
    <3>1. core # "none" /\ "cancelled" \in Terminal
      BY <2>4 DEF Good, RowsRead, Live, Terminal
    <3>2. <<n>> \o <<n>> = <<n, n>> /\ <<>> \o <<n>> = <<n>>
      BY Joining, Zenon
    <3> QED
      BY <2>4, <3>1, <3>2, Zenon DEF Terminalize, Event, Ended
  <2> QED
    BY <2>1, <2>2, <2>3, <2>4, Zenon DEF HandleOrderCancel
<1>5. /\ core' = core \/ core' \in Terminal
      /\ core \in Past => core' \in Past
  BY <1>4, CoreRows, Zenon
<1>6. Served /\ Onward
  BY <1>1, <1>5, Serving, Zenon DEF Served
<1>7. PollerOK'
  BY <1>1, <1>5 DEF Agreed, Sound, PollerOK, Early, Tracked, Done, Terminal
<1>8. Sound'
  BY <1>6, <1>7, ServedSound, Zenon DEF Agreed
<1>9. PICK z : Ends(z) /\ Fits(z)
  BY Zenon DEF Agreed
<1>10. CASE core = "none" /\ core' = "none" /\ Send(<<m>>)
  <2>1. After(z, m) \in Closed
    BY <1>3, <1>9, EndsTyped, Closing, Zenon
  <2>2. "staged" \notin Closed
    BY DEF Closed, Terminal
  <2>3. Ends(After(z, m))'
    BY <1>3, <1>6, <1>9, <1>10, <2>1, <2>2, EndsGrow, Zenon
  <2>4. ~UpHas("request")
    BY <1>2, Zenon DEF Good, Requests, UpHas
  <2>5. Ending'
    BY <1>6, <1>10, <2>4, StillComing, Zenon DEF Ending
  <2>6. Fits(After(z, m))'
    BY <2>1, <2>5, MarksAre, Zenon DEF Fits
  <2> QED
    BY <1>8, <2>3, <2>6, Zenon DEF Agreed
<1>11. CASE core \in Terminal /\ core' = core /\ down' = down
  BY <1>6, <1>8, <1>9, <1>11, ServedEnded, Zenon DEF Agreed
<1>12. CASE core' \in Terminal /\ Send(<<n>>)
  <2>1. \E y : Ends(y)' /\ Fits(y)'
    BY <1>3, <1>6, <1>9, <1>12, SendEnd
  <2> QED
    BY <1>8, <2>1, Zenon DEF Agreed
<1>13. CASE core' \in Terminal /\ Send(<<n, n>>)
  <2>1. \E y : Ends(y)' /\ Fits(y)'
    BY <1>3, <1>6, <1>9, <1>13, SendEndTwo
  <2> QED
    BY <1>8, <2>1, Zenon DEF Agreed
<1> QED
  BY <1>4, <1>10, <1>11, <1>12, <1>13, Zenon

\* The Edge's receipt.
LEMMA ReceiptAgrees ==
    ASSUME Good, Agreed, lapse' = {}, HandleOrderReceipt
    PROVE  Agreed'
<1>1. /\ hand.m.t = "receipt" /\ hand' = Idle /\ UNCHANGED <<up, board, plain>>
      /\ UNCHANGED <<poll, robot, owed, job, told>> /\ IsValidTransition(hand.row, "confirmed")
      /\ Terminalize("confirmed") /\ Send(Event(Update("confirmed")))
  BY Zenon DEF HandleOrderReceipt, Handling, mission
<1> PICK m : m = Msg("update", "confirmed")
  BY Zenon
<1>2. m \in DownMsg /\ m.t = "update" /\ m.s = "confirmed"
  BY Wording DEF Msg, Row, Status, Terminal
<1>3. core # "none" /\ "confirmed" \in Terminal
  BY <1>1 DEF Good, RowsRead, IsValidTransition, Live, Terminal
<1>4. /\ core' \in Terminal
      /\ core \in Terminal => down' = down
      /\ core \notin Terminal => Send(<<m>>)
  <2>1. down \o <<>> = down
    BY DEF Good, Types, Mail
  <2> QED
    BY <1>1, <1>3, <2>1, Zenon DEF Terminalize, Event, Ended, Update, Send
<1>5. core \in Past => core' \in Past
  BY <1>4, CoreRows, Zenon
<1>6. Served /\ Onward
  BY <1>1, <1>5, Serving, Zenon DEF Served
<1>7. PollerOK'
  BY <1>1, <1>4 DEF Agreed, Sound, PollerOK, Early, Tracked, Done, Terminal
<1>8. Sound'
  BY <1>6, <1>7, ServedSound, Zenon DEF Agreed
<1>9. PICK z : Ends(z) /\ Fits(z)
  BY Zenon DEF Agreed
<1>10. CASE core \in Terminal
  BY <1>4, <1>6, <1>8, <1>9, <1>10, ServedEnded, Zenon DEF Agreed
<1>11. CASE core \notin Terminal
  <2>1. \E y : Ends(y)' /\ Fits(y)'
    BY <1>2, <1>4, <1>6, <1>9, <1>11, SendEnd
  <2> QED
    BY <1>8, <2>1, Zenon DEF Agreed
<1> QED
  BY <1>10, <1>11, Zenon

-----------------------------------------------------------------------------
(* The Edge's steps.                                                       *)

\* What the handler writes is what the message makes of the row.
LEMMA TargetShown ==
    ASSUME edge \in Status, NEW m \in DownMsg, m.t # "snapshot", After(edge, m) # "doomed"
    PROVE  After(edge, m) = IF Target(m) = "none" THEN edge ELSE Target(m)
<1>1. AfterKind(edge, m)
  BY AfterKinds
<1>2. /\ \A s \in Status : Transition(s) = "none" => Step(edge, s) = edge
      /\ \A s \in Status : Transition(s) # "none" => Step(edge, s) = Transition(s)
  BY Statuses, Zenon DEF Transition, Step
<1>3. /\ \A s \in Status : Mirror(s) = "none" => Jump(edge, s) = edge
      /\ \A s \in Status : Mirror(s) # "none" => Jump(edge, s) = Mirror(s)
  BY <1>2, Statuses, Zenon DEF Mirror, Jump
<1>4. {"acknowledged", "in_transit", "staged", "cancelled", "delivered", "failed", "skipped"} \subseteq Status
      /\ Applied \subseteq Status /\ "none" \notin Status
  BY DEF Status, Live, Terminal, Applied
<1>5. CASE m.t = "ack"
  <2>1. Target(m) = Mirror("acknowledged")
    BY <1>5 DEF Target
  <2> QED
    BY <1>1, <1>3, <1>4, <1>5, <2>1, Zenon DEF AfterKind
<1>6. CASE m.t = "waybill"
  <2>1. Target(m) = Mirror("in_transit")
    BY <1>6 DEF Target
  <2> QED
    BY <1>1, <1>3, <1>4, <1>6, <2>1, Zenon DEF AfterKind
<1>7. CASE m.t = "staged"
  <2>1. Target(m) = Mirror("staged")
    BY <1>7 DEF Target
  <2> QED
    BY <1>1, <1>3, <1>4, <1>7, <2>1, Zenon DEF AfterKind
<1>8. CASE m.t = "cancelled"
  <2>1. Target(m) = Mirror("cancelled")
    BY <1>8 DEF Target
  <2> QED
    BY <1>1, <1>3, <1>4, <1>8, <2>1, Zenon DEF AfterKind
<1>9. CASE m.t = "delivered"
  <2>1. Target(m) = Transition("delivered")
    BY <1>9 DEF Target
  <2> QED
    BY <1>1, <1>2, <1>4, <1>9, <2>1, Zenon DEF AfterKind
<1>10. CASE m.t = "skipped"
  <2>1. Target(m) = ForceTransition("skipped")
    BY <1>10 DEF Target
  <2>2. After(edge, m) = "skipped"
    BY <1>1, <1>10, Zenon DEF AfterKind
  <2> QED
    BY <2>1, <2>2 DEF ForceTransition
<1>11. CASE m.t = "update"
  <2>1. Target(m) = ApplyCoreStatus(m.s)
    BY <1>11 DEF Target
  <2>2. After(edge, m) = IF m.s \in Applied /\ edge \in Live THEN m.s ELSE edge
    BY <1>1, <1>11, Zenon DEF AfterKind
  <2>3. ApplyCoreStatus(m.s) = IF m.s \in Applied /\ edge \notin Terminal /\ edge # m.s THEN m.s ELSE "none"
    BY DEF ApplyCoreStatus, ForceLive, ForceTransition, Applied
  <2>4. edge \in Live <=> edge \notin Terminal
    BY Statuses, Zenon
  <2> QED
    BY <1>4, <2>1, <2>2, <2>3, <2>4, Zenon
<1>12. CASE m.t = "error"
  <2>1. Target(m) = HandleOrderError(m.s)
    BY <1>12 DEF Target
  <2>2. After(edge, m) = AfterError(edge, m.s) /\ AfterError(edge, m.s) # "doomed"
    BY <1>1, <1>12, Zenon DEF AfterKind
  <2>3. CASE m.s = "manifest_sync_failed"
    BY <2>1, <2>2, <2>3 DEF HandleOrderError, AfterError, ForceTransition
  <2>4. CASE m.s = "invalid_state"
    BY <2>1, <2>2, <2>4 DEF HandleOrderError, AfterError
  <2>5. CASE m.s \notin {"manifest_sync_failed", "invalid_state"}
    <3>1. Target(m) = Transition("failed")
      BY <2>1, <2>5 DEF HandleOrderError
    <3>2. CASE m.s = "fleet_failed"
      <4>1. After(edge, m) = edge /\ edge \notin Live
        BY <2>2, <3>2 DEF AfterError
      <4>2. Transition("failed") = "none"
        BY <4>1, Statuses, Zenon DEF Transition
      <4> QED
        BY <3>1, <4>1, <4>2, Zenon
    <3>3. CASE m.s # "fleet_failed"
      <4>1. After(edge, m) = Step(edge, "failed")
        BY <2>2, <2>5, <3>3 DEF AfterError
      <4> QED
        BY <1>2, <1>4, <3>1, <4>1, Zenon
    <3> QED
      BY <3>2, <3>3, Zenon
  <2> QED
    BY <2>3, <2>4, <2>5
<1> QED
  BY <1>5, <1>6, <1>7, <1>8, <1>9, <1>10, <1>11, <1>12 DEF DownMsg

\* A message that dooms the row makes for a lapse.
LEMMA DoomTold ==
    ASSUME edge \in Status, NEW m \in DownMsg, m.t # "snapshot", After(edge, m) = "doomed"
    PROVE  \/ m = Msg("error", "fleet_failed") /\ edge \in Live
           \/ m = Msg("error", "manifest_sync_failed") /\ edge \notin {"staged", "in_transit"}
<1>1. AfterKind(edge, m) /\ edge # "doomed"
  BY AfterKinds, MarksAre, Zenon
<1>2. \A s \in Status : Jump(edge, s) # "doomed" /\ Step(edge, s) # "doomed"
  <2>1. \A s \in Status : s # "doomed"
    BY MarksAre, Zenon
  <2> QED
    BY <1>1, <2>1, Zenon DEF Jump, Step
<1>3. {"acknowledged", "in_transit", "staged", "cancelled", "delivered", "failed", "skipped"} \subseteq Status
      /\ "doomed" \notin Applied /\ "skipped" # "doomed"
  BY DEF Status, Live, Terminal, Applied
<1>4. CASE m.t # "error"
  <2>1. \/ After(edge, m) \in {Jump(edge, "acknowledged"), Jump(edge, "in_transit"),
                               Jump(edge, "staged"), Jump(edge, "cancelled"), Step(edge, "delivered"),
                               "skipped", edge}
        \/ After(edge, m) \in Applied
    BY <1>1, <1>4 DEF DownMsg, AfterKind
  <2> QED
    BY <1>1, <1>2, <1>3, <2>1
<1>5. CASE m.t = "error"
  <2>1. AfterError(edge, m.s) = "doomed"
    BY <1>1, <1>5, Zenon DEF AfterKind
  <2>2. m = Msg("error", m.s)
    BY <1>5 DEF DownMsg, Msg
  <2>3. \/ m.s = "manifest_sync_failed" /\ edge \notin {"staged", "in_transit"}
        \/ m.s = "fleet_failed" /\ edge \in Live
    BY <1>1, <1>2, <1>3, <2>1 DEF AfterError
  <2> QED
    BY <2>2, <2>3, Zenon
<1> QED
  BY <1>4, <1>5, Zenon

\* The Edge writes, Core and its outbox stay.
LEMMA EdgeAgrees ==
    ASSUME Good, Agreed, UNCHANGED <<core, mission, hand, poll, up>>, WriterOK',
           \A z : Ends(z) => Ends(z)'
    PROVE  Agreed'
<1>1. /\ core' = core /\ hand' = hand /\ poll' = poll /\ up' = up /\ plain' = plain
      /\ UNCHANGED <<robot, owed, job, told>>
  BY Zenon DEF mission
<1>2. /\ \A t : UpHas(t)' = UpHas(t)
  BY <1>1, Zenon DEF UpHas
<1>3. (\A t : Coming(t)' = Coming(t)) /\ Releasing' = Releasing
  BY <1>1, <1>2, Zenon DEF Coming, Releasing
<1>4. PollerOK'
  BY <1>1, Zenon DEF Agreed, Sound, PollerOK
<1>5. ReleaseOK'
  BY <1>1, <1>3, Zenon DEF Agreed, Sound, ReleaseOK
<1>6. PICK z : Ends(z) /\ Fits(z)
  BY Zenon DEF Agreed
<1>7. Ending' <=> Ending
  BY <1>1, <1>3, Zenon DEF Ending
<1>8. FitsLive(z) => FitsLive(z)'
  BY <1>1, <1>3, Zenon DEF FitsLive
<1>9. Fits(z)'
  BY <1>1, <1>6, <1>7, <1>8, Zenon DEF Fits
<1> QED
  BY <1>4, <1>5, <1>6, <1>9, Zenon DEF Agreed, Sound

\* The handler reads the row, and each of the two writes is made.
LEMMA BoardAgrees ==
    ASSUME Good, Agreed, lapse' = {}, HandleMessage \/ WriteReply \/ WriteClick
    PROVE  Agreed'
<1>1. UNCHANGED <<core, mission, hand, poll, up>>
  BY Zenon DEF HandleMessage, WriteReply, WriteClick
<1>2. ~Coming("ask")'
  BY <1>1, Zenon DEF Agreed, Sound, WriterOK, Coming, UpHas
<1>3. CASE HandleMessage
  <2> PICK m : m = Head(down)
    BY Zenon
  <2>1. /\ reply = "none" /\ click = "none" /\ click' = click /\ edge' = edge /\ down # <<>>
        /\ reply' = Target(m) /\ down' = Tail(down) /\ core' = core
        /\ ~(m = Msg("error", "fleet_failed") /\ edge \in Live)
        /\ ~(m = Msg("error", "manifest_sync_failed") /\ edge \notin {"staged", "in_transit"})
    BY <1>3, Zenon DEF HandleMessage, When
  <2>2. edge \in Status /\ down \in Seq(DownMsg) /\ m \in DownMsg
    BY <2>1, MailLess, Zenon DEF Good, Types, Mail
  <2>3. WriterOK'
    BY <1>2, <2>1, Zenon DEF Agreed, Sound, WriterOK
  <2>4. ASSUME NEW z, Ends(z) PROVE Ends(z)'
    <3>1. Shown = edge
      BY <2>1, Zenon DEF Shown
    <3>2. Way(Tail(down), After(edge, m), z, core) /\ m.t # "snapshot"
      BY <2>1, <2>2, <2>4, <3>1, WayTaken DEF Ends
    <3>3. After(edge, m) # "doomed"
      BY <2>1, <2>2, <3>2, DoomTold, Zenon
    <3>4. After(edge, m) = IF Target(m) = "none" THEN edge ELSE Target(m)
      BY <2>2, <3>2, <3>3, TargetShown
    <3>5. Shown' = After(edge, m)
      BY <2>1, <3>4, Zenon DEF Shown
    <3> QED
      BY <2>1, <3>2, <3>5, Zenon DEF Ends
  <2> QED
    BY <1>1, <2>3, <2>4, EdgeAgrees
<1>4. CASE WriteReply \/ WriteClick
  <2>1. /\ core' = core /\ down' = down
        /\ \/ reply # "none" /\ edge' = reply /\ reply' = "none" /\ click' = click
           \/ click # "none" /\ edge' = click /\ click' = "none" /\ reply' = reply
    BY <1>4, Zenon DEF WriteReply, WriteClick
  <2>2. reply = "none" \/ click = "none"
    BY Zenon DEF Agreed, Sound, WriterOK
  <2>3. Shown' = Shown
    BY <2>1, <2>2, Zenon DEF Shown
  <2>4. WriterOK'
    BY <1>2, <2>1 DEF Agreed, Sound, WriterOK
  <2>5. \A z : Ends(z) => Ends(z)'
    BY <2>1, <2>3, Zenon DEF Ends
  <2> QED
    BY <1>1, <2>4, <2>5, EdgeAgrees
<1> QED
  BY <1>3, <1>4, Zenon

\* An operator's request: the row it will write, and the message to Core.
LEMMA ClickAgrees ==
    ASSUME Good, Agreed, lapse' = {}, ReleaseOrder \/ AbortOrder \/ ConfirmDelivery
    PROVE  Agreed'
<1>1. PICK t, s : /\ Request(t, s)
                  /\ \/ t = "release" /\ s = "in_transit"
                     \/ t = "cancel" /\ s = "cancelled" /\ edge \in Live
                     \/ t = "receipt" /\ s = "confirmed" /\ edge = "delivered"
  BY Zenon DEF ReleaseOrder, AbortOrder, ConfirmDelivery
<1> PICK m : m = Msg(t, "none")
  BY Zenon
<1>2. /\ click = "none" /\ reply = "none" /\ reply' = reply /\ edge' = edge /\ click' = Transition(s)
      /\ UNCHANGED <<core, mission, hand, poll, down>> /\ up' = Append(up, m)
      /\ t = "release" => edge = "staged"
  BY <1>1, Zenon DEF Request, When
<1>3. click' = s
  <2>1. IsValidTransition("staged", "in_transit") /\ IsValidTransition("delivered", "confirmed")
    BY DEF IsValidTransition, Live, ValidTransitions
  <2>2. \A e \in Live : IsValidTransition(e, "cancelled")
    BY DEF IsValidTransition, Live, ValidTransitions
  <2>3. IsValidTransition(edge, s)
    BY <1>1, <1>2, <2>1, <2>2, Zenon
  <2> QED
    BY <1>2, <2>3, Zenon DEF Transition
<1>4. Shown = edge /\ Shown' = s
  <2>1. s # "none"
    BY <1>1
  <2> QED
    BY <1>2, <1>3, <2>1, Zenon DEF Shown
<1>5. m.t = t /\ m \in UpMsg /\ up \in Seq(UpMsg)
  BY <1>1 DEF Msg, UpMsg, Good, Types
<1>6. \A x : UpHas(x)' <=> UpHas(x) \/ x = t
  <2>1. /\ DOMAIN up' = DOMAIN up \cup {Len(up) + 1} /\ up'[Len(up) + 1] = m
        /\ \A k \in DOMAIN up : up'[k] = up[k]
    BY <1>2, <1>5
  <2> QED
    BY <1>5, <2>1, Zenon DEF UpHas
<1>7. /\ core' = core /\ hand' = hand /\ poll' = poll /\ plain' = plain /\ down' = down
      /\ UNCHANGED <<robot, owed, job, told>>
  BY <1>2, Zenon DEF mission
<1>8. /\ \A x : Coming(x)' <=> Coming(x) \/ x = t
      /\ Releasing' <=> Releasing \/ t = "release"
  BY <1>6, <1>7, Zenon DEF Coming, Releasing
<1>9. PollerOK'
  BY <1>7, Zenon DEF Agreed, Sound, PollerOK
<1>10. WriterOK'
  <2>1. t # "ask" /\ s \in {"none", "in_transit", "cancelled", "confirmed"}
    BY <1>1
  <2> QED
    BY <1>2, <1>3, <1>8, <2>1, Zenon DEF Agreed, Sound, WriterOK
<1>11. PICK z : Ends(z) /\ Fits(z)
  BY Zenon DEF Agreed
<1>12. down \in Seq(DownMsg)
  BY Zenon DEF Good, Types, Mail
<1>13. t = "release" => core \in Past
  BY <1>2, <1>4, <1>11, EndsTyped
<1>14. ReleaseOK'
  BY <1>7, <1>8, <1>13, Zenon DEF Agreed, Sound, ReleaseOK
<1>15. CASE t = "release"
  <2>1. s = "in_transit" /\ core \in Past
    BY <1>1, <1>13, <1>15
  <2>2. PICK y : /\ Way(down, "in_transit", y, core)
                 /\ y = z \/ (y = "in_transit" /\ z \in {"staged", "in_transit"})
    BY <1>2, <1>4, <1>11, <1>12, <1>15, WayReleased DEF Ends
  <2>3. Ends(y)'
    BY <1>4, <1>7, <2>1, <2>2, Zenon DEF Ends
  <2>4. CASE y = z
    <3>1. Ending' <=> Ending
      <4>1. t # "cancel" /\ t # "receipt" /\ t # "request"
        BY <1>15
      <4> QED
        BY <1>7, <1>8, <4>1, Zenon DEF Ending
    <3>2. FitsLive(z) => FitsLive(z)'
      BY <1>7, <1>8, Zenon DEF FitsLive
    <3> QED
      BY <1>7, <1>9, <1>10, <1>11, <1>14, <2>3, <2>4, <3>1, <3>2, Zenon DEF Agreed, Sound, Fits
  <2>5. CASE y = "in_transit" /\ z \in {"staged", "in_transit"}
    <3>1. FitsLive(z)
      BY <1>11, <2>5 DEF Fits, Live
    <3>2. core \in {"in_transit", "staged"} /\ poll.m.s # "delivered"
      BY <2>1, <2>5, <3>1 DEF FitsLive, Past, Tracked
    <3>3. Fits("in_transit")'
      BY <1>7, <1>8, <1>15, <3>2 DEF Fits, FitsLive, Terminal
    <3> QED
      BY <1>9, <1>10, <1>14, <2>3, <2>5, <3>3, Zenon DEF Agreed, Sound
  <2> QED
    BY <2>2, <2>4, <2>5, Zenon
<1>16. CASE t \in {"cancel", "receipt"}
  <2>1. s \in Terminal
    BY <1>1, <1>16 DEF Terminal
  <2>2. PICK y \in Closed : Way(down, s, y, core)
    BY <1>11, <1>12, <2>1, WayClosed DEF Ends
  <2>3. Ends(y)'
    BY <1>4, <1>7, <2>2, Zenon DEF Ends
  <2>4. Ending'
    BY <1>8, <1>16 DEF Ending
  <2>5. Fits(y)'
    BY <2>2, <2>4, MarksAre, Zenon DEF Fits
  <2> QED
    BY <1>9, <1>10, <1>14, <2>3, <2>5, Zenon DEF Agreed, Sound
<1> QED
  BY <1>1, <1>15, <1>16

-----------------------------------------------------------------------------
(* The theorem on the two rows.                                            *)

\* While nothing went wrong, the row the messages on their way lead to fits
\* Core's.
Mirrors == lapse = {} => Agreed

\* It does at the start: the request is on its way.
LEMMA MirrorBegins == Init => Mirrors
<1> SUFFICES ASSUME Init PROVE Agreed
  BY Zenon DEF Mirrors
<1>1. /\ core = "none" /\ robot = FALSE /\ owed = FALSE /\ job = "none" /\ told = "none"
      /\ hand = Idle /\ poll = Idle /\ edge = "submitted" /\ reply = "none" /\ click = "none"
      /\ down = <<>>
  BY Zenon DEF Init
<1>2. up = <<Msg("request", "none")>> /\ DOMAIN up = {1} /\ up[1].t = "request"
  BY DEF Init, Msg
<1>3. \A t : UpHas(t) <=> t = "request"
  BY <1>2, Zenon DEF UpHas
<1>4. hand.m.t = "none" /\ hand.row = "none" /\ poll.m.s = "none"
  BY <1>1 DEF Idle, Msg
<1>5. Coming("request") /\ ~Coming("ask") /\ ~Coming("release")
  BY <1>3, <1>4 DEF Coming
<1>6. Sound
  BY <1>1, <1>4, <1>5 DEF Sound, WriterOK, PollerOK, ReleaseOK, Early, Past, Done, Terminal
<1>7. Shown = "submitted"
  BY <1>1 DEF Shown
<1>8. Ends("submitted")
  <2>1. "submitted" \in Marks /\ "submitted" # "staged"
    BY DEF Marks, Status, Live
  <2> QED
    BY <1>1, <1>7, <2>1, WayNone DEF Ends
<1>9. Fits("submitted")
  BY <1>1, <1>4, <1>5 DEF Fits, FitsLive, Terminal, Tracked
<1> QED
  BY <1>6, <1>8, <1>9, Zenon DEF Agreed

\* The disturbances that are lapses.
LEMMA Disturbs ==
    ASSUME \/ Reconnect \/ CoreRestart \/ EdgeRestart \/ Resync
           \/ DropUp \/ DropDown \/ Overtake \/ PublishAgain
    PROVE  lapse' # {}
BY Zenon DEF Reconnect, CoreRestart, EdgeRestart, Resync, DropUp, DropDown, Overtake, PublishAgain

\* Every step keeps it.
LEMMA MirrorKeeps == IInv /\ Mirrors /\ [Next]_vars => Mirrors'
<1> SUFFICES ASSUME IInv, Mirrors, [Next]_vars, lapse' = {} PROVE Agreed'
  BY Zenon DEF Mirrors
<1>1. CASE Next
  <2>1. lapse = {}
    BY <1>1, LapseGrows, Zenon
  <2>2. Good /\ Agreed
    BY <2>1, Zenon DEF IInv, Clean, Mirrors
  <2>3. CASE HandleOrderStatusRequest
    <3>1. Coming("ask")
      BY <2>3, Zenon DEF HandleOrderStatusRequest, Handling, Coming
    <3> QED
      BY <2>2, <3>1, Zenon DEF Agreed, Sound, WriterOK
  <2>4. CASE Age
    <3>1. UNCHANGED <<core, mission, hand, poll, up>> /\ UNCHANGED <<edge, reply, click, down>>
      BY <2>4, Zenon DEF Age
    <3>2. WriterOK'
      BY <2>2, <3>1, Zenon DEF Agreed, Sound, WriterOK, Coming, UpHas
    <3>3. \A z : Ends(z) => Ends(z)'
      BY <3>1, Zenon DEF Ends, Shown
    <3> QED
      BY <2>2, <3>1, <3>2, <3>3, EdgeAgrees
  <2> QED
    BY <1>1, <2>2, <2>3, <2>4, FleetAgrees, NotifyAgrees, MuteAgrees, ResumeAgrees, EndAgrees, ReportAgrees,
       MarkAgrees, FleetCancelAgrees, TakeAgrees, RequestAgrees, QueuedAgrees, RefusalAgrees,
       AppendAgrees, CancelAgrees, ReceiptAgrees, BoardAgrees, ClickAgrees, Disturbs, Zenon
       DEF Next, CoreStep, EdgeStep
<1>2. CASE UNCHANGED vars
  <2>1. Good /\ Agreed
    BY <1>2, Zenon DEF IInv, Clean, Mirrors, vars
  <2>2. UNCHANGED <<core, mission, hand, poll, up>> /\ UNCHANGED <<edge, reply, click, down>>
    BY <1>2, Zenon DEF vars, board
  <2>3. WriterOK'
    BY <2>1, <2>2, Zenon DEF Agreed, Sound, WriterOK, Coming, UpHas
  <2>4. \A z : Ends(z) => Ends(z)'
    BY <2>2, Zenon DEF Ends, Shown
  <2> QED
    BY <2>1, <2>2, <2>3, <2>4, EdgeAgrees
<1> QED
  BY <1>1, <1>2

\* The Edge's board (ApplyCoreStatus, mirrorTransition, HandleOrderError) and
\* Core's row agree, for every number of waits, clicks and disturbances: when
\* nothing is on its way and nothing went wrong, the board shows the phase Core
\* has the order in, but for a dispatch not yet reported, a released lane wait
\* and an order Core never had.
THEOREM BoardsAgree == Spec => []QuietBoardsAgree
<1>1. IInv /\ Mirrors => QuietBoardsAgree
  <2> SUFFICES ASSUME IInv, Mirrors, Quiet, lapse = {}
               PROVE  \/ Phase(core) = Phase(edge)
                      \/ core = "dispatched" /\ Phase(edge) = "acquiring"
                      \/ plain /\ core = "in_transit" /\ edge = "staged"
                      \/ core = "none" /\ edge \in Terminal
    BY Zenon DEF QuietBoardsAgree
  <2>1. Good /\ Agreed
    BY Zenon DEF IInv, Clean, Mirrors
  <2>2. hand = Idle /\ poll = Idle /\ reply = "none" /\ click = "none" /\ up = <<>> /\ down = <<>>
    BY Zenon DEF Quiet, Still
  <2>3. PICK z : Ends(z) /\ Fits(z)
    BY <2>1, Zenon DEF Agreed
  <2>4. z = edge /\ edge \in Status
    <3>1. z = Shown /\ Shown = edge
      BY <2>1, <2>2, <2>3, EndsTyped, Zenon DEF Shown
    <3> QED
      BY <2>1, <3>1, Zenon DEF Good, Types
  <2>5. hand.m.t = "none" /\ poll.m.s = "none" /\ DOMAIN up = {}
    BY <2>2 DEF Idle, Msg
  <2>6. \A t : ~UpHas(t)
    BY <2>5, Zenon DEF UpHas
  <2>7. (\A t : t # "none" => ~Coming(t)) /\ ~Releasing
    BY <2>5, <2>6 DEF Coming, Releasing
  <2>8. CASE edge \in Terminal
    <3>1. core \in Terminal \/ core = "none"
      BY <2>3, <2>4, <2>7, <2>8 DEF Fits, Ending
    <3> QED
      BY <2>8, <3>1 DEF Phase, Terminal
  <2>9. CASE edge \in Live
    <3>1. FitsLive(edge) /\ core \in Early \cup Tracked \cup Done
      BY <2>1, <2>3, <2>4, <2>9, Zenon DEF Fits, Agreed, Sound, PollerOK
    <3>2. \/ core \in {"queued", "reshuffling", "dispatched"} /\ edge \in Acq
          \/ core \in {"dispatched", "in_transit"} /\ edge = "in_transit"
          \/ plain /\ core = "in_transit" /\ edge = "staged"
          \/ core = edge /\ edge \in {"staged", "faulted", "delivered"}
      BY <2>5, <2>7, <3>1 DEF FitsLive, Early, Tracked, Done
    <3> QED
      BY <3>2 DEF Phase, Acq, Terminal
  <2> QED
    BY <2>4, <2>8, <2>9, Statuses, Zenon
<1>2. Init => IInv /\ Mirrors
  BY Begins, MirrorBegins
<1>3. IInv /\ Mirrors /\ [Next]_vars => (IInv /\ Mirrors)'
  BY Keeps, MirrorKeeps
<1> QED
  BY <1>1, <1>2, <1>3, PTL DEF Spec
=============================================================================
