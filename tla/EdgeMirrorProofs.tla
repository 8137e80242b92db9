-------------------------- MODULE EdgeMirrorProofs --------------------------
(***************************************************************************)
(* Proof that an abort at the Edge reaches Core, for every number of       *)
(* waits, clicks and disturbances: while no message to Core was lost or    *)
(* overtaken and every cancel was carried out, an order the Edge shows as  *)
(* cancelled has ended at Core, or a cancel is on its way to it, or Core   *)
(* never had the order and never will.                                     *)
(***************************************************************************)
EXTENDS EdgeMirror, TLAPS

Contents(q) == {q[k] : k \in DOMAIN q}

\* No message to Core was lost or came out of turn, and every cancel was
\* carried out.
Clean == lapse \cap {"lost", "overtaken", "unwritten"} = {}

\* The messages that bring a row of the Edge to cancelled.
Cancels(m) == m.t = "cancelled" \/ m = Msg("snapshot", "cancelled")
Mute(q) == \A m \in Contents(q) : ~Cancels(m)

UpMsg == [t : {"request", "release", "cancel", "receipt", "ask"}, s : {"none"}]
HandMsg == [t : {"none", "queued", "request", "release", "cancel", "receipt", "ask"},
            s : {"none"}]
Row == Status \cup {"none"}
DownMsg ==
    [t : {"ack", "waybill", "staged", "cancelled", "update", "delivered", "error", "skipped"},
     s : Row \cup Codes]
    \cup [t : {"snapshot"}, s : Row]

\* What Core may send.
Mail(q) == q \in Seq(DownMsg)

Types ==
    /\ core \in Row /\ edge \in Status /\ reply \in Row /\ click \in Row
    /\ hand \in [m : HandMsg, row : Row] /\ poll.row \in Row
    /\ up \in Seq(UpMsg) /\ Mail(down)

\* What Core's goroutines have read stays true enough, and before the request
\* is handled there is nothing to read.
RowsRead ==
    /\ hand.row \in Terminal => core \in Terminal
    /\ poll.row \in Terminal => core \in Terminal
    /\ core = "none" => told = "none" /\ poll = Idle /\ hand.row = "none"
    /\ hand # Idle /\ hand.row = "none" => core = "none"

\* The request is the first message, and is handled once.
Requests ==
    /\ \A k \in DOMAIN up : up[k].t = "request" => k = 1 /\ core = "none" /\ hand = Idle
    /\ hand.m.t = "request" => core = "none" /\ \A k \in DOMAIN up : up[k].t # "request"

\* Core tells of a cancel when the order has ended.
CancelsTold ==
    /\ Mute(down) \/ core \in Terminal
    /\ reply = "cancelled" => core \in Terminal

NoRequest == hand.m.t # "request" /\ \A k \in DOMAIN up : up[k].t # "request"
CancelComing == hand.m.t = "cancel" \/ \E k \in DOMAIN up : up[k].t = "cancel"

AbortOnItsWay ==
    edge = "cancelled" \/ click = "cancelled" =>
        core \in Terminal \/ CancelComing \/ (core = "none" /\ NoRequest)

Good == Types /\ RowsRead /\ Requests /\ CancelsTold /\ AbortOnItsWay

IInv == Clean => Good

-----------------------------------------------------------------------------
(* Sequences and statuses.                                                 *)

\* Adding to a sequence.
LEMMA Adding ==
    ASSUME NEW S, NEW s \in Seq(S), NEW t \in Seq(S)
    PROVE  s \o t \in Seq(S) /\ Contents(s \o t) \subseteq Contents(s) \cup Contents(t)
<1>1. /\ s \o t \in Seq(S) /\ Len(s \o t) = Len(s) + Len(t)
      /\ Len(s) \in Nat /\ Len(t) \in Nat
      /\ DOMAIN s = 1..Len(s) /\ DOMAIN t = 1..Len(t)
      /\ DOMAIN (s \o t) = 1..(Len(s) + Len(t))
  OBVIOUS
<1>2. \A k \in 1..(Len(s) + Len(t)) :
          (s \o t)[k] = IF k <= Len(s) THEN s[k] ELSE t[k - Len(s)]
  OBVIOUS
<1>3. ASSUME NEW k \in DOMAIN (s \o t)
      PROVE  (s \o t)[k] \in Contents(s) \cup Contents(t)
  <2>1. CASE k <= Len(s)
    BY <1>1, <1>2, <2>1 DEF Contents
  <2>2. CASE ~(k <= Len(s))
    <3>1. k - Len(s) \in DOMAIN t /\ (s \o t)[k] = t[k - Len(s)]
      BY <1>1, <1>2, <2>2
    <3> QED
      BY <3>1, Zenon DEF Contents
  <2> QED
    BY <2>1, <2>2, Zenon
<1> QED
  BY <1>1, <1>3, Zenon DEF Contents

\* One message.
LEMMA OneMessage ==
    ASSUME NEW S, NEW a \in S
    PROVE  <<a>> \in Seq(S) /\ Contents(<<a>>) \subseteq {a}
BY DEF Contents

\* Two messages.
LEMMA TwoMessages ==
    ASSUME NEW S, NEW a \in S, NEW b \in S
    PROVE  <<a, b>> \in Seq(S) /\ Contents(<<a, b>>) \subseteq {a, b}
BY DEF Contents

\* Taking the head.
LEMMA Taking ==
    ASSUME NEW S, NEW s \in Seq(S), s # <<>>
    PROVE  /\ Head(s) \in S /\ Head(s) \in Contents(s) /\ Head(s) = s[1] /\ 1 \in DOMAIN s
           /\ Tail(s) \in Seq(S) /\ Contents(Tail(s)) \subseteq Contents(s)
           /\ \A k \in DOMAIN Tail(s) : k + 1 \in DOMAIN s /\ Tail(s)[k] = s[k + 1] /\ k + 1 # 1
           /\ \A k \in DOMAIN s : k = 1 \/ (k - 1 \in DOMAIN Tail(s) /\ Tail(s)[k - 1] = s[k])
<1>1. /\ Len(s) \in Nat /\ Len(s) > 0 /\ DOMAIN s = 1..Len(s) /\ Head(s) = s[1]
      /\ Tail(s) \in Seq(S) /\ DOMAIN Tail(s) = 1..(Len(s) - 1)
      /\ \A k \in 1..(Len(s) - 1) : Tail(s)[k] = s[k + 1]
  OBVIOUS
<1>2. 1 \in DOMAIN s /\ s[1] \in S
  BY <1>1
<1>3. \A k \in DOMAIN Tail(s) : k + 1 \in DOMAIN s /\ Tail(s)[k] = s[k + 1] /\ k + 1 # 1
  BY <1>1
<1>4. \A k \in DOMAIN s : k = 1 \/ (k - 1 \in DOMAIN Tail(s) /\ Tail(s)[k - 1] = s[k])
  BY <1>1
<1>5. Head(s) \in Contents(s)
  BY <1>1, <1>2, Zenon DEF Contents
<1>6. Contents(Tail(s)) \subseteq Contents(s)
  BY <1>3, Zenon DEF Contents
<1> QED
  BY <1>1, <1>2, <1>3, <1>4, <1>5, <1>6, Zenon

\* A message overtakes another.
LEMMA Swapping ==
    ASSUME NEW S, NEW s \in Seq(S), Len(s) > 1
    PROVE  Swap(s) \in Seq(S) /\ Contents(Swap(s)) \subseteq Contents(s)
<1>1. Len(s) \in Nat /\ 1 \in DOMAIN s /\ 2 \in DOMAIN s /\ DOMAIN s = 1..Len(s)
  OBVIOUS
<1>2. s[1] \in S /\ s[2] \in S /\ s[1] \in Contents(s) /\ s[2] \in Contents(s)
  BY <1>1 DEF Contents
<1> PICK a : a = <<s[2], s[1]>>
  BY Zenon
<1>3. a \in Seq(S) /\ Contents(a) \subseteq {s[2], s[1]}
  BY <1>2, TwoMessages
<1> PICK b : b = SubSeq(s, 3, Len(s))
  BY Zenon
<1>4. b \in Seq(S) /\ Contents(b) \subseteq Contents(s)
  <2>1. /\ b \in Seq(S) /\ DOMAIN b = 1..(Len(s) - 2)
        /\ \A k \in 1..(Len(s) - 2) : b[k] = s[k + 2]
    BY <1>1
  <2>2. \A k \in 1..(Len(s) - 2) : k + 2 \in DOMAIN s
    BY ONLY <1>1
  <2> QED
    BY <2>1, <2>2, Zenon DEF Contents
<1>5. a \o b \in Seq(S) /\ Contents(a \o b) \subseteq Contents(a) \cup Contents(b)
  BY ONLY <1>3, <1>4, Adding
<1> QED
  BY <1>2, <1>3, <1>4, <1>5, Zenon DEF Swap

\* What the table of statuses says.
LEMMA Statuses ==
    /\ "none" \notin Status /\ \A s \in Live : s \in Status /\ s \notin Terminal
    /\ \A s \in Terminal : s \in Status
    /\ \A s \in Status : s \in Live \/ s \in Terminal
    /\ \A s, t : IsValidTransition(s, t) => s \in Live
BY DEF Status, Live, Terminal, IsValidTransition

\* The kinds of message Core sends.
LEMMA Wording ==
    /\ \A t \in {"ack", "waybill", "staged", "delivered", "skipped"} :
          Msg(t, "none") \in DownMsg /\ ~Cancels(Msg(t, "none"))
    /\ Msg("cancelled", "none") \in DownMsg
    /\ \A s \in Row : Msg("update", s) \in DownMsg /\ ~Cancels(Msg("update", s))
    /\ \A c \in Codes : Msg("error", c) \in DownMsg /\ ~Cancels(Msg("error", c))
    /\ \A s \in Row : Msg("snapshot", s) \in DownMsg
                      /\ (Cancels(Msg("snapshot", s)) => s = "cancelled")
BY DEF Msg, DownMsg, Cancels, Row

\* What Core sends, and what of it tells of no cancel.
LEMMA MailNone == Mail(<<>>) /\ Mute(<<>>)
BY DEF Mail, Mute, Contents

\* One message to the Edge.
LEMMA MailOne ==
    ASSUME NEW m \in DownMsg
    PROVE  Mail(<<m>>) /\ (~Cancels(m) => Mute(<<m>>))
<1>1. <<m>> \in Seq(DownMsg) /\ Contents(<<m>>) \subseteq {m}
  BY OneMessage
<1> QED
  BY <1>1, Zenon DEF Mail, Mute

\* Two messages to the Edge.
LEMMA MailTwo ==
    ASSUME NEW m \in DownMsg, NEW n \in DownMsg
    PROVE  Mail(<<m, n>>) /\ (~Cancels(m) /\ ~Cancels(n) => Mute(<<m, n>>))
<1>1. <<m, n>> \in Seq(DownMsg) /\ Contents(<<m, n>>) \subseteq {m, n}
  BY TwoMessages
<1> QED
  BY <1>1, Zenon DEF Mail, Mute

\* Mail sent after mail.
LEMMA MailBoth ==
    ASSUME NEW q, NEW r, Mail(q), Mail(r)
    PROVE  Mail(q \o r) /\ (Mute(q) /\ Mute(r) => Mute(q \o r))
<1>1. q \in Seq(DownMsg) /\ r \in Seq(DownMsg)
  BY Zenon DEF Mail
<1>2. q \o r \in Seq(DownMsg) /\ Contents(q \o r) \subseteq Contents(q) \cup Contents(r)
  BY ONLY <1>1, Adding
<1> QED
  BY <1>2, Zenon DEF Mail, Mute

\* The Edge takes the first message, or it is lost.
LEMMA MailLess ==
    ASSUME NEW q, Mail(q), q # <<>>
    PROVE  /\ Mail(Tail(q)) /\ Head(q) \in DownMsg
           /\ Mute(q) => Mute(Tail(q)) /\ ~Cancels(Head(q))
<1>1. q \in Seq(DownMsg)
  BY Zenon DEF Mail
<1>2. /\ Head(q) \in DownMsg /\ Head(q) \in Contents(q)
      /\ Tail(q) \in Seq(DownMsg) /\ Contents(Tail(q)) \subseteq Contents(q)
  BY ONLY <1>1, q # <<>>, Taking
<1> QED
  BY <1>2, Zenon DEF Mail, Mute

\* The second message overtakes the first.
LEMMA MailSwapped ==
    ASSUME NEW q, Mail(q), Len(q) > 1
    PROVE  Mail(Swap(q)) /\ (Mute(q) => Mute(Swap(q)))
<1>1. q \in Seq(DownMsg)
  BY Zenon DEF Mail
<1>2. Swap(q) \in Seq(DownMsg) /\ Contents(Swap(q)) \subseteq Contents(q)
  BY ONLY <1>1, Len(q) > 1, Swapping
<1> QED
  BY <1>2, Zenon DEF Mail, Mute

\* What the Edge makes of a message: only a message that tells of a cancel
\* makes it write cancelled.
LEMMA TargetOf ==
    ASSUME NEW m \in DownMsg
    PROVE  Target(m) \in Row /\ (Target(m) = "cancelled" => Cancels(m))
<1>1. \A s : Mirror(s) \in {s, "none"} /\ Transition(s) \in {s, "none"} /\ ForceTransition(s) \in {s, "none"}
  BY Zenon DEF Mirror, Transition, ForceTransition
<1>2. {"acknowledged", "in_transit", "staged", "cancelled", "delivered", "skipped", "failed",
       "none"} \subseteq Row
  BY DEF Row, Status, Live, Terminal
<1>3. CASE m.t \in {"ack", "waybill", "staged", "delivered", "skipped", "cancelled"}
  <2>1. CASE m.t = "ack"
    <3>1. Target(m) = Mirror("acknowledged")
      BY <2>1 DEF Target
    <3> QED
      BY <1>1, <1>2, <3>1
  <2>2. CASE m.t = "waybill"
    <3>1. Target(m) = Mirror("in_transit")
      BY <2>2 DEF Target
    <3> QED
      BY <1>1, <1>2, <3>1
  <2>3. CASE m.t = "staged"
    <3>1. Target(m) = Mirror("staged")
      BY <2>3 DEF Target
    <3> QED
      BY <1>1, <1>2, <3>1
  <2>4. CASE m.t = "delivered"
    <3>1. Target(m) = Transition("delivered")
      BY <2>4 DEF Target
    <3> QED
      BY <1>1, <1>2, <3>1
  <2>5. CASE m.t = "skipped"
    <3>1. Target(m) = ForceTransition("skipped")
      BY <2>5 DEF Target
    <3> QED
      BY <1>1, <1>2, <3>1
  <2>6. CASE m.t = "cancelled"
    <3>1. Target(m) = Mirror("cancelled")
      BY <2>6 DEF Target
    <3> QED
      BY <1>1, <1>2, <2>6, <3>1 DEF Cancels
  <2> QED
    BY <1>3, <2>1, <2>2, <2>3, <2>4, <2>5, <2>6
<1>4. CASE m.t = "update"
  <2>1. Target(m) = ApplyCoreStatus(m.s)
    BY <1>4 DEF Target
  <2>2. ApplyCoreStatus(m.s) \in
            {"queued", "sourcing", "dispatched", "in_transit", "faulted", "confirmed", "none"}
    BY <1>1, Zenon DEF ApplyCoreStatus, ForceLive, ForceTransition
  <2> QED
    BY <2>1, <2>2 DEF Row, Status, Live, Terminal
<1>5. CASE m.t = "error"
  <2>1. Target(m) = HandleOrderError(m.s)
    BY <1>5 DEF Target
  <2>2. HandleOrderError(m.s) \in {"staged", "failed", "none"}
    BY <1>1 DEF HandleOrderError
  <2> QED
    BY <1>2, <2>1, <2>2
<1>6. CASE m.t = "snapshot"
  <2>1. Target(m) = ApplyCoreStatusSnapshot(m.s)
    BY <1>6 DEF Target
  <2>2. m.s \in Row /\ m = Msg("snapshot", m.s)
    BY <1>6 DEF DownMsg, Msg
  <2>3. ApplyCoreStatusSnapshot(m.s) \in {m.s, "none"}
    BY <1>1, Zenon DEF ApplyCoreStatusSnapshot
  <2> QED
    BY <1>2, <2>1, <2>2, <2>3 DEF Cancels
<1> QED
  BY <1>3, <1>4, <1>5, <1>6 DEF DownMsg

-----------------------------------------------------------------------------
(* Steps that leave the messages to Core alone.                            *)

CoreKept == core' \in Row /\ (core' = "none" <=> core = "none") /\ (Ended => Ended')
DownKept == Mail(down') /\ (Mute(down') \/ Ended')
PollKept ==
    /\ poll'.row \in Row /\ (poll'.row \in Terminal => Ended')
    /\ core' = "none" => told' = "none" /\ poll' = Idle

\* Core's row stays as it is.
LEMMA CoreStays ==
    ASSUME Good, core' = core
    PROVE  CoreKept
BY Zenon DEF Good, Types, CoreKept, Ended

\* A live row of Core takes another status.
LEMMA CoreGoes ==
    ASSUME core \in Live, core' \in Status
    PROVE  CoreKept
BY Statuses, Zenon DEF CoreKept, Ended, Row

\* TerminalizeOrder on an order Core has.
LEMMA CoreEnds ==
    ASSUME Good, NEW s \in Terminal, core # "none", Terminalize(s)
    PROVE  CoreKept /\ Ended'
BY Statuses, Zenon DEF Good, Types, CoreKept, Ended, Row, Terminalize

\* The fleet report in hand stays.
LEMMA PollStays ==
    ASSUME Good, CoreKept, poll' = poll, told' = told \/ core # "none"
    PROVE  PollKept
BY Zenon DEF Good, Types, RowsRead, CoreKept, PollKept, Ended

\* The fleet report is handled.
LEMMA PollDone ==
    ASSUME Good, CoreKept, poll' = Idle, told' = told \/ core # "none"
    PROVE  PollKept
<1>1. Idle.row = "none" /\ "none" \notin Terminal /\ "none" \in Row
  BY DEF Idle, Terminal, Row
<1> QED
  BY <1>1, Zenon DEF Good, RowsRead, CoreKept, PollKept

\* Nothing is sent to the Edge.
LEMMA DownStays ==
    ASSUME Good, CoreKept, down' = down
    PROVE  DownKept
BY Zenon DEF Good, Types, CancelsTold, CoreKept, DownKept, Ended

\* Mail is sent to the Edge, and tells of a cancel only if the order has ended.
LEMMA DownGrows ==
    ASSUME Good, CoreKept, NEW ms, Mail(ms), Mute(ms) \/ Ended', Send(ms)
    PROVE  DownKept
<1>1. Mail(down) /\ (Mute(down) \/ Ended)
  BY Zenon DEF Good, Types, CancelsTold, Ended
<1>2. Mail(down \o ms) /\ (Mute(down) /\ Mute(ms) => Mute(down \o ms))
  BY <1>1, MailBoth
<1>3. down' = down \o ms
  BY Zenon DEF Send
<1>4. Mail(down') /\ (Mute(down) /\ Mute(ms) => Mute(down'))
  BY <1>2, <1>3, Zenon
<1> QED
  BY <1>1, <1>4, Zenon DEF CoreKept, DownKept

\* Core works on its own.
LEMMA OwnStep ==
    ASSUME Good, CoreKept, DownKept, PollKept, UNCHANGED <<hand, up, board>>
    PROVE  Good'
<1>1. hand' = hand /\ up' = up /\ edge' = edge /\ reply' = reply /\ click' = click
  BY Zenon DEF board
<1>2. Types'
  BY <1>1, Zenon DEF Good, Types, CoreKept, DownKept, PollKept
<1>3. RowsRead'
  BY <1>1, Zenon DEF Good, RowsRead, CoreKept, PollKept, Ended
<1>4. Requests'
  BY <1>1, Zenon DEF Good, Requests, CoreKept
<1>5. CancelsTold'
  BY <1>1, Zenon DEF Good, CancelsTold, CoreKept, DownKept, Ended
<1>6. AbortOnItsWay'
  BY <1>1, Zenon DEF Good, AbortOnItsWay, CancelComing, NoRequest, CoreKept, Ended
<1> QED
  BY <1>2, <1>3, <1>4, <1>5, <1>6, Zenon DEF Good

\* Nothing in hand.
LEMMA NothingHeld ==
    Idle \in [m : HandMsg, row : Row] /\ Idle.row = "none" /\ Idle.m.t = "none"
BY DEF Idle, HandMsg, Row, Msg

\* Core is done with a message that is neither the request nor a cancel.
LEMMA HandledStep ==
    ASSUME Good, CoreKept, DownKept, PollKept, hand' = Idle,
           hand.m.t \in {"queued", "release", "receipt", "ask"}, UNCHANGED <<up, board>>
    PROVE  Good'
<1>1. up' = up /\ edge' = edge /\ reply' = reply /\ click' = click
  BY Zenon DEF board
<1>2. "none" \notin Terminal /\ hand.m.t # "request" /\ hand.m.t # "cancel"
  BY DEF Terminal
<1>3. Types'
  BY <1>1, NothingHeld, Zenon DEF Good, Types, CoreKept, DownKept, PollKept
<1>4. RowsRead'
  BY <1>1, <1>2, NothingHeld, Zenon DEF Good, RowsRead, CoreKept, PollKept, Ended
<1>5. Requests'
  <2>1. hand'.m.t # "request"
    BY NothingHeld
  <2> QED
    BY <1>1, <2>1, Zenon DEF Good, Requests, CoreKept
<1>6. CancelsTold'
  BY <1>1, Zenon DEF Good, CancelsTold, CoreKept, DownKept, Ended
<1>7. AbortOnItsWay'
  <2>1. hand'.m.t # "request"
    BY NothingHeld
  <2> QED
    BY <1>1, <1>2, <2>1, Zenon DEF Good, AbortOnItsWay, CancelComing, NoRequest, CoreKept, Ended
<1> QED
  BY <1>3, <1>4, <1>5, <1>6, <1>7, Zenon DEF Good

-----------------------------------------------------------------------------
(* Core's own steps, the fleet and the poller.                             *)

\* The statuses these steps write.
LEMMA Written ==
    /\ {"queued", "dispatched", "reshuffling", "in_transit", "staged", "faulted", "delivered"}
          \subseteq Live
    /\ {"failed", "skipped", "cancelled", "confirmed"} \subseteq Terminal
    /\ \A s \in Live : s # "none" /\ s \in Row
    /\ \A s \in Terminal : s # "none" /\ s \in Row
BY DEF Live, Terminal, Row, Status

\* A step that neither writes Core's row nor sends.
LEMMA FleetMoves ==
    ASSUME Good, UNCHANGED <<core, told, hand, poll, board, up, down>>
    PROVE  Good'
<1>1. CoreKept
  BY CoreStays
<1>2. PollKept
  BY <1>1, PollStays
<1>3. DownKept
  BY <1>1, DownStays
<1> QED
  BY <1>1, <1>2, <1>3, OwnStep

\* A step that moves a live row and sends mail which tells of no cancel, or of
\* the cancel it makes.
LEMMA CoreMoves ==
    ASSUME Good, core \in Live, core' \in Status, NEW ms, Mail(ms), Mute(ms) \/ Ended', Send(ms),
           UNCHANGED <<hand, poll, board, up>>
    PROVE  Good'
<1>1. CoreKept
  BY CoreGoes
<1>2. PollKept
  BY <1>1, Written, PollStays
<1>3. DownKept
  BY <1>1, DownGrows
<1> QED
  BY <1>1, <1>2, <1>3, OwnStep

\* The same without mail.
LEMMA CoreMovesMute ==
    ASSUME Good, core \in Live, core' \in Status, UNCHANGED <<hand, poll, board, up, down>>
    PROVE  Good'
<1>1. CoreKept
  BY CoreGoes
<1>2. PollKept
  BY <1>1, Written, PollStays
<1>3. DownKept
  BY <1>1, DownStays
<1> QED
  BY <1>1, <1>2, <1>3, OwnStep

\* A status update.
LEMMA MailUpdate ==
    ASSUME NEW s \in Row
    PROVE  Mail(Update(s)) /\ Mute(Update(s))
<1>1. Mail(<<Msg("update", s)>>) /\ Mute(<<Msg("update", s)>>)
  BY Wording, MailOne
<1> QED
  BY <1>1, Zenon DEF Update

\* An envelope without a status.
LEMMA MailWord ==
    ASSUME NEW t \in {"ack", "waybill", "staged", "delivered", "skipped"}
    PROVE  Mail(<<Msg(t, "none")>>) /\ Mute(<<Msg(t, "none")>>)
BY Wording, MailOne

\* A refusal.
LEMMA MailError ==
    ASSUME NEW c \in Codes
    PROVE  Mail(<<Msg("error", c)>>) /\ Mute(<<Msg("error", c)>>)
BY Wording, MailOne

\* The cancel notice.
LEMMA MailCancelled == Mail(<<Msg("cancelled", "none")>>)
BY Wording, MailOne

\* Core's own steps.
LEMMA OwnSteps ==
    ASSUME Good, \/ NotifyEdgeDispatched \/ Dispatch \/ BeginReshuffle \/ ResumeCompound
                 \/ EndInPlanning \/ CancelAtCore \/ GraceExpires \/ AutoConfirm \/ ReleaseGate
    PROVE  Good'
<1>1. CASE NotifyEdgeDispatched
  <2>1. UNCHANGED <<core, told, hand, poll, board, up>>
    BY <1>1, Zenon DEF NotifyEdgeDispatched
  <2>2. CoreKept
    BY <2>1, CoreStays
  <2>3. PollKept
    BY <2>1, <2>2, PollStays
  <2>4. /\ Mail(<<Msg("ack", "none"), Msg("waybill", "none")>>)
        /\ Mute(<<Msg("ack", "none"), Msg("waybill", "none")>>)
    BY Wording, MailTwo
  <2>5. DownKept
    BY <1>1, <2>2, <2>4, DownGrows DEF NotifyEdgeDispatched
  <2> QED
    BY <2>1, <2>2, <2>3, <2>5, OwnStep
<1>2. CASE Dispatch
  <2>1. core \in Live /\ core' \in Status
    BY <1>2, Written, Statuses DEF Dispatch
  <2> QED
    BY <1>2, <2>1, CoreMovesMute DEF Dispatch
<1>3. CASE BeginReshuffle
  <2>1. core \in Live /\ core' \in Status
    BY <1>3, Written, Statuses DEF BeginReshuffle
  <2> QED
    BY <1>3, <2>1, CoreMovesMute DEF BeginReshuffle
<1>4. CASE ResumeCompound
  <2>1. core \in Live /\ core' \in Status
    BY <1>4, Written, Statuses DEF ResumeCompound
  <2>2. Mail(Update("queued")) /\ Mute(Update("queued"))
    BY Written, MailUpdate
  <2> QED
    BY <1>4, <2>1, <2>2, CoreMoves DEF ResumeCompound
<1>5. CASE EndInPlanning
  <2>1. core \in Live /\ core' \in Status
    BY <1>5, Written, Statuses DEF EndInPlanning
  <2>2. Mail(<<Msg("error", "rejected")>>) /\ Mute(<<Msg("error", "rejected")>>)
    BY MailError DEF Codes
  <2>3. Mail(<<Msg("skipped", "none")>>) /\ Mute(<<Msg("skipped", "none")>>)
    BY MailWord
  <2>4. UNCHANGED <<hand, poll, board, up>>
    BY <1>5, Zenon DEF EndInPlanning
  <2>5. Send(<<Msg("error", "rejected")>>) \/ Send(<<Msg("skipped", "none")>>)
    BY <1>5, Zenon DEF EndInPlanning
  <2> QED
    BY <2>1, <2>2, <2>3, <2>4, <2>5, CoreMoves
<1>6. CASE CancelAtCore
  <2>1. core \in Live /\ core' \in Status /\ Ended'
    BY <1>6, Written, Statuses DEF CancelAtCore, Ended
  <2> QED
    BY <1>6, <2>1, MailCancelled, CoreMoves DEF CancelAtCore
<1>7. CASE GraceExpires
  <2>1. core \in Live /\ core' \in Status
    BY <1>7, Written, Statuses DEF GraceExpires
  <2>2. Mail(<<Msg("error", "rejected")>>) /\ Mute(<<Msg("error", "rejected")>>)
    BY MailError DEF Codes
  <2> QED
    BY <1>7, <2>1, <2>2, CoreMoves DEF GraceExpires
<1>8. CASE AutoConfirm
  <2>1. core \in Live /\ core' \in Status
    BY <1>8, Written, Statuses DEF AutoConfirm
  <2>2. Mail(Update("confirmed")) /\ Mute(Update("confirmed"))
    BY Written, MailUpdate
  <2> QED
    BY <1>8, <2>1, <2>2, CoreMoves DEF AutoConfirm
<1>9. CASE ReleaseGate
  <2>1. core \in Live /\ core' \in Status
    BY <1>9, Written, Statuses DEF ReleaseGate
  <2> QED
    BY <1>9, <2>1, CoreMovesMute DEF ReleaseGate
<1> QED
  BY <1>1, <1>2, <1>3, <1>4, <1>5, <1>6, <1>7, <1>8, <1>9, Zenon

\* The robot.
LEMMA FleetSteps ==
    ASSUME Good, Drive \/ Fault \/ Recover \/ StopAtFleet
    PROVE  Good'
<1>1. UNCHANGED <<core, told, hand, poll, board, up, down>>
  BY Zenon DEF Drive, Fault, Recover, StopAtFleet
<1> QED
  BY <1>1, FleetMoves

\* The poller's reports.
LEMMA PollSteps ==
    ASSUME Good, Report \/ MarkStatus \/ FleetOrderCancelled
    PROVE  Good'
<1>1. CASE Report
  <2>1. UNCHANGED <<core, hand, board, up>>
    BY <1>1, Zenon DEF Report
  <2>2. CoreKept
    BY <2>1, CoreStays
  <2>3. PollKept
    <3>1. core # "none"
      BY <1>1, Zenon DEF Report, Good, RowsRead
    <3>2. poll' = Idle \/ poll'.row = core
      BY <1>1 DEF Report, Held
    <3>3. CASE poll' = Idle
      BY <2>2, <3>1, <3>3, PollDone
    <3>4. CASE poll'.row = core
      BY <2>1, <2>2, <3>1, <3>4, Zenon DEF PollKept, CoreKept, Ended
    <3> QED
      BY <3>2, <3>3, <3>4
  <2>4. PICK a : a = IF robot THEN <<>> ELSE <<Msg("waybill", "none")>>
    BY Zenon
  <2>5. Mail(a) /\ Mute(a)
    BY <2>4, MailNone, MailWord
  <2>6. PICK b : b = IF job = "delivered" /\ job # core THEN <<Msg("delivered", "none")>> ELSE <<>>
    BY Zenon
  <2>7. Mail(b) /\ Mute(b)
    BY <2>6, MailNone, MailWord
  <2>8. Mail(a \o b) /\ Mute(a \o b)
    BY <2>5, <2>7, MailBoth
  <2>9. Send(a \o b)
    BY <1>1, <2>4, <2>6, Zenon DEF Report
  <2>10. DownKept
    BY <2>2, <2>8, <2>9, DownGrows
  <2> QED
    BY <2>1, <2>2, <2>3, <2>10, OwnStep
<1>2. CASE MarkStatus
  <2>1. PICK s : s = poll.m.s
    BY Zenon
  <2>2. s \in {"in_transit", "staged", "faulted", "delivered"}
    BY <1>2, <2>1, Zenon DEF MarkStatus
  <2>3. s \in Status /\ s \in Row
    BY <2>2, Written, Statuses
  <2>4. UNCHANGED <<hand, board, up>> /\ poll' = Idle /\ told' = told
    BY <1>2, Zenon DEF MarkStatus, mission
  <2>5. core' = core \/ (core \in Live /\ core' = s)
    BY <1>2, <2>1, Statuses, Zenon DEF MarkStatus, CanMark
  <2>6. CoreKept
    BY <2>3, <2>5, CoreStays, CoreGoes
  <2>7. PollKept
    BY <2>4, <2>6, PollDone
  <2>8. PICK b : b = IF s = "staged" THEN <<Msg("staged", "none")>> ELSE <<>>
    BY Zenon
  <2>9. Mail(b) /\ Mute(b)
    BY <2>8, MailNone, MailWord
  <2>10. Mail(Update(s)) /\ Mute(Update(s))
    BY <2>3, MailUpdate
  <2>11. Mail(Update(s) \o b) /\ Mute(Update(s) \o b)
    BY <2>9, <2>10, MailBoth
  <2>12. Send(Update(s) \o b)
    BY <1>2, <2>1, <2>8, Zenon DEF MarkStatus
  <2>13. DownKept
    BY <2>6, <2>11, <2>12, DownGrows
  <2> QED
    BY <2>4, <2>6, <2>7, <2>13, OwnStep
<1>3. CASE FleetOrderCancelled
  <2>1. UNCHANGED <<hand, board, up>> /\ poll' = Idle /\ told' = told
    BY <1>3, Zenon DEF FleetOrderCancelled, mission
  <2>2. core # "none"
    BY <1>3, Zenon DEF FleetOrderCancelled, Good, RowsRead
  <2>3. Mail(Update("cancelled")) /\ Mute(Update("cancelled"))
    BY Written, MailUpdate
  <2>4. CASE poll.row \in Terminal
    <3>1. core' = core /\ Send(Update("cancelled"))
      BY <1>3, <2>4, Zenon DEF FleetOrderCancelled
    <3>2. CoreKept
      BY <3>1, CoreStays
    <3>3. PollKept
      BY <2>1, <3>2, PollDone
    <3>4. DownKept
      BY <2>3, <3>1, <3>2, DownGrows
    <3> QED
      BY <2>1, <3>2, <3>3, <3>4, OwnStep
  <2>5. CASE poll.row \notin Terminal
    <3>1. Terminalize("cancelled") /\ Send(Update("cancelled") \o Event(<<Msg("cancelled", "none")>>))
      BY <1>3, <2>5, Zenon DEF FleetOrderCancelled
    <3>2. CoreKept /\ Ended'
      BY <2>2, <3>1, Written, CoreEnds
    <3>3. PollKept
      BY <2>1, <3>2, PollDone
    <3>4. Mail(Event(<<Msg("cancelled", "none")>>))
      BY MailNone, MailCancelled, Zenon DEF Event
    <3>5. Mail(Update("cancelled") \o Event(<<Msg("cancelled", "none")>>))
      BY <2>3, <3>4, MailBoth
    <3>6. DownKept
      BY <3>1, <3>2, <3>5, DownGrows
    <3> QED
      BY <2>1, <3>2, <3>3, <3>6, OwnStep
  <2> QED
    BY <2>4, <2>5
<1> QED
  BY <1>1, <1>2, <1>3

-----------------------------------------------------------------------------
(* Core's message goroutine.                                               *)

\* The message in hand, whose row was there if it is not the request.
LEMMA InHand ==
    ASSUME Good, hand # Idle
    PROVE  hand.row = "none" <=> core = "none"
BY Zenon DEF Good, RowsRead

\* A message with a type is a message in hand.
LEMMA InHandNotIdle ==
    ASSUME NEW t, t # "none", hand.m.t = t
    PROVE  hand # Idle
BY NothingHeld

\* A message is taken.
LEMMA TakeStep ==
    ASSUME Good, Take
    PROVE  Good'
<1> PICK m : m = Head(up)
  BY Zenon
<1>1. /\ hand = Idle /\ up # <<>> /\ up' = Tail(up) /\ hand' = [m |-> m, row |-> core]
      /\ core' = core /\ told' = told /\ poll' = poll /\ down' = down
      /\ edge' = edge /\ reply' = reply /\ click' = click
  BY Zenon DEF Take, Held, mission, board
<1>2. /\ m \in UpMsg /\ m = up[1] /\ 1 \in DOMAIN up
      /\ Tail(up) \in Seq(UpMsg)
      /\ \A k \in DOMAIN Tail(up) : k + 1 \in DOMAIN up /\ Tail(up)[k] = up[k + 1] /\ k + 1 # 1
      /\ \A k \in DOMAIN up : k = 1 \/ (k - 1 \in DOMAIN Tail(up) /\ Tail(up)[k - 1] = up[k])
  <2>1. up \in Seq(UpMsg)
    BY Zenon DEF Good, Types
  <2> QED
    BY ONLY <1>1, <2>1, Taking, m = Head(up)
<1>3. hand'.m = m /\ hand'.row = core
  BY <1>1
<1>4. \A k \in DOMAIN up' : up'[k].t # "request"
  BY <1>1, <1>2, Zenon DEF Good, Requests
<1>5. Types'
  <2>1. m \in HandMsg /\ core \in Row
    BY <1>2, Zenon DEF UpMsg, HandMsg, Good, Types
  <2>2. hand' \in [m : HandMsg, row : Row]
    BY <1>1, <2>1
  <2> QED
    BY <1>1, <1>2, <2>2, Zenon DEF Good, Types
<1>6. RowsRead'
  BY <1>1, <1>3, Zenon DEF Good, RowsRead
<1>7. Requests'
  <2>1. m.t = "request" => core = "none"
    BY <1>2, Zenon DEF Good, Requests
  <2> QED
    BY <1>1, <1>3, <1>4, <2>1, Zenon DEF Requests
<1>8. CancelsTold'
  BY <1>1, Zenon DEF Good, CancelsTold
<1>9. AbortOnItsWay'
  <2>1. CancelComing => CancelComing'
    <3>1. hand.m.t # "cancel"
      BY <1>1, NothingHeld
    <3>2. ASSUME NEW k \in DOMAIN up, up[k].t = "cancel"
          PROVE  hand'.m.t = "cancel" \/ \E i \in DOMAIN up' : up'[i].t = "cancel"
      <4>1. CASE k = 1
        BY <1>2, <1>3, <3>2, <4>1, Zenon
      <4>2. CASE k # 1
        BY <1>1, <1>2, <3>2, <4>2, Zenon
      <4> QED
        BY <4>1, <4>2
    <3> QED
      BY <3>1, <3>2, Zenon DEF CancelComing
  <2>2. NoRequest => NoRequest'
    <3>1. NoRequest => m.t # "request"
      BY <1>2, Zenon DEF NoRequest
    <3>2. hand'.m.t = m.t
      BY <1>3
    <3>3. NoRequest => hand'.m.t # "request"
      BY <3>1, <3>2, Zenon
    <3> QED
      BY <1>4, <3>3, Zenon DEF NoRequest
  <2> QED
    BY <1>1, <2>1, <2>2, Zenon DEF Good, AbortOnItsWay
<1> QED
  BY <1>5, <1>6, <1>7, <1>8, <1>9, Zenon DEF Good

\* The request is handled: from then on Core has the order, or it never will.
LEMMA RequestStep ==
    ASSUME Good, hand.m.t = "request", core' \in Status \/ core' = core,
           \/ hand' = Idle
           \/ core' = "queued" /\ hand' = [m |-> Msg("queued", "none"), row |-> "queued"],
           UNCHANGED <<told, poll, board, up>>, NEW ms, Mail(ms), Mute(ms),
           Send(ms) \/ UNCHANGED down
    PROVE  Good'
<1>1. told' = told /\ poll' = poll /\ edge' = edge /\ reply' = reply /\ click' = click /\ up' = up
  BY Zenon DEF board
<1>2. core = "none" /\ \A k \in DOMAIN up : up[k].t # "request"
  BY Zenon DEF Good, Requests
<1>3. poll = Idle /\ told = "none" /\ "none" \notin Terminal /\ "none" \in Row
  BY <1>2 DEF Good, RowsRead, Terminal, Row
<1>4. Mail(down') /\ (Mute(down) => Mute(down'))
  <2>1. Mail(down)
    BY Zenon DEF Good, Types
  <2>2. Mail(down \o ms) /\ (Mute(down) => Mute(down \o ms))
    BY <2>1, MailBoth
  <2>3. down' = down \o ms \/ down' = down
    BY Zenon DEF Send
  <2>4. CASE down' = down
    BY <2>1, <2>4, Zenon
  <2>5. CASE down' = down \o ms
    BY <2>2, <2>5, Zenon
  <2> QED
    BY <2>3, <2>4, <2>5
<1>5. /\ hand' \in [m : HandMsg, row : Row] /\ hand'.m.t # "request" /\ hand'.m.t # "cancel"
      /\ hand' = Idle \/ (core' = "queued" /\ hand'.row = "queued")
      /\ hand'.row \notin Terminal
  BY NothingHeld, Written DEF HandMsg, Msg, Terminal
<1>6. Types'
  BY <1>1, <1>4, <1>5, Zenon DEF Good, Types, Row
<1>7. RowsRead'
  <2>1. "queued" # "none" /\ Idle.row = "none"
    BY NothingHeld
  <2> QED
    BY <1>1, <1>3, <1>5, <2>1, Zenon DEF RowsRead, Idle
<1>8. Requests'
  BY <1>1, <1>2, <1>5, Zenon DEF Requests
<1>9. CancelsTold'
  BY <1>1, <1>2, <1>3, <1>4, Zenon DEF Good, CancelsTold
<1>10. AbortOnItsWay'
  <2>1. edge = "cancelled" \/ click = "cancelled" => \E k \in DOMAIN up : up[k].t = "cancel"
    <3>1. hand.m.t # "cancel"
      OBVIOUS
    <3> QED
      BY <1>2, <1>3, <3>1, Zenon DEF Good, AbortOnItsWay, CancelComing, NoRequest
  <2> QED
    BY <1>1, <2>1, Zenon DEF AbortOnItsWay, CancelComing
<1> QED
  BY <1>6, <1>7, <1>8, <1>9, <1>10, Zenon DEF Good

\* The two handlers of a request.
LEMMA RequestSteps ==
    ASSUME Good, HandleOrderRequest \/ HandleComplexOrderRequest
    PROVE  Good'
<1>1. "queued" \in Status /\ "failed" \in Status
  BY Written, Statuses
<1>2. PICK e : e = Msg("error", "rejected")
  BY Zenon
<1>3. e \in DownMsg /\ ~Cancels(e)
  BY <1>2, Wording DEF Codes
<1>4. CASE HandleOrderRequest
  <2>1. Mail(<<e, e>>) /\ Mute(<<e, e>>)
    BY <1>3, MailTwo
  <2>2. /\ hand.m.t = "request" /\ core' \in Status
        /\ UNCHANGED <<told, poll, board, up>>
        /\ Send(<<e, e>>) \/ UNCHANGED down
        /\ \/ hand' = Idle
           \/ core' = "queued" /\ hand' = [m |-> Msg("queued", "none"), row |-> "queued"]
    BY <1>1, <1>2, <1>4, Zenon DEF HandleOrderRequest, mission
  <2> QED
    BY <2>1, <2>2, RequestStep
<1>5. CASE HandleComplexOrderRequest
  <2>1. /\ hand.m.t = "request" /\ UNCHANGED <<told, poll, board, up>>
        /\ \/ /\ core' = "queued" /\ hand' = [m |-> Msg("queued", "none"), row |-> "queued"]
              /\ Send(<<Msg("ack", "none")>>)
           \/ core' = core /\ hand' = Idle /\ Send(<<e>>)
    BY <1>2, <1>5, Zenon DEF HandleComplexOrderRequest, mission, Reject
  <2>2. Mail(<<Msg("ack", "none")>>) /\ Mute(<<Msg("ack", "none")>>)
    BY MailWord
  <2>3. Mail(<<e>>) /\ Mute(<<e>>)
    BY <1>3, MailOne
  <2> QED
    BY <1>1, <2>1, <2>2, <2>3, RequestStep
<1> QED
  BY <1>4, <1>5

\* The other messages: the queued answer, a release, a receipt, an ask.
LEMMA HandledSteps ==
    ASSUME Good, \/ ReplyQueued \/ PushQueueReason \/ RefuseRelease \/ AppendSegment
                 \/ HandleOrderReceipt \/ HandleOrderStatusRequest
    PROVE  Good'
<1>1. /\ hand' = Idle /\ hand.m.t \in {"queued", "release", "receipt", "ask"}
      /\ UNCHANGED <<told, poll, board, up>>
  BY Zenon DEF ReplyQueued, PushQueueReason, RefuseRelease, AppendSegment, HandleOrderReceipt,
               HandleOrderStatusRequest, Handling, mission
<1>2. SUFFICES CoreKept /\ DownKept
  BY <1>1, PollStays, HandledStep
<1>3. core \in Row
  BY Zenon DEF Good, Types
<1>4. \A c \in Codes : Reject(c) => (CoreKept => DownKept)
  BY MailError, DownGrows DEF Reject
<1>5. CASE ReplyQueued
  <2>1. core' = core /\ Send(Update("queued"))
    BY <1>5, Zenon DEF ReplyQueued
  <2>2. Mail(Update("queued")) /\ Mute(Update("queued"))
    BY Written, MailUpdate
  <2> QED
    BY <2>1, <2>2, CoreStays, DownGrows
<1>6. CASE PushQueueReason
  <2>1. core' = core /\ (UNCHANGED down \/ Send(Update(core)))
    BY <1>6, Zenon DEF PushQueueReason
  <2>2. Mail(Update(core)) /\ Mute(Update(core))
    BY <1>3, MailUpdate
  <2> QED
    BY <2>1, <2>2, CoreStays, DownGrows, DownStays
<1>7. CASE RefuseRelease
  <2>1. /\ core' = core
        /\ UNCHANGED down \/ Reject("invalid_state") \/ Reject("manifest_sync_failed")
           \/ Reject("fleet_failed")
    BY <1>7, Zenon DEF RefuseRelease
  <2>2. {"invalid_state", "manifest_sync_failed", "fleet_failed"} \subseteq Codes
    BY DEF Codes
  <2> QED
    BY <1>4, <2>1, <2>2, CoreStays, DownStays
<1>8. CASE AppendSegment
  <2>1. /\ core' = core \/ (core = "staged" /\ core' = "in_transit")
        /\ UNCHANGED down \/ Reject("fleet_failed")
    BY <1>8, Zenon DEF AppendSegment
  <2>2. "fleet_failed" \in Codes
    BY DEF Codes
  <2>3. CoreKept
    BY <2>1, Written, Statuses, CoreStays, CoreGoes
  <2> QED
    BY <1>4, <2>1, <2>2, <2>3, DownStays
<1>9. CASE HandleOrderReceipt
  <2>1. CASE IsValidTransition(hand.row, "confirmed")
    <3>1. Terminalize("confirmed") /\ Send(Event(Update("confirmed")))
      BY <1>9, <2>1, Zenon DEF HandleOrderReceipt
    <3>2. core # "none"
      <4>1. hand.row # "none"
        BY <2>1, Statuses, Written
      <4>2. hand # Idle
        BY <1>9, InHandNotIdle DEF HandleOrderReceipt, Handling
      <4> QED
        BY <4>1, <4>2, InHand
    <3>3. CoreKept
      BY <3>1, <3>2, Written, CoreEnds
    <3>4. Mail(Update("confirmed")) /\ Mute(Update("confirmed"))
      BY Written, MailUpdate
    <3>5. Mail(Event(Update("confirmed"))) /\ Mute(Event(Update("confirmed")))
      BY <3>4, MailNone, Zenon DEF Event
    <3> QED
      BY <3>1, <3>3, <3>5, DownGrows
  <2>2. CASE ~IsValidTransition(hand.row, "confirmed")
    <3>1. core' = core /\ down' = down
      BY <1>9, <2>2, Zenon DEF HandleOrderReceipt
    <3> QED
      BY <3>1, CoreStays, DownStays
  <2> QED
    BY <2>1, <2>2
<1>10. CASE HandleOrderStatusRequest
  <2>1. core' = core /\ Send(<<Msg("snapshot", core)>>)
    BY <1>10, Zenon DEF HandleOrderStatusRequest
  <2>2. Msg("snapshot", core) \in DownMsg /\ (Cancels(Msg("snapshot", core)) => core = "cancelled")
    BY <1>3, Wording
  <2>3. Mail(<<Msg("snapshot", core)>>) /\ (Mute(<<Msg("snapshot", core)>>) \/ core = "cancelled")
    BY <2>2, MailOne
  <2>4. core = "cancelled" => Ended'
    BY <2>1, Written DEF Ended
  <2> QED
    BY <2>1, <2>3, <2>4, CoreStays, DownGrows
<1> QED
  BY <1>5, <1>6, <1>7, <1>8, <1>9, <1>10

\* A cancel is handled: the order has ended, or Core never had it and the
\* request is not behind the cancel.
LEMMA CancelStep ==
    ASSUME Good, Clean', HandleOrderCancel
    PROVE  Good'
<1> PICK c : c = Msg("cancelled", "none")
  BY Zenon
<1>1. /\ hand' = Idle /\ hand.m.t = "cancel" /\ told' = told /\ poll' = poll
      /\ up' = up /\ edge' = edge /\ reply' = reply /\ click' = click
  BY Zenon DEF HandleOrderCancel, Handling, board
<1>2. hand # Idle /\ hand.m.t # "request"
  BY <1>1, InHandNotIdle
<1>3. hand.row = "none" <=> core = "none"
  BY <1>2, InHand
<1>4. /\ CoreKept /\ DownKept
      /\ core' = "none" \/ Ended'
  <2>1. Mail(<<c>>)
    BY MailCancelled
  <2>2. CASE hand.row = "none" /\ Reject("not_found") /\ core' = core
    <3>1. CoreKept
      BY <2>2, CoreStays
    <3>2. Mail(<<Msg("error", "not_found")>>) /\ Mute(<<Msg("error", "not_found")>>)
      BY MailError DEF Codes
    <3>3. DownKept
      BY <2>2, <3>1, <3>2, DownGrows DEF Reject
    <3> QED
      BY <1>3, <2>2, <3>1, <3>3
  <2>3. CASE hand.row \in Terminal /\ core' = core /\ (down' = down \/ Send(<<c>>))
    <3>1. CoreKept /\ Ended'
      BY <2>3, CoreStays, Zenon DEF Good, RowsRead, Ended
    <3>2. DownKept
      BY <2>1, <2>3, <3>1, DownStays, DownGrows
    <3> QED
      BY <3>1, <3>2
  <2>4. CASE hand.row \in Live /\ Terminalize("cancelled") /\ Send(Event(<<c>>) \o <<c>>)
    <3>1. core # "none"
      BY <1>3, <2>4, Written
    <3>2. CoreKept /\ Ended'
      BY <2>4, <3>1, Written, CoreEnds
    <3>3. Mail(Event(<<c>>))
      BY <2>1, MailNone, Zenon DEF Event
    <3>4. Mail(Event(<<c>>) \o <<c>>)
      BY <2>1, <3>3, MailBoth
    <3>5. DownKept
      BY <2>4, <3>2, <3>4, DownGrows
    <3> QED
      BY <3>2, <3>5
  <2>5. "cancelled" \in Terminal
    BY Written
  <2> QED
    BY <2>2, <2>3, <2>4, <2>5, Zenon DEF HandleOrderCancel, Clean
<1>5. PollKept
  BY <1>1, <1>4, PollStays
<1>6. "none" \notin Terminal /\ hand'.m.t = "none" /\ hand'.row = "none"
  BY <1>1, NothingHeld DEF Terminal
<1>7. \A k \in DOMAIN up : up[k].t # "request"
  BY <1>2, Zenon DEF Good, Requests
<1>8. Types'
  BY <1>1, <1>4, <1>5, NothingHeld, Zenon DEF Good, Types, CoreKept, DownKept, PollKept
<1>9. RowsRead'
  BY <1>1, <1>4, <1>5, <1>6, Zenon DEF RowsRead, CoreKept, PollKept, Ended
<1>10. Requests'
  <2>1. hand'.m.t # "request"
    BY <1>6
  <2> QED
    BY <1>1, <1>7, <2>1, Zenon DEF Requests
<1>11. CancelsTold'
  BY <1>1, <1>4, Zenon DEF Good, CancelsTold, CoreKept, DownKept, Ended
<1>12. AbortOnItsWay'
  <2>1. hand'.m.t # "request"
    BY <1>6
  <2> QED
    BY <1>1, <1>4, <1>7, <2>1, Zenon DEF AbortOnItsWay, NoRequest, Ended
<1> QED
  BY <1>8, <1>9, <1>10, <1>11, <1>12, Zenon DEF Good

-----------------------------------------------------------------------------
(* The Edge, restarts and the wire.                                        *)

\* The messages to Core stay as they are, or one is added behind them.
UpKept ==
    /\ up' \in Seq(UpMsg)
    /\ \A k \in DOMAIN up : k \in DOMAIN up' /\ up'[k] = up[k]
    /\ \A k \in DOMAIN up' : k \in DOMAIN up \/ up'[k].t # "request"

\* Nothing is sent to Core.
LEMMA UpStays ==
    ASSUME Good, up' = up
    PROVE  UpKept
BY Zenon DEF Good, Types, UpKept

\* The Edge sends a message other than the request.
LEMMA UpGrows ==
    ASSUME Good, NEW t \in {"release", "cancel", "receipt", "ask"}, up' = Append(up, Msg(t, "none"))
    PROVE  UpKept /\ \E k \in DOMAIN up' : up'[k].t = t
<1> PICK m : m = Msg(t, "none")
  BY Zenon
<1>1. m \in UpMsg /\ m.t = t /\ t # "request"
  BY DEF UpMsg, Msg
<1>2. up \in Seq(UpMsg)
  BY Zenon DEF Good, Types
<1>3. /\ Len(up) \in Nat /\ DOMAIN up = 1..Len(up)
      /\ up' \in Seq(UpMsg) /\ DOMAIN up' = 1..(Len(up) + 1)
      /\ up'[Len(up) + 1] = m
      /\ \A k \in 1..Len(up) : up'[k] = up[k]
  BY <1>1, <1>2
<1>4. \A k \in DOMAIN up : k \in DOMAIN up' /\ up'[k] = up[k]
  BY <1>3
<1>5. \A k \in DOMAIN up' : k \in DOMAIN up \/ k = Len(up) + 1
  BY <1>3
<1>6. Len(up) + 1 \in DOMAIN up'
  BY <1>3
<1> QED
  BY <1>1, <1>3, <1>4, <1>5, <1>6, Zenon DEF UpKept

\* A step at the Edge or on the wire: Core's row and what it reads stay, and a
\* cancel is written only where one was written, is told or is sent.
LEMMA EdgeFrame ==
    ASSUME Good, UNCHANGED <<core, told, hand, poll>>, UpKept,
           edge' \in Status, reply' \in Row, click' \in Row,
           Mail(down'), Mute(down) \/ Ended => Mute(down') \/ Ended, reply' = "cancelled" => Ended,
           edge' = "cancelled" \/ click' = "cancelled" =>
               \/ edge = "cancelled" \/ click = "cancelled" \/ Ended
               \/ \E k \in DOMAIN up' : up'[k].t = "cancel"
    PROVE  Good'
<1>1. core' = core /\ told' = told /\ hand' = hand /\ poll' = poll
  OBVIOUS
<1>2. Types'
  BY <1>1, Zenon DEF Good, Types, UpKept
<1>3. RowsRead'
  BY <1>1, Zenon DEF Good, RowsRead
<1>4. Requests'
  BY <1>1, Zenon DEF Good, Requests, UpKept
<1>5. CancelsTold'
  BY <1>1, Zenon DEF Good, CancelsTold, Ended
<1>6. AbortOnItsWay'
  <2>1. (CancelComing => CancelComing') /\ (NoRequest => NoRequest')
    BY <1>1, Zenon DEF CancelComing, NoRequest, UpKept
  <2>2. (\E k \in DOMAIN up' : up'[k].t = "cancel") => CancelComing'
    BY Zenon DEF CancelComing
  <2> QED
    BY <1>1, <2>1, <2>2, Zenon DEF Good, AbortOnItsWay, Ended
<1> QED
  BY <1>2, <1>3, <1>4, <1>5, <1>6, Zenon DEF Good

\* The Edge's writes.
LEMMA EdgeSteps ==
    ASSUME Good, HandleMessage \/ WriteReply \/ WriteClick
    PROVE  Good'
<1>1. /\ edge \in Status /\ reply \in Row /\ click \in Row /\ Mail(down)
      /\ (Mute(down) \/ Ended) /\ (reply = "cancelled" => Ended)
  BY Zenon DEF Good, Types, CancelsTold, Ended
<1>2. "none" \in Row /\ "none" # "cancelled" /\ \A s \in Row : s # "none" => s \in Status
  BY DEF Row
<1>3. UNCHANGED <<core, told, hand, poll, up>>
  BY Zenon DEF HandleMessage, WriteReply, WriteClick, mission
<1>4. UpKept
  BY <1>3, UpStays
<1>5. CASE HandleMessage
  <2>1. /\ down # <<>> /\ down' = Tail(down) /\ reply' = Target(Head(down))
        /\ edge' = edge /\ click' = click
    BY <1>5, Zenon DEF HandleMessage
  <2>2. /\ Mail(Tail(down)) /\ Head(down) \in DownMsg
        /\ Mute(down) => Mute(Tail(down)) /\ ~Cancels(Head(down))
    BY <1>1, <2>1, MailLess
  <2>3. Target(Head(down)) \in Row /\ (Target(Head(down)) = "cancelled" => Cancels(Head(down)))
    BY <2>2, TargetOf
  <2>4. Mail(down') /\ (Mute(down) => Mute(down'))
    BY <2>1, <2>2, Zenon
  <2>5. reply' \in Row /\ (reply' = "cancelled" => Ended)
    BY <1>1, <2>1, <2>2, <2>3, Zenon
  <2> QED
    BY <1>1, <1>3, <1>4, <2>1, <2>4, <2>5, EdgeFrame
<1>6. CASE WriteReply
  <2>1. reply # "none" /\ edge' = reply /\ reply' = "none" /\ click' = click /\ down' = down
    BY <1>6, Zenon DEF WriteReply
  <2> QED
    BY <1>1, <1>2, <1>3, <1>4, <2>1, EdgeFrame
<1>7. CASE WriteClick
  <2>1. click # "none" /\ edge' = click /\ click' = "none" /\ reply' = reply /\ down' = down
    BY <1>7, Zenon DEF WriteClick
  <2> QED
    BY <1>1, <1>2, <1>3, <1>4, <2>1, EdgeFrame
<1> QED
  BY <1>5, <1>6, <1>7

\* The operator's requests.
LEMMA ClickSteps ==
    ASSUME Good, ReleaseOrder \/ AbortOrder \/ ConfirmDelivery
    PROVE  Good'
<1>1. /\ edge \in Status /\ reply \in Row /\ Mail(down) /\ (reply = "cancelled" => Ended)
  BY Zenon DEF Good, Types, CancelsTold, Ended
<1>2. PICK t, s : Request(t, s) /\ <<t, s>> \in {<<"release", "in_transit">>, <<"cancel", "cancelled">>,
                                             <<"receipt", "confirmed">>}
  BY Zenon DEF ReleaseOrder, AbortOrder, ConfirmDelivery
<1>3. t \in {"release", "cancel", "receipt"} /\ s \in Row /\ (s = "cancelled" => t = "cancel")
  BY <1>2, Written
<1>4. /\ UNCHANGED <<core, told, hand, poll>> /\ edge' = edge /\ reply' = reply /\ down' = down
      /\ up' = Append(up, Msg(t, "none")) /\ click' = Transition(s)
  BY <1>2, Zenon DEF Request, mission
<1>5. UpKept /\ \E k \in DOMAIN up' : up'[k].t = t
  BY <1>3, <1>4, UpGrows
<1>6. click' \in Row /\ (click' = "cancelled" => t = "cancel")
  <2>1. click' \in {s, "none"}
    BY <1>4, Zenon DEF Transition
  <2> QED
    BY <1>3, <2>1 DEF Row
<1> QED
  BY <1>1, <1>4, <1>5, <1>6, EdgeFrame

\* The Edge asks for Core's status, after a reconnect or a restart.
LEMMA AskSteps ==
    ASSUME Good, Reconnect \/ Resync \/ EdgeRestart
    PROVE  Good'
<1>1. /\ edge \in Status /\ reply \in Row /\ click \in Row /\ Mail(down)
      /\ (reply = "cancelled" => Ended)
  BY Zenon DEF Good, Types, CancelsTold, Ended
<1>2. "none" \in Row /\ "none" # "cancelled"
  BY DEF Row
<1>3. /\ UNCHANGED <<core, told, hand, poll>> /\ edge' = edge /\ down' = down /\ up' = Asked
      /\ reply' = reply \/ reply' = "none"
      /\ click' = click \/ click' = "none"
  BY Zenon DEF Reconnect, Resync, EdgeRestart, mission, board
<1>4. UpKept
  <2>1. up' = up \/ up' = Append(up, Msg("ask", "none"))
    BY <1>3, Zenon DEF Asked
  <2> QED
    BY <2>1, UpStays, UpGrows
<1> QED
  BY <1>1, <1>2, <1>3, <1>4, EdgeFrame

\* Time passes, or Core's outbox loses, swaps or repeats a row.
LEMMA WireSteps ==
    ASSUME Good, Clean', Age \/ DropDown \/ Overtake \/ PublishAgain
    PROVE  Good'
<1>1. /\ edge \in Status /\ reply \in Row /\ click \in Row /\ Mail(down)
      /\ (reply = "cancelled" => Ended)
  BY Zenon DEF Good, Types, CancelsTold, Ended
<1>2. /\ UNCHANGED <<core, told, hand, poll>>
      /\ edge' = edge /\ reply' = reply /\ click' = click
  BY Zenon DEF Age, DropDown, Overtake, PublishAgain, mission, board
<1>3. /\ up' = up
      /\ \/ down' = down
         \/ down # <<>> /\ down' = Tail(down)
         \/ Len(down) > 1 /\ down' = Swap(down)
         \/ down # <<>> /\ down' = <<Head(down)>> \o down
  BY Zenon DEF Age, DropDown, Overtake, PublishAgain, Clean
<1>4. UpKept
  BY <1>3, UpStays
<1>5. Mail(down') /\ (Mute(down) => Mute(down'))
  <2>1. CASE down # <<>> /\ down' = Tail(down)
    BY <1>1, <2>1, MailLess
  <2>2. CASE Len(down) > 1 /\ down' = Swap(down)
    BY <1>1, <2>2, MailSwapped
  <2>3. CASE down # <<>> /\ down' = <<Head(down)>> \o down
    <3>1. Head(down) \in DownMsg /\ (Mute(down) => ~Cancels(Head(down)))
      BY <1>1, <2>3, MailLess
    <3>2. Mail(<<Head(down)>>) /\ (Mute(down) => Mute(<<Head(down)>>))
      BY <3>1, MailOne
    <3>3. Mail(<<Head(down)>> \o down) /\ (Mute(down) => Mute(<<Head(down)>> \o down))
      BY <1>1, <3>2, MailBoth
    <3> QED
      BY <2>3, <3>3, Zenon
  <2> QED
    BY <1>1, <1>3, <2>1, <2>2, <2>3
<1> QED
  BY <1>1, <1>2, <1>4, <1>5, EdgeFrame

\* Core restarts with no message in hand.
LEMMA RestartStep ==
    ASSUME Good, Clean', CoreRestart
    PROVE  Good'
<1>1. hand = Idle
  BY Zenon DEF CoreRestart, Clean, When
<1>2. /\ core' = core /\ hand' = hand /\ poll' = Idle /\ UNCHANGED <<board, up>>
      /\ told' = IF IsVendorTracked(core) THEN "dispatched" ELSE "none"
      /\ UNCHANGED down \/ Send(Update(core))
  BY <1>1, Zenon DEF CoreRestart
<1>3. CoreKept
  BY <1>2, CoreStays
<1>4. PollKept
  <2>1. core = "none" => told' = "none"
    BY <1>2 DEF IsVendorTracked
  <2>2. Idle.row = "none" /\ "none" \notin Terminal /\ "none" \in Row
    BY NothingHeld DEF Terminal, Row
  <2> QED
    BY <1>2, <2>1, <2>2, Zenon DEF PollKept
<1>5. DownKept
  <2>1. core \in Row
    BY Zenon DEF Good, Types
  <2>2. Mail(Update(core)) /\ Mute(Update(core))
    BY <2>1, MailUpdate
  <2> QED
    BY <1>2, <1>3, <2>2, DownStays, DownGrows
<1> QED
  BY <1>2, <1>3, <1>4, <1>5, OwnStep

-----------------------------------------------------------------------------
(* The theorem.                                                            *)

\* A lapse is never forgotten.
LEMMA LapseGrows ==
    ASSUME Next
    PROVE  lapse \subseteq lapse'
BY Zenon DEF Next, CoreStep, EdgeStep, NotifyEdgeDispatched, Report, MarkStatus, FleetOrderCancelled,
    Take, HandleOrderRequest, ReplyQueued, HandleComplexOrderRequest, PushQueueReason, RefuseRelease,
    AppendSegment, HandleOrderCancel, HandleOrderReceipt, HandleOrderStatusRequest, HandleMessage,
    WriteReply, WriteClick, Dispatch, BeginReshuffle, ResumeCompound, EndInPlanning, CancelAtCore,
    GraceExpires, AutoConfirm, ReleaseGate, Drive, Fault, Recover, StopAtFleet, ReleaseOrder,
    AbortOrder, ConfirmDelivery, Request, Age, Reconnect, CoreRestart, EdgeRestart, Resync, DropUp,
    DropDown, Overtake, PublishAgain

\* The invariant holds when the Edge has sent the request.
LEMMA Begins == Init => IInv
<1> SUFFICES ASSUME Init PROVE Good
  BY Zenon DEF IInv
<1> PICK r : r = Msg("request", "none")
  BY Zenon
<1>1. r \in UpMsg /\ r.t = "request"
  BY DEF UpMsg, Msg
<1>2. up \in Seq(UpMsg) /\ DOMAIN up = {1} /\ up[1] = r
  BY <1>1 DEF Init
<1>3. /\ core = "none" /\ told = "none" /\ hand = Idle /\ poll = Idle /\ down = <<>>
      /\ edge = "submitted" /\ reply = "none" /\ click = "none"
  BY Zenon DEF Init
<1>4. "none" \in Row /\ "submitted" \in Status /\ "none" \notin Terminal
  BY DEF Row, Status, Live, Terminal
<1>5. Types
  BY <1>2, <1>3, <1>4, NothingHeld, MailNone, Zenon DEF Types
<1>6. RowsRead
  BY <1>3, <1>4, NothingHeld DEF RowsRead
<1>7. Requests
  BY <1>2, <1>3, NothingHeld DEF Requests
<1>8. CancelsTold
  BY <1>3, MailNone DEF CancelsTold
<1>9. AbortOnItsWay
  BY <1>3 DEF AbortOnItsWay
<1> QED
  BY <1>5, <1>6, <1>7, <1>8, <1>9, Zenon DEF Good

\* Every step keeps the invariant.
LEMMA Keeps == IInv /\ [Next]_vars => IInv'
<1> SUFFICES ASSUME IInv, [Next]_vars, Clean' PROVE Good'
  BY Zenon DEF IInv
<1>1. CASE Next
  <2>1. Clean
    BY <1>1, LapseGrows, Zenon DEF Clean
  <2>2. Good
    BY <2>1, Zenon DEF IInv
  <2>3. CASE DropUp
    BY <2>3, Zenon DEF DropUp, Clean
  <2> QED
    BY <1>1, <2>2, <2>3, OwnSteps, FleetSteps, PollSteps, TakeStep, RequestSteps, HandledSteps,
       CancelStep, EdgeSteps, ClickSteps, AskSteps, WireSteps, RestartStep, Zenon
       DEF Next, CoreStep, EdgeStep
<1>2. CASE UNCHANGED vars
  <2>1. Clean
    BY <1>2, Zenon DEF Clean, vars
  <2>2. Good
    BY <2>1, Zenon DEF IInv
  <2>3. UNCHANGED <<core, told, hand, poll, board, up, down>>
    BY <1>2, Zenon DEF vars, mission
  <2> QED
    BY <2>2, <2>3, FleetMoves
<1> QED
  BY <1>1, <1>2

\* An abort at the Edge (AbortOrder) reaches Core (HandleOrderCancel), for every
\* number of waits, clicks and disturbances: once nothing is on its way, an
\* order the Edge shows as cancelled has ended at Core or was never created
\* there, unless a message to Core was lost or came out of turn, or Core's read
\* or write for the cancel failed.
THEOREM AbortedIsEnded == Spec => []AbortReachesCore
<1>1. IInv => AbortReachesCore
  <2> SUFFICES ASSUME IInv, Quiet, edge = "cancelled", Clean
               PROVE  core \in Terminal \/ core = "none"
    BY Zenon DEF AbortReachesCore, Clean
  <2>1. AbortOnItsWay /\ hand = Idle /\ up = <<>>
    BY Zenon DEF IInv, Good, Quiet, Still
  <2>2. DOMAIN up = {} /\ hand.m.t # "cancel"
    BY <2>1, NothingHeld
  <2> QED
    BY <2>1, <2>2, Zenon DEF AbortOnItsWay, CancelComing
<1> QED
  BY Begins, Keeps, <1>1, PTL DEF Spec
=============================================================================
