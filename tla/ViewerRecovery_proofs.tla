------------------------- MODULE ViewerRecovery_proofs -------------------------
(***************************************************************************)
(* Theorems about ViewerRecovery, for any number of streams, attempts and  *)
(* recoveries: two streams are never on the wire at once, the automatic    *)
(* reconnects keep within their budget, and the guard of a start is not    *)
(* lost to what replaced streams still report.                             *)
(*                                                                         *)
(* OneLiveStream needs that reconnectStream has no stream exactly while it *)
(* makes the next one, and the budget that the count an armed timer        *)
(* captured is still the one in the storage.                               *)
(***************************************************************************)
EXTENDS ViewerRecovery, TLAPS

LEMMA AttemptsNat == Attempts \in Nat \ {0}
BY RecoveryAssumption DEF Attempts

\* What is true of the page's fields, whatever handlers were composed.
PageInv(p) ==
  /\ p \in Page
  /\ p.auto # Off => p.auto = p.used
  /\ p.rec = "start" <=> p.cur = NoStream

\* What is true of the streams, cur being the page's.
StreamsInv(t, cur) ==
  /\ t \in [Slots -> StreamState]
  /\ \A s \in Slots : t[s].pc = "setup" => t[s].attempt = 0
  /\ \A s \in Slots \ {cur} : t[s].ws \in {"closing", "closed"}

\* The inductive invariant.
IInv ==
  /\ PageInv(page)
  /\ StreamsInv(st, page.cur)
  /\ autoRuns \in 0 .. MaxAuto /\ autoRuns <= page.used

\* q is what handlers that only report make of p.
Follows(p, q) ==
  /\ PageInv(q)
  /\ q.cur = p.cur
  /\ q.used \in {0, p.used}
  /\ q.rec = p.rec \/ (p.rec = "no" /\ q.rec = "stop")

-----------------------------------------------------------------------------
(* The page's handlers *)

LEMMA PageFields ==
  ASSUME NEW p \in Page
  PROVE  /\ p.cur \in Slots \cup {NoStream} /\ p.rec \in {"no", "stop", "close", "start"}
         /\ p.route \in Routes /\ p.wasDirect \in BOOLEAN
         /\ p.startup \in 0 .. MaxStartup
         /\ p.auto \in Off .. MaxAuto - 1 /\ p.used \in 0 .. MaxAuto
BY Zenon DEF Page

\* The page with another value in a field.
LEMMA PutAuto ==
  ASSUME NEW p \in Page, NEW a \in Off .. MaxAuto - 1, NEW q, q = [p EXCEPT !.auto = a]
  PROVE  q \in Page /\ q.cur = p.cur /\ q.rec = p.rec /\ q.used = p.used /\ q.auto = a
BY Zenon DEF Page

LEMMA PutStartup ==
  ASSUME NEW p \in Page, NEW n \in 0 .. MaxStartup, NEW q, q = [p EXCEPT !.startup = n]
  PROVE  q \in Page /\ q.cur = p.cur /\ q.rec = p.rec /\ q.used = p.used /\ q.auto = p.auto
BY Zenon DEF Page

LEMMA SetRouteFollows ==
  ASSUME NEW p, PageInv(p), NEW r \in Routes
  PROVE  Follows(p, SetRoute(p, r)) /\ SetRoute(p, r).rec = p.rec
<1> DEFINE w == p.wasDirect \/ r = "direct"
           u == IF r = "direct" THEN 0 ELSE p.used
           a == IF r = "failed" THEN p.auto ELSE Off
           q == [p EXCEPT !.route = r, !.wasDirect = w, !.used = u, !.auto = a]
<1>1. p \in Page
  BY DEF PageInv
<1>2. w \in BOOLEAN /\ u \in 0 .. MaxAuto /\ a \in Off .. MaxAuto - 1
  BY <1>1, PageFields, RecoveryAssumption DEF Off
<1>3. q \in Page /\ q.cur = p.cur /\ q.rec = p.rec /\ q.used = u /\ q.auto = a
  <2>1. q = [p EXCEPT !.route = r, !.wasDirect = w, !.used = u, !.auto = a]
    OBVIOUS
  <2> HIDE DEF w, u, a, q
  <2>2. q \in Page
    BY <1>1, <1>2, <2>1, Zenon DEF Page
  <2>3. q.cur = p.cur /\ q.rec = p.rec
    BY <1>1, <1>2, <2>1, Zenon DEF Page
  <2>4. q.used = u /\ q.auto = a
    BY <1>1, <1>2, <2>1, Zenon DEF Page
  <2> QED BY <2>2, <2>3, <2>4
<1>4. SetRoute(p, r) = IF r = "failed" /\ p.route # "failed" THEN ScheduleAutoReconnect(q) ELSE q
  BY DEF SetRoute
<1> HIDE DEF q
<1>5. Follows(p, q) /\ q.rec = p.rec
  BY <1>3 DEF Follows, PageInv
<1>6. ASSUME r = "failed"
      PROVE  Follows(p, ScheduleAutoReconnect(q)) /\ ScheduleAutoReconnect(q).rec = p.rec
  <2>1. CASE ScheduleAutoReconnect(q) = q
    BY <2>1, <1>5
  <2>2. CASE /\ ScheduleAutoReconnect(q) = [q EXCEPT !.auto = q.used]
             /\ q.used < MaxAuto
    <3>1. q.used \in Off .. MaxAuto - 1
      BY <1>3, <2>2, PageFields, RecoveryAssumption DEF Off
    <3> DEFINE n == [q EXCEPT !.auto = q.used]
    <3>2. n \in Page /\ n.cur = q.cur /\ n.rec = q.rec /\ n.used = q.used /\ n.auto = q.used
      BY <1>3, <3>1, PutAuto, Zenon
    <3> HIDE DEF n
    <3>3. Follows(p, n) /\ n.rec = p.rec
      BY <3>2, <1>5 DEF Follows, PageInv
    <3> QED BY <3>3, <2>2 DEF n
  <2> QED BY <2>1, <2>2 DEF ScheduleAutoReconnect
<1> QED BY <1>4, <1>5, <1>6


LEMMA StartupFailureFollows ==
  ASSUME NEW p, PageInv(p)
  PROVE  Follows(p, OnStartupFailure(p))
<1>1. Follows(p, p)
  BY DEF Follows
<1>2. ASSUME p.cur # NoStream, p.rec = "no", p.startup < MaxStartup
      PROVE  Follows(p, Reconnect(SetRoute([p EXCEPT !.startup = @ + 1], "negotiating")))
  <2> DEFINE n == [p EXCEPT !.startup = p.startup + 1]
             q == SetRoute(n, "negotiating")
             r == [q EXCEPT !.rec = "stop"]
  <2>1. p \in Page
    BY DEF PageInv
  <2>2. p.startup + 1 \in 0 .. MaxStartup
    <3>1. p.startup \in 0 .. MaxStartup
      BY <2>1, PageFields
    <3> QED BY <3>1, <1>2, RecoveryAssumption
  <2>3. n \in Page /\ n.cur = p.cur /\ n.rec = p.rec /\ n.used = p.used /\ n.auto = p.auto
    <3> DEFINE m == p.startup + 1
    <3>1. n = [p EXCEPT !.startup = m] /\ m \in 0 .. MaxStartup
      BY <2>2
    <3> HIDE DEF m, n
    <3> QED BY <2>1, <3>1, PutStartup
  <2>4. [p EXCEPT !.startup = @ + 1] = n
    OBVIOUS
  <2> HIDE DEF n
  <2>5. PageInv(n)
    BY <2>3 DEF PageInv
  <2>6. Follows(n, q) /\ q.rec = n.rec
    BY <2>5, SetRouteFollows DEF Routes
  <2> HIDE DEF q
  <2>7. q \in Page /\ q.cur = p.cur /\ q.rec = "no" /\ q.used \in {0, p.used}
        /\ (q.auto # Off => q.auto = q.used)
    BY <2>6, <2>3, <1>2 DEF Follows, PageInv
  <2>8. r \in Page /\ r.cur = q.cur /\ r.rec = "stop" /\ r.used = q.used /\ r.auto = q.auto
    <3>1. r = [q EXCEPT !.rec = "stop"]
      OBVIOUS
    <3>2. q \in Page
      BY <2>7
    <3> HIDE DEF r
    <3> QED BY <3>1, <3>2, Zenon DEF Page
  <2>9. Reconnect(q) = r
    BY <2>7 DEF Reconnect
  <2> HIDE DEF r
  <2>10. Follows(p, r)
    BY <2>7, <2>8, <1>2 DEF Follows, PageInv
  <2> QED BY <2>4, <2>9, <2>10 DEF q
<1> QED BY <1>1, <1>2, PageFields, RecoveryAssumption DEF OnStartupFailure, PageInv

\* A line that is logged moves the route.
LEMMA LogFollows ==
  ASSUME NEW p, PageInv(p), NEW line \in {"trying", "direct", "relayed", "failed", "lost"}
  PROVE  Follows(p, Log(p, line))
BY SetRouteFollows DEF Log, RouteUpdate, Routes

\* Handlers that call one another compose.
LEMMA FollowsOn ==
  ASSUME NEW p, NEW q, NEW r, Follows(p, q), Follows(q, r)
  PROVE  Follows(p, r)
BY DEF Follows

LEMMA CompletionFollows ==
  ASSUME NEW p, PageInv(p)
  PROVE  Follows(p, OnConnectionComplete(p))
<1> DEFINE q == [p EXCEPT !.startup = 0]
<1>1. q \in Page /\ q.cur = p.cur /\ q.rec = p.rec /\ q.used = p.used /\ q.auto = p.auto
  <2>1. 0 \in 0 .. MaxStartup
    BY RecoveryAssumption
  <2> QED BY <2>1, PutStartup, Zenon DEF PageInv
<1>2. OnConnectionComplete(p) = IF q.route = "negotiating" THEN SetRoute(q, "direct") ELSE q
  BY DEF OnConnectionComplete
<1> HIDE DEF q
<1>3. Follows(p, q) /\ PageInv(q)
  BY <1>1 DEF Follows, PageInv
<1>4. Follows(q, SetRoute(q, "direct"))
  BY <1>3, SetRouteFollows DEF Routes
<1> QED BY <1>2, <1>3, <1>4, FollowsOn

-----------------------------------------------------------------------------
(* The streams *)

LEMMA StreamFields ==
  ASSUME NEW x \in StreamState
  PROVE  /\ x.ws \in {"connecting", "open", "closing", "closed"}
         /\ x.pc \in {"setup", "peer", "negotiating", "pipelines", "active", "failed", "lost"}
         /\ x.attempt \in 0 .. Attempts
         /\ x.peer \in {"none", "open", "lost", "closed"}
         /\ x.complete \in BOOLEAN
BY Zenon DEF StreamState

\* A stream whose web socket was not opened takes the place of itself.
LEMMA StreamPut ==
  ASSUME NEW t, NEW cur, StreamsInv(t, cur), NEW s \in Slots, NEW x \in StreamState,
         x.ws = t[s].ws \/ x.ws \in {"closing", "closed"} \/ s = cur,
         x.pc = "setup" => x.attempt = 0
  PROVE  StreamsInv([t EXCEPT ![s] = x], cur)
<1> DEFINE n == [t EXCEPT ![s] = x]
<1>1. n \in [Slots -> StreamState] /\ n[s] = x /\ \A r \in Slots \ {s} : n[r] = t[r]
  BY DEF StreamsInv
<1> HIDE DEF n
<1>2. \A r \in Slots : n[r].pc = "setup" => n[r].attempt = 0
  BY <1>1 DEF StreamsInv
<1>3. \A r \in Slots \ {cur} : n[r].ws \in {"closing", "closed"}
  BY <1>1 DEF StreamsInv
<1>4. StreamsInv(n, cur)
  BY <1>1, <1>2, <1>3 DEF StreamsInv
<1> QED BY <1>4 DEF n

\* The records the handlers leave of a stream.
LEMMA StreamKinds ==
  ASSUME NEW x \in StreamState
  PROVE  /\ [x EXCEPT !.guard = FALSE] \in StreamState
         /\ [x EXCEPT !.guard = FALSE].ws = x.ws
         /\ [x EXCEPT !.guard = FALSE].pc = x.pc
         /\ [x EXCEPT !.guard = FALSE].attempt = x.attempt
BY Zenon DEF StreamState

\* A report changes the streams only by the guard timer of the present one.
LEMMA ReportKeeps ==
  ASSUME IInv, NEW q, NEW t, Follows(page, q), StreamsInv(t, page.cur), Report(q, t)
  PROVE  IInv'
<1>1. page' = q /\ PageInv(q) /\ q.cur = page.cur
  BY DEF Report, Follows
<1>2. autoRuns' \in 0 .. MaxAuto /\ autoRuns' <= q.used
  BY RecoveryAssumption DEF IInv, Report, Follows
<1>3. StreamsInv(st', q.cur)
  <2>1. CASE st' = t
    BY <2>1, <1>1
  <2>2. CASE /\ page.rec = "no" /\ q.rec = "stop"
             /\ st' = [t EXCEPT ![q.cur].guard = FALSE]
    <3> DEFINE c == q.cur
               x == [t[c] EXCEPT !.guard = FALSE]
    <3>1. c \in Slots
      BY <1>1, <2>2, PageFields DEF PageInv
    <3>2. t[c] \in StreamState /\ t \in [Slots -> StreamState]
      BY <3>1 DEF StreamsInv
    <3>3. st' = [t EXCEPT ![c] = x]
      BY <2>2, <3>1, <3>2
    <3>4. x \in StreamState /\ x.ws = t[c].ws /\ x.pc = t[c].pc /\ x.attempt = t[c].attempt
      BY <3>2, StreamKinds
    <3> HIDE DEF x
    <3>5. x.pc = "setup" => x.attempt = 0
      BY <3>1, <3>4 DEF StreamsInv
    <3>6. StreamsInv([t EXCEPT ![c] = x], page.cur)
      BY <3>1, <3>4, <3>5, StreamPut
    <3> QED BY <3>3, <3>6, <1>1
  <2> QED BY <2>1, <2>2 DEF Report
<1> QED BY <1>1, <1>2, <1>3 DEF IInv

LEMMA QuietKeeps ==
  ASSUME IInv, StreamsInv(st', page.cur), UNCHANGED <<page, autoRuns>>
  PROVE  IInv'
BY DEF IInv

-----------------------------------------------------------------------------
(* The steps of a stream *)

LEMMA SocketSteps ==
  ASSUME IInv, NEW s \in Slots, WsOpens(s) \/ WsCloses(s)
  PROVE  IInv'
<1>1. st \in [Slots -> StreamState] /\ st[s] \in StreamState
  BY DEF IInv, StreamsInv
<1>2. CASE WsOpens(s)
  <2> DEFINE x == [st[s] EXCEPT !.ws = "open"]
  <2>1. st' = [st EXCEPT ![s] = x] /\ s = page.cur
    BY <1>1, <1>2 DEF WsOpens, IInv, StreamsInv
  <2>2. x \in StreamState /\ x.pc = st[s].pc /\ x.attempt = st[s].attempt
    BY <1>1, Zenon DEF StreamState
  <2> HIDE DEF x
  <2>3. StreamsInv([st EXCEPT ![s] = x], page.cur)
    BY <1>1, <2>1, <2>2, StreamPut DEF IInv, StreamsInv
  <2> QED BY <2>1, <2>3, <1>2, QuietKeeps DEF WsOpens
<1>3. CASE WsCloses(s)
  <2> DEFINE x == [st[s] EXCEPT !.ws = "closed", !.guard = FALSE]
  <2>1. st' = [st EXCEPT ![s] = x]
    BY <1>1, <1>3 DEF WsCloses
  <2>2. x \in StreamState /\ x.ws = "closed" /\ x.pc = st[s].pc /\ x.attempt = st[s].attempt
    BY <1>1, Zenon DEF StreamState
  <2> HIDE DEF x
  <2>3. StreamsInv([st EXCEPT ![s] = x], page.cur)
    BY <1>1, <2>1, <2>2, StreamPut DEF IInv, StreamsInv
  <2> QED BY <2>1, <2>3, <1>3, QuietKeeps DEF WsCloses
<1> QED BY <1>2, <1>3

\* The coroutine at its next point, with or without another transport.
LEMMA PutStream ==
  ASSUME IInv, NEW s \in Slots, NEW x \in StreamState, x.ws = st[s].ws,
         x.pc # "setup" \/ (x.pc = st[s].pc /\ x.attempt = st[s].attempt)
  PROVE  StreamsInv([st EXCEPT ![s] = x], page.cur)
BY StreamPut DEF IInv, StreamsInv

LEMMA NextAttempt ==
  ASSUME IInv, NEW s \in Slots, st[s].attempt < Attempts, NEW t,
         \/ t = [st EXCEPT ![s].pc = "peer", ![s].attempt = @ + 1]
         \/ \E v \in {"lost", "closed"} :
              t = [st EXCEPT ![s].pc = "peer", ![s].attempt = @ + 1, ![s].peer = v]
  PROVE  StreamsInv(t, page.cur)
<1> DEFINE a == st[s].attempt + 1
<1>1. st \in [Slots -> StreamState] /\ st[s] \in StreamState
  BY DEF IInv, StreamsInv
<1>2. a \in 0 .. Attempts
  BY <1>1, StreamFields, AttemptsNat
<1>3. CASE t = [st EXCEPT ![s].pc = "peer", ![s].attempt = @ + 1]
  <2> DEFINE x == [st[s] EXCEPT !.pc = "peer", !.attempt = a]
  <2>1. t = [st EXCEPT ![s] = x]
    BY <1>1, <1>3
  <2>2. x \in StreamState /\ x.ws = st[s].ws /\ x.pc # "setup"
    <3> HIDE DEF a
    <3> QED BY <1>1, <1>2, Zenon DEF StreamState
  <2> HIDE DEF x
  <2> QED BY <2>1, <2>2, PutStream
<1>4. ASSUME NEW v \in {"lost", "closed"},
             t = [st EXCEPT ![s].pc = "peer", ![s].attempt = @ + 1, ![s].peer = v]
      PROVE  StreamsInv(t, page.cur)
  <2> DEFINE x == [st[s] EXCEPT !.pc = "peer", !.attempt = a, !.peer = v]
  <2>1. t = [st EXCEPT ![s] = x]
    BY <1>1, <1>4
  <2>2. x \in StreamState /\ x.ws = st[s].ws /\ x.pc # "setup"
    <3> HIDE DEF a
    <3> QED BY <1>1, <1>2, Zenon DEF StreamState
  <2> HIDE DEF x
  <2> QED BY <2>1, <2>2, PutStream
<1> QED BY <1>3, <1>4

LEMMA EndKeeps ==
  ASSUME IInv, NEW s \in Slots, NEW end \in {"failed", "lost"}, NEW v \in {"lost", "closed"},
         EndConnection(s, end, v)
  PROVE  IInv'
<1> DEFINE x == [st[s] EXCEPT !.pc = end, !.attempt = 0, !.peer = v]
           t == [st EXCEPT ![s].pc = end, ![s].attempt = 0, ![s].peer = v]
           p == IF st[s].complete THEN page ELSE OnStartupFailure(page)
           q == Log(p, end)
<1>1. st \in [Slots -> StreamState] /\ st[s] \in StreamState
  BY DEF IInv, StreamsInv
<1>2. t = [st EXCEPT ![s] = x]
  BY <1>1
<1>3. x \in StreamState /\ x.ws = st[s].ws /\ x.pc # "setup"
  <2>1. 0 \in 0 .. Attempts
    BY AttemptsNat
  <2>2. x \in StreamState
    BY <1>1, <2>1, Zenon DEF StreamState
  <2>3. x.ws = st[s].ws /\ x.pc = end
    BY <1>1, Zenon DEF StreamState
  <2> HIDE DEF x
  <2> QED BY <2>2, <2>3
<1>4. Report(q, t)
  BY DEF EndConnection
<1> HIDE DEF x, t
<1>5. StreamsInv(t, page.cur)
  BY <1>2, <1>3, PutStream
<1>6. Follows(page, p) /\ PageInv(p)
  BY StartupFailureFollows DEF IInv, Follows
<1> HIDE DEF p
<1>7. Follows(p, q)
  BY <1>6, LogFollows
<1> HIDE DEF q
<1>8. Follows(page, q)
  BY <1>6, <1>7, FollowsOn
<1> QED BY <1>4, <1>5, <1>8, ReportKeeps

LEMMA AttemptFailsKeeps ==
  ASSUME IInv, NEW s \in Slots, NEW v \in {"lost", "closed"}, AttemptFails(s, v)
  PROVE  IInv'
<1>1. CASE st[s].attempt < Attempts
  <2> DEFINE t == [st EXCEPT ![s].pc = "peer", ![s].attempt = @ + 1, ![s].peer = v]
             q == Log(page, "trying")
  <2>1. Report(q, t)
    BY <1>1 DEF AttemptFails
  <2>2. StreamsInv(t, page.cur)
    BY <1>1, NextAttempt
  <2>3. Follows(page, q)
    BY LogFollows DEF IInv
  <2> HIDE DEF t, q
  <2> QED BY <2>1, <2>2, <2>3, ReportKeeps
<1>2. CASE ~(st[s].attempt < Attempts)
  BY <1>2, EndKeeps DEF AttemptFails
<1> QED BY <1>1, <1>2

LEMMA NegotiationSteps ==
  ASSUME IInv, NEW s \in Slots,
         \/ ServerSetup(s) \/ PeerReady(s) \/ Connects(s) \/ NegotiationFails(s)
         \/ RouteReported(s) \/ NoPipeline(s)
  PROVE  IInv'
<1>1. st \in [Slots -> StreamState] /\ st[s] \in StreamState
  BY DEF IInv, StreamsInv
<1>2. CASE ServerSetup(s)
  <2> DEFINE t == [st EXCEPT ![s].pc = "peer", ![s].attempt = @ + 1]
             q == Log(page, "trying")
  <2>1. Report(q, t) /\ st[s].attempt = 0
    BY <1>2 DEF ServerSetup, BeginAttempt, IInv, StreamsInv
  <2>2. StreamsInv(t, page.cur)
    <3>1. st[s].attempt < Attempts
      BY <2>1, AttemptsNat
    <3> QED BY <3>1, NextAttempt
  <2>3. Follows(page, q)
    BY LogFollows DEF IInv
  <2> HIDE DEF t, q
  <2> QED BY <2>1, <2>2, <2>3, ReportKeeps
<1>3. CASE PeerReady(s)
  <2> DEFINE x == [st[s] EXCEPT !.pc = "negotiating", !.peer = "open"]
  <2>1. st' = [st EXCEPT ![s] = x]
    BY <1>1, <1>3 DEF PeerReady
  <2>2. x \in StreamState /\ x.ws = st[s].ws /\ x.pc # "setup"
    BY <1>1, Zenon DEF StreamState
  <2> HIDE DEF x
  <2> QED BY <2>1, <2>2, <1>3, PutStream, QuietKeeps DEF PeerReady
<1>4. CASE Connects(s)
  <2> DEFINE x == [st[s] EXCEPT !.pc = "pipelines"]
  <2>1. st' = [st EXCEPT ![s] = x]
    BY <1>1, <1>4 DEF Connects
  <2>2. x \in StreamState /\ x.ws = st[s].ws /\ x.pc # "setup"
    BY <1>1, Zenon DEF StreamState
  <2> HIDE DEF x
  <2> QED BY <2>1, <2>2, <1>4, PutStream, QuietKeeps DEF Connects
<1>5. CASE NegotiationFails(s)
  BY <1>5, AttemptFailsKeeps DEF NegotiationFails
<1>6. CASE RouteReported(s)
  <2>1. PICK line \in {"direct", "relayed"} : Report(Log(page, line), st)
    BY <1>6 DEF RouteReported
  <2>2. Follows(page, Log(page, line))
    BY LogFollows DEF IInv
  <2> QED BY <2>1, <2>2, ReportKeeps DEF IInv
<1>7. CASE NoPipeline(s)
  BY <1>7, AttemptFailsKeeps DEF NoPipeline
<1> QED BY <1>2, <1>3, <1>4, <1>5, <1>6, <1>7

\* StartStream is sent again or for the first time, and the guard is armed.
LEMMA StartSteps ==
  ASSUME IInv, (\E s \in Slots : PipelinesReady(s)) \/ RestartInPlace
  PROVE  IInv'
<1>1. ASSUME NEW s \in Slots, PipelinesReady(s)
      PROVE  IInv'
  <2> DEFINE x == [st[s] EXCEPT !.pc = "active", !.attempt = 0, !.complete = FALSE, !.guard = TRUE]
  <2>1. st \in [Slots -> StreamState] /\ st[s] \in StreamState
    BY DEF IInv, StreamsInv
  <2>2. st' = [st EXCEPT ![s] = x]
    BY <1>1, <2>1 DEF PipelinesReady, SendStartStream
  <2>3. x \in StreamState
    <3>1. 0 \in 0 .. Attempts
      BY AttemptsNat
    <3> QED BY <2>1, <3>1, Zenon DEF StreamState
  <2>4. x.ws = st[s].ws /\ x.pc # "setup"
    BY <2>1, Zenon DEF StreamState
  <2> HIDE DEF x
  <2> QED BY <2>2, <2>3, <2>4, <1>1, PutStream, QuietKeeps DEF PipelinesReady
<1>2. CASE RestartInPlace
  <2> DEFINE s == page.cur
             x == [st[s] EXCEPT !.complete = FALSE, !.guard = TRUE]
  <2>1. s \in Slots
    BY <1>2, PageFields DEF RestartInPlace, IInv, PageInv
  <2> HIDE DEF s
  <2>2. st \in [Slots -> StreamState] /\ st[s] \in StreamState
    BY <2>1 DEF IInv, StreamsInv
  <2>3. st' = [st EXCEPT ![s] = x]
    BY <1>2, <2>2 DEF RestartInPlace, SendStartStream, s
  <2>4. x \in StreamState
    BY <2>2, Zenon DEF StreamState
  <2>5. x.ws = st[s].ws /\ x.pc = st[s].pc /\ x.attempt = st[s].attempt
    BY <2>2, Zenon DEF StreamState
  <2> HIDE DEF x
  <2> QED BY <2>1, <2>3, <2>4, <2>5, <1>2, PutStream, QuietKeeps DEF RestartInPlace
<1> QED BY <1>1, <1>2

\* The transport is lost, or the host answers.
LEMMA StreamingSteps ==
  ASSUME IInv, NEW s \in Slots,
         TransportLost(s) \/ ServerCompletes(s) \/ VideoSetupDone(s) \/ GuardFires(s)
  PROVE  IInv'
<1>1. st \in [Slots -> StreamState] /\ st[s] \in StreamState
  BY DEF IInv, StreamsInv
<1>2. CASE TransportLost(s)
  <2>1. CASE st' = [st EXCEPT ![s].peer = "lost"] /\ UNCHANGED <<page, autoRuns>>
    <3> DEFINE x == [st[s] EXCEPT !.peer = "lost"]
    <3>1. st' = [st EXCEPT ![s] = x]
      BY <1>1, <2>1
    <3>2. x \in StreamState /\ x.ws = st[s].ws /\ x.pc = st[s].pc /\ x.attempt = st[s].attempt
      BY <1>1, Zenon DEF StreamState
    <3> HIDE DEF x
    <3> QED BY <2>1, <3>1, <3>2, PutStream, QuietKeeps
  <2> QED BY <1>2, <2>1, EndKeeps DEF TransportLost
<1>3. CASE ServerCompletes(s)
  <2> DEFINE x == [st[s] EXCEPT !.complete = TRUE, !.guard = FALSE, !.event = TRUE]
  <2>1. st' = [st EXCEPT ![s] = x]
    BY <1>1, <1>3 DEF ServerCompletes
  <2>2. x \in StreamState
    BY <1>1, Zenon DEF StreamState
  <2>3. x.ws = st[s].ws /\ x.pc = st[s].pc /\ x.attempt = st[s].attempt
    BY <1>1, Zenon DEF StreamState
  <2> HIDE DEF x
  <2> QED BY <2>1, <2>2, <2>3, <1>3, PutStream, QuietKeeps DEF ServerCompletes
<1>4. CASE VideoSetupDone(s)
  <2> DEFINE x == [st[s] EXCEPT !.event = FALSE]
             t == [st EXCEPT ![s].event = FALSE]
             q == OnConnectionComplete(page)
  <2>1. t = [st EXCEPT ![s] = x] /\ Report(q, t)
    BY <1>1, <1>4 DEF VideoSetupDone
  <2>2. x \in StreamState /\ x.ws = st[s].ws /\ x.pc = st[s].pc /\ x.attempt = st[s].attempt
    BY <1>1, Zenon DEF StreamState
  <2>3. Follows(page, q)
    BY CompletionFollows DEF IInv
  <2> HIDE DEF x, t, q
  <2>4. StreamsInv(t, page.cur)
    BY <2>1, <2>2, PutStream
  <2> QED BY <2>1, <2>3, <2>4, ReportKeeps
<1>5. CASE GuardFires(s)
  <2> DEFINE x == [st[s] EXCEPT !.guard = FALSE]
             t == [st EXCEPT ![s].guard = FALSE]
             q == IF st[s].complete THEN page ELSE OnStartupFailure(page)
  <2>1. t = [st EXCEPT ![s] = x] /\ Report(q, t)
    BY <1>1, <1>5 DEF GuardFires
  <2>2. x \in StreamState /\ x.ws = st[s].ws /\ x.pc = st[s].pc /\ x.attempt = st[s].attempt
    BY <1>1, StreamKinds
  <2>3. Follows(page, q)
    BY StartupFailureFollows DEF IInv, Follows
  <2> HIDE DEF x, t, q
  <2>4. StreamsInv(t, page.cur)
    BY <2>1, <2>2, PutStream
  <2> QED BY <2>1, <2>3, <2>4, ReportKeeps
<1> QED BY <1>2, <1>3, <1>4, <1>5

-----------------------------------------------------------------------------
(* The steps of the page *)

LEMMA ReconnectFollows ==
  ASSUME NEW p, PageInv(p), p.rec = "no"
  PROVE  Follows(p, Reconnect(p))
<1> DEFINE q == [p EXCEPT !.rec = "stop"]
<1>1. p \in Page
  BY DEF PageInv
<1>2. q \in Page /\ q.cur = p.cur /\ q.rec = "stop" /\ q.used = p.used /\ q.auto = p.auto
  BY <1>1, Zenon DEF Page
<1>3. Reconnect(p) = q
  BY DEF Reconnect
<1> HIDE DEF q
<1> QED BY <1>2, <1>3 DEF Follows, PageInv

LEMMA PageReconnectsKeeps ==
  ASSUME IInv, PageReconnects
  PROVE  IInv'
<1>1. PICK p \in {page, SetRoute(page, "negotiating")} : Report(Reconnect(p), st)
  BY DEF PageReconnects
<1>2. Follows(page, p) /\ PageInv(p) /\ p.rec = "no"
  BY SetRouteFollows DEF PageReconnects, IInv, Follows, Routes
<1>3. Follows(p, Reconnect(p))
  BY <1>2, ReconnectFollows
<1>4. Follows(page, Reconnect(p))
  BY <1>2, <1>3, FollowsOn
<1> QED BY <1>1, <1>4, ReportKeeps DEF IInv

\* The timer spends the attempt it captured, which is the next of the storage.
LEMMA AutoTimerKeeps ==
  ASSUME IInv, AutoTimerFires
  PROVE  IInv'
<1>1. page \in Page /\ PageInv(page)
  BY DEF IInv, PageInv
<1>2. CASE /\ page' = [page EXCEPT !.auto = Off]
           /\ UNCHANGED <<st, autoRuns>>
  <2>1. Off \in Off .. MaxAuto - 1
    BY RecoveryAssumption DEF Off
  <2>2. /\ page' \in Page /\ page'.cur = page.cur /\ page'.rec = page.rec
        /\ page'.used = page.used /\ page'.auto = Off
    BY <1>1, <1>2, <2>1, Zenon DEF Page
  <2>3. PageInv(page')
    BY <2>2, <1>1 DEF PageInv
  <2> QED BY <1>2, <2>2, <2>3 DEF IInv
<1>3. CASE /\ page.rec = "no" /\ page.cur # NoStream
           /\ page' = Reconnect(SetRoute([page EXCEPT !.used = page.auto + 1,
                                                      !.auto = Off], "negotiating"))
           /\ st' = [st EXCEPT ![page.cur].guard = FALSE]
           /\ autoRuns' = autoRuns + 1
  <2> DEFINE u == page.auto + 1
             p == [page EXCEPT !.used = u, !.auto = Off]
             q == SetRoute(p, "negotiating")
             s == page.cur
             x == [st[s] EXCEPT !.guard = FALSE]
  <2>1. /\ u \in 0 .. MaxAuto /\ Off \in Off .. MaxAuto - 1
        /\ page.auto = page.used /\ u = page.used + 1
    <3>1. page.auto # Off /\ page.auto \in Off .. MaxAuto - 1 /\ page.used \in 0 .. MaxAuto
      BY <1>1, PageFields DEF AutoTimerFires
    <3> QED BY <3>1, <1>1, RecoveryAssumption DEF PageInv, Off
  <2>2. p \in Page /\ p.cur = page.cur /\ p.rec = "no" /\ p.used = u /\ p.auto = Off
    <3>1. p \in Page /\ p.cur = page.cur
      <4> HIDE DEF u
      <4> QED BY <1>1, <2>1, Zenon DEF Page
    <3>2. p.rec = "no" /\ p.used = u /\ p.auto = Off
      <4> HIDE DEF u
      <4> QED BY <1>1, <1>3, Zenon DEF Page
    <3> QED BY <3>1, <3>2
  <2>3. page' = Reconnect(q)
    BY <1>3
  <2> HIDE DEF p
  <2>4. PageInv(p)
    BY <2>2, <1>1, <1>3 DEF PageInv
  <2>5. q.used = p.used
    <3> DEFINE y == [p EXCEPT !.route = "negotiating",
                              !.wasDirect = p.wasDirect \/ "negotiating" = "direct",
                              !.used = p.used, !.auto = Off]
    <3>1. q = y
      BY <2>2 DEF SetRoute
    <3>2. y.used = p.used
      BY <2>2, Zenon DEF Page
    <3> QED BY <3>1, <3>2
  <2>6. Follows(p, q) /\ q.rec = "no" /\ q.used = p.used
    BY <2>2, <2>4, <2>5, SetRouteFollows DEF Routes
  <2> HIDE DEF q
  <2>7. PageInv(q)
    BY <2>6 DEF Follows
  <2>8. Reconnect(q) = [q EXCEPT !.rec = "stop"] /\ q \in Page
    BY <2>6, <2>7 DEF Reconnect, PageInv
  <2>9. Reconnect(q).used = q.used /\ Reconnect(q).cur = q.cur
    BY <2>8, Zenon DEF Page
  <2>10. PageInv(page') /\ page'.cur = page.cur /\ page'.used = u
    BY <2>2, <2>3, <2>6, <2>7, <2>9, ReconnectFollows DEF Follows
  <2>11. s \in Slots
    BY <1>1, <1>3, PageFields
  <2> HIDE DEF s
  <2>12. st[s] \in StreamState /\ st \in [Slots -> StreamState]
    BY <2>11 DEF IInv, StreamsInv
  <2>13. st' = [st EXCEPT ![s] = x]
    BY <1>3, <2>12 DEF s
  <2>14. x \in StreamState /\ x.ws = st[s].ws /\ x.pc = st[s].pc /\ x.attempt = st[s].attempt
    BY <2>12, StreamKinds
  <2> HIDE DEF x
  <2>15. StreamsInv(st', page.cur)
    BY <2>11, <2>13, <2>14, PutStream
  <2>16. autoRuns' \in 0 .. MaxAuto /\ autoRuns' <= page'.used
    <3>1. /\ autoRuns \in 0 .. MaxAuto /\ page.used \in 0 .. MaxAuto
          /\ autoRuns <= page.used /\ page.used + 1 <= MaxAuto
          /\ page'.used = page.used + 1 /\ autoRuns' = autoRuns + 1
      BY <1>1, <1>3, <2>1, <2>10, PageFields DEF IInv
    <3> QED BY <3>1, RecoveryAssumption
  <2>17. StreamsInv(st', page'.cur)
    BY <2>10, <2>15
  <2> HIDE DEF u
  <2> QED BY <2>10, <2>16, <2>17 DEF IInv
<1> QED BY <1>2, <1>3 DEF AutoTimerFires

LEMMA WindowKeeps ==
  ASSUME IInv, WindowExpires
  PROVE  IInv'
<1> DEFINE a == IF page.auto = Off THEN Off ELSE 0
<1>1. page \in Page
  BY DEF IInv, PageInv
<1>2. a \in Off .. MaxAuto - 1 /\ 0 \in 0 .. MaxAuto /\ (a # Off => a = 0)
  BY RecoveryAssumption DEF Off
<1>3. page' = [page EXCEPT !.used = 0, !.auto = a]
  BY DEF WindowExpires
<1> HIDE DEF a
<1>4. /\ page' \in Page /\ page'.cur = page.cur /\ page'.rec = page.rec
  BY <1>1, <1>2, <1>3, Zenon DEF Page
<1>5. page'.used = 0 /\ page'.auto = a
  BY <1>1, <1>3, Zenon DEF Page
<1>6. PageInv(page')
  BY <1>2, <1>4, <1>5 DEF IInv, PageInv
<1> QED BY <1>4, <1>5, <1>6, RecoveryAssumption DEF WindowExpires, IInv

\* reconnectStream goes on: the present stream is closed, its web socket after
\* it, and then there is none until the next one is made.
LEMMA RecoveryKeeps ==
  ASSUME IInv, RecoveryStep
  PROVE  IInv'
<1> DEFINE s == page.cur
<1>1. page \in Page /\ st \in [Slots -> StreamState]
  BY DEF IInv, PageInv, StreamsInv
<1>2. ASSUME page.rec \in {"stop", "close"}
      PROVE  s \in Slots /\ st[s] \in StreamState
  BY <1>1, <1>2, PageFields DEF IInv, PageInv
<1>3. CASE RecoveryCloses
  <2> DEFINE v == IF st[s].peer = "none" THEN st[s].peer ELSE "closed"
             x == [st[s] EXCEPT !.guard = FALSE, !.closing = TRUE, !.peer = v]
  <2>1. s \in Slots /\ st[s] \in StreamState
    BY <1>2, <1>3 DEF RecoveryCloses
  <2>2. st' = [st EXCEPT ![s] = x]
    BY <1>1, <1>3, <2>1 DEF RecoveryCloses
  <2>3. v \in {"none", "open", "lost", "closed"}
    BY <2>1, StreamFields
  <2>4. x \in StreamState
    <3> HIDE DEF v, s
    <3> QED BY <2>1, <2>3, Zenon DEF StreamState
  <2>5. x.ws = st[s].ws /\ x.pc = st[s].pc /\ x.attempt = st[s].attempt
    <3> HIDE DEF v, s
    <3> QED BY <2>1, Zenon DEF StreamState
  <2> HIDE DEF x
  <2>6. StreamsInv(st', page.cur)
    BY <2>1, <2>2, <2>4, <2>5, PutStream
  <2>7. /\ page' \in Page /\ page'.cur = page.cur /\ page'.rec = "close"
        /\ page'.used = page.used /\ page'.auto = page.auto
    <3>1. page' = [page EXCEPT !.rec = "close"]
      BY <1>3 DEF RecoveryCloses
    <3> QED BY <1>1, <3>1, Zenon DEF Page
  <2>8. PageInv(page')
    BY <2>7, <1>3 DEF IInv, PageInv, RecoveryCloses
  <2>9. StreamsInv(st', page'.cur)
    BY <2>6, <2>7
  <2> QED BY <1>3, <2>7, <2>8, <2>9 DEF IInv, RecoveryCloses
<1>4. CASE RecoveryClosesWs
  <2> DEFINE w == IF st[s].ws = "closed" THEN st[s].ws ELSE "closing"
             x == [st[s] EXCEPT !.ws = w]
  <2>1. s \in Slots /\ st[s] \in StreamState
    BY <1>2, <1>4 DEF RecoveryClosesWs
  <2>2. st' = [st EXCEPT ![s] = x]
    BY <1>1, <1>4, <2>1 DEF RecoveryClosesWs
  <2>3. w \in {"closing", "closed"}
    OBVIOUS
  <2>4. x \in StreamState /\ x.ws = w /\ x.pc = st[s].pc /\ x.attempt = st[s].attempt
    <3> HIDE DEF w, s
    <3> QED BY <2>1, <2>3, Zenon DEF StreamState
  <2> HIDE DEF w, x
  <2>5. StreamsInv(st', s) /\ st'[s].ws \in {"closing", "closed"}
    <3>1. StreamsInv([st EXCEPT ![s] = x], s)
      BY <2>1, <2>3, <2>4, StreamPut DEF IInv, StreamsInv
    <3> QED BY <1>1, <2>1, <2>2, <2>3, <2>4, <3>1
  <2>6. StreamsInv(st', NoStream)
    BY <2>5 DEF StreamsInv
  <2>7. /\ page' \in Page /\ page'.cur = NoStream /\ page'.rec = "start"
        /\ page'.used = page.used /\ page'.auto = page.auto
    <3>1. page' = [page EXCEPT !.rec = "start", !.cur = NoStream]
      BY <1>4 DEF RecoveryClosesWs
    <3>2. page' \in Page
      BY <1>1, <3>1, Zenon DEF Page
    <3>3. page'.cur = NoStream /\ page'.rec = "start"
      BY <1>1, <3>1, Zenon DEF Page
    <3>4. page'.used = page.used /\ page'.auto = page.auto
      BY <1>1, <3>1, Zenon DEF Page
    <3> QED BY <3>2, <3>3, <3>4
  <2>8. PageInv(page')
    BY <2>7 DEF IInv, PageInv
  <2>9. StreamsInv(st', page'.cur)
    BY <2>6, <2>7
  <2> QED BY <1>4, <2>7, <2>8, <2>9 DEF IInv, RecoveryClosesWs
<1>5. CASE RecoveryStarts
  <2>1. PICK n \in Slots :
          /\ page' = [SetRoute(page, "negotiating") EXCEPT !.rec = "no", !.cur = n]
          /\ st' = [st EXCEPT ![n] = NewStream]
    BY <1>5 DEF RecoveryStarts
  <2> DEFINE q == SetRoute(page, "negotiating")
  <2>2. Follows(page, q) /\ q.rec = "start"
    BY <1>5, SetRouteFollows DEF IInv, RecoveryStarts, Routes
  <2>3. q.used = page.used
    <3> DEFINE y == [page EXCEPT !.route = "negotiating",
                                 !.wasDirect = page.wasDirect \/ "negotiating" = "direct",
                                 !.used = page.used, !.auto = Off]
    <3>1. q = y
      BY <1>1 DEF SetRoute
    <3>2. y.used = page.used
      BY <1>1, Zenon DEF Page
    <3> QED BY <3>1, <3>2
  <2>4. page' = [q EXCEPT !.rec = "no", !.cur = n] /\ q \in Page
    BY <2>1, <2>2 DEF Follows, PageInv
  <2> HIDE DEF q
  <2>5. page' \in Page
    BY <2>4, Zenon DEF Page
  <2>6. page'.cur = n /\ page'.rec = "no"
    BY <2>4, Zenon DEF Page
  <2>7. page'.used = q.used /\ page'.auto = q.auto
    BY <2>4, Zenon DEF Page
  <2>8. PageInv(page')
    BY <2>2, <2>5, <2>6, <2>7, RecoveryAssumption DEF Follows, PageInv
  <2>9. NewStream \in StreamState /\ NewStream.pc = "setup" /\ NewStream.attempt = 0
    <3>1. 0 \in 0 .. Attempts
      BY AttemptsNat
    <3> QED BY <3>1, Zenon DEF NewStream, StreamState
  <2>10. page.cur = NoStream /\ NoStream \notin Slots
    BY <1>5, RecoveryAssumption DEF RecoveryStarts, IInv, PageInv
  <2>11. StreamsInv(st, n)
    BY <2>10 DEF IInv, StreamsInv
  <2>12. StreamsInv(st', n)
    BY <2>1, <2>9, <2>11, StreamPut
  <2>13. StreamsInv(st', page'.cur)
    BY <2>6, <2>12
  <2> QED BY <1>5, <2>3, <2>7, <2>8, <2>13 DEF IInv, RecoveryStarts
<1> QED BY <1>3, <1>4, <1>5 DEF RecoveryStep

-----------------------------------------------------------------------------
(* The theorems *)

LEMMA InitIInv == RecoveryInit => IInv
<1> SUFFICES ASSUME RecoveryInit PROVE IInv
  OBVIOUS
<1>1. PICK s \in Slots :
        /\ page = [cur |-> s, rec |-> "no", route |-> "negotiating", wasDirect |-> FALSE,
                   startup |-> 0, auto |-> Off, used |-> 0]
        /\ st = [x \in Slots |-> IF x = s THEN NewStream ELSE Gone]
  BY DEF RecoveryInit
<1>2. NewStream \in StreamState /\ NewStream.pc = "setup" /\ NewStream.attempt = 0
  <2>1. 0 \in 0 .. Attempts
    BY AttemptsNat
  <2> QED BY <2>1, Zenon DEF NewStream, StreamState
<1>3. Gone \in StreamState /\ Gone.pc = "failed" /\ Gone.ws = "closed"
  <2>1. Gone = [NewStream EXCEPT !.ws = "closed", !.pc = "failed", !.closing = TRUE]
    BY DEF Gone
  <2>2. Gone \in StreamState
    BY <1>2, <2>1, Zenon DEF StreamState
  <2>3. Gone.pc = "failed" /\ Gone.ws = "closed"
    BY <1>2, <2>1, Zenon DEF StreamState
  <2> QED BY <2>2, <2>3
<1>4. StreamsInv(st, page.cur)
  BY <1>1, <1>2, <1>3 DEF StreamsInv
<1>5. PageInv(page)
  <2>1. 0 \in 0 .. MaxStartup /\ Off \in Off .. MaxAuto - 1 /\ 0 \in 0 .. MaxAuto
    BY RecoveryAssumption DEF Off
  <2>2. page \in Page
    BY <1>1, <2>1, Zenon DEF Page, Routes
  <2> QED BY <1>1, <2>2, RecoveryAssumption DEF PageInv
<1> QED BY <1>1, <1>4, <1>5, RecoveryAssumption DEF RecoveryInit, IInv

LEMMA NextIInv == IInv /\ [RecoveryNext]_recoveryVars => IInv'
<1> SUFFICES ASSUME IInv, [RecoveryNext]_recoveryVars PROVE IInv'
  OBVIOUS
<1>1. ASSUME NEW s \in Slots, StreamStep(s) PROVE IInv'
  BY <1>1, SocketSteps, NegotiationSteps, StartSteps, StreamingSteps DEF StreamStep
<1>2. CASE RestartInPlace
  BY <1>2, StartSteps
<1>3. CASE PageReconnects
  BY <1>3, PageReconnectsKeeps
<1>4. CASE AutoTimerFires
  BY <1>4, AutoTimerKeeps
<1>5. CASE WindowExpires
  BY <1>5, WindowKeeps
<1>6. CASE RecoveryStep
  BY <1>6, RecoveryKeeps
<1>7. CASE UNCHANGED recoveryVars
  BY <1>7 DEF recoveryVars, IInv
<1> QED BY <1>1, <1>2, <1>3, <1>4, <1>5, <1>6, <1>7 DEF RecoveryNext

LEMMA Invariance == RecoverySpec => []IInv
BY InitIInv, NextIInv, PTL DEF RecoverySpec

\* The page and its streams keep their types.
THEOREM TypeCorrect == RecoverySpec => []RecoveryTypeOK
<1>1. IInv => RecoveryTypeOK
  BY DEF IInv, PageInv, StreamsInv, RecoveryTypeOK
<1> QED BY Invariance, <1>1, PTL

\* However many streams were replaced, and whatever they still do, only the
\* page's present one has a web socket that is open or opening.
THEOREM OneOnTheWire == RecoverySpec => []OneLiveStream
<1>1. IInv => OneLiveStream
  BY DEF IInv, StreamsInv, OneLiveStream
<1> QED BY Invariance, <1>1, PTL

\* Automatic reconnects stay within the budget and within what the storage
\* says was spent.
THEOREM BudgetHolds == RecoverySpec => []AutoReconnectBudget
<1>1. IInv => AutoReconnectBudget
  BY RecoveryAssumption DEF IInv, AutoReconnectBudget
<1> QED BY Invariance, <1>1, PTL
-----------------------------------------------------------------------------
(* The guard of a stream that was asked to start *)

\* What ends the wait for ConnectionComplete of the present stream s.
WaitGoesOn(s) ==
  \/ st'[s].guard \/ st'[s].complete \/ st'[s].ws = "closed"
  \/ page'.rec # "no" \/ page'.startup = MaxStartup

\* Whoever reports, the guard stays unless the page starts to reconnect.
LEMMA ReportGuards ==
  ASSUME NEW q, NEW t, Report(q, t), NEW s \in Slots, t[s].guard
  PROVE  WaitGoesOn(s)
<1>1. CASE page.rec = "no" /\ q.rec = "stop"
  BY <1>1 DEF Report, WaitGoesOn
<1>2. CASE ~(page.rec = "no" /\ q.rec = "stop")
  BY <1>2 DEF Report, WaitGoesOn
<1> QED BY <1>1, <1>2

LEMMA RetryGuards ==
  ASSUME IInv, NEW r \in Slots, NEW s \in Slots, st[s].guard,
         \/ \E v \in {"lost", "closed"} : AttemptFails(r, v)
         \/ \E end \in {"failed", "lost"}, v \in {"lost", "closed"} : EndConnection(r, end, v)
         \/ BeginAttempt(r)
  PROVE  WaitGoesOn(s)
<1>1. st \in [Slots -> StreamState] /\ st[r] \in StreamState /\ DOMAIN st = Slots
  BY DEF IInv, StreamsInv
<1>2. \A end \in {"failed", "lost"}, v \in {"lost", "closed"} :
        [st EXCEPT ![r].pc = end, ![r].attempt = 0, ![r].peer = v][s].guard
  <2> SUFFICES ASSUME NEW end \in {"failed", "lost"}, NEW v \in {"lost", "closed"}
               PROVE  [st EXCEPT ![r].pc = end, ![r].attempt = 0, ![r].peer = v][s].guard
    OBVIOUS
  <2>1. [st[r] EXCEPT !.pc = end, !.attempt = 0, !.peer = v].guard = st[r].guard
    BY <1>1 DEF StreamState
  <2> QED BY <1>1, <2>1
<1>3. \A v \in {"lost", "closed"} :
        /\ [st EXCEPT ![r].pc = "peer", ![r].attempt = @ + 1, ![r].peer = v][s].guard
        /\ [st EXCEPT ![r].pc = "peer", ![r].attempt = @ + 1][s].guard
  <2> SUFFICES ASSUME NEW v \in {"lost", "closed"}
               PROVE  /\ [st EXCEPT ![r].pc = "peer", ![r].attempt = @ + 1, ![r].peer = v][s].guard
                      /\ [st EXCEPT ![r].pc = "peer", ![r].attempt = @ + 1][s].guard
    OBVIOUS
  <2>1. /\ [st[r] EXCEPT !.pc = "peer", !.attempt = @ + 1, !.peer = v].guard = st[r].guard
        /\ [st[r] EXCEPT !.pc = "peer", !.attempt = @ + 1].guard = st[r].guard
    BY <1>1 DEF StreamState
  <2> QED BY <1>1, <2>1
<1>4. ASSUME NEW end \in {"failed", "lost"}, NEW v \in {"lost", "closed"}, EndConnection(r, end, v)
      PROVE  WaitGoesOn(s)
  <2> DEFINE q == Log(IF st[r].complete THEN page ELSE OnStartupFailure(page), end)
             t == [st EXCEPT ![r].pc = end, ![r].attempt = 0, ![r].peer = v]
  <2>1. Report(q, t) /\ t[s].guard
    BY <1>2, <1>4 DEF EndConnection
  <2> HIDE DEF q, t
  <2> QED BY <2>1, ReportGuards
<1>5. ASSUME NEW t, t[s].guard, Report(Log(page, "trying"), t) PROVE WaitGoesOn(s)
  BY <1>5, ReportGuards
<1>6. ASSUME NEW v \in {"lost", "closed"}, AttemptFails(r, v) PROVE WaitGoesOn(s)
  BY <1>3, <1>4, <1>5, <1>6 DEF AttemptFails
<1>7. CASE BeginAttempt(r)
  BY <1>3, <1>5, <1>7 DEF BeginAttempt
<1> QED BY <1>4, <1>6, <1>7

LEMMA StreamGuards ==
  ASSUME IInv, NEW r \in Slots, StreamStep(r), NEW s \in Slots, page.cur = s, st[s].guard
  PROVE  WaitGoesOn(s)
<1>1. st \in [Slots -> StreamState] /\ st[r] \in StreamState /\ DOMAIN st = Slots
      /\ st[s] \in StreamState
  BY DEF IInv, StreamsInv
<1>2. CASE WsOpens(r) \/ PeerReady(r) \/ Connects(r)
  <2>1. PICK x \in {[st[r] EXCEPT !.ws = "open"], [st[r] EXCEPT !.pc = "pipelines"],
                    [st[r] EXCEPT !.pc = "negotiating", !.peer = "open"]} :
          st' = [st EXCEPT ![r] = x]
    BY <1>1, <1>2 DEF WsOpens, PeerReady, Connects
  <2>2. x.guard = st[r].guard
    BY <1>1, <2>1, Zenon DEF StreamState
  <2>3. st'[s].guard
    BY <1>1, <2>1, <2>2
  <2> QED BY <2>3 DEF WaitGoesOn
<1>3. CASE WsCloses(r)
  <2>1. CASE r = s
    <3>1. st'[s].ws = "closed"
      BY <1>1, <1>3, <2>1 DEF WsCloses, StreamState
    <3> QED BY <3>1 DEF WaitGoesOn
  <2>2. CASE r # s
    BY <1>1, <1>3, <2>2 DEF WsCloses, WaitGoesOn
  <2> QED BY <2>1, <2>2
<1>4. CASE ServerSetup(r) \/ NegotiationFails(r) \/ NoPipeline(r)
  BY <1>4, RetryGuards DEF ServerSetup, NegotiationFails, NoPipeline
<1>5. CASE RouteReported(r)
  BY <1>5, ReportGuards DEF RouteReported
<1>6. CASE PipelinesReady(r)
  <2>1. st'[s].guard
    BY <1>1, <1>6 DEF PipelinesReady, SendStartStream, StreamState
  <2> QED BY <2>1 DEF WaitGoesOn
<1>7. CASE TransportLost(r)
  <2>1. CASE st' = [st EXCEPT ![r].peer = "lost"]
    <3>1. st'[s].guard = st[s].guard
      BY <1>1, <2>1 DEF StreamState
    <3> QED BY <3>1 DEF WaitGoesOn
  <2> QED BY <1>7, <2>1, RetryGuards DEF TransportLost
<1>8. CASE ServerCompletes(r)
  <2>1. CASE r = s
    <3>1. st'[s].complete
      BY <1>1, <1>8, <2>1 DEF ServerCompletes, StreamState
    <3> QED BY <3>1 DEF WaitGoesOn
  <2>2. CASE r # s
    BY <1>1, <1>8, <2>2 DEF ServerCompletes, WaitGoesOn
  <2> QED BY <2>1, <2>2
<1>9. CASE VideoSetupDone(r)
  <2> DEFINE t == [st EXCEPT ![r].event = FALSE]
  <2>1. t[s].guard
    BY <1>1 DEF StreamState
  <2>2. Report(OnConnectionComplete(page), t)
    BY <1>9 DEF VideoSetupDone
  <2> HIDE DEF t
  <2> QED BY <2>1, <2>2, ReportGuards
<1>10. CASE GuardFires(r)
  <2> DEFINE t == [st EXCEPT ![r].guard = FALSE]
             q == IF st[r].complete THEN page ELSE OnStartupFailure(page)
  <2>1. Report(q, t)
    BY <1>10 DEF GuardFires
  <2>2. CASE r # s
    <3>1. t[s].guard
      BY <1>1, <2>2
    <3> HIDE DEF t, q
    <3> QED BY <2>1, <3>1, ReportGuards
  <2>3. CASE r = s /\ st[s].complete
    <3>1. q = page /\ t[s].complete
      BY <1>1, <2>3 DEF StreamState
    <3> HIDE DEF t, q
    <3>2. st' = t
      BY <2>1, <3>1 DEF Report
    <3> QED BY <3>1, <3>2 DEF WaitGoesOn
  <2>4. CASE r = s /\ ~st[s].complete
    <3>1. page' = OnStartupFailure(page) /\ PageInv(page) /\ page.cur # NoStream
      BY <2>1, <2>4, RecoveryAssumption DEF Report, IInv
    <3>2. CASE page.rec # "no" \/ page.startup >= MaxStartup
      <4>1. page' = page /\ page.startup \in 0 .. MaxStartup /\ MaxStartup \in Nat
        BY <3>1, <3>2, PageFields, RecoveryAssumption DEF OnStartupFailure, PageInv
      <4> QED BY <3>2, <4>1 DEF WaitGoesOn
    <3>3. CASE page.rec = "no" /\ ~(page.startup >= MaxStartup)
      <4> DEFINE p == [page EXCEPT !.startup = @ + 1]
                 y == SetRoute(p, "negotiating")
      <4>1. page' = Reconnect(y)
        BY <3>1, <3>3 DEF OnStartupFailure
      <4>2. page.startup + 1 \in 0 .. MaxStartup
        BY <3>1, <3>3, PageFields, RecoveryAssumption DEF PageInv
      <4>3. PageInv(p) /\ p.rec = "no"
        BY <3>1, <3>3, <4>2, PutStartup DEF PageInv
      <4> HIDE DEF p
      <4>4. y \in Page /\ y.rec = "no"
        BY <4>3, SetRouteFollows DEF Follows, PageInv, Routes
      <4> HIDE DEF y
      <4>5. page' = [y EXCEPT !.rec = "stop"]
        BY <4>1, <4>4 DEF Reconnect
      <4>6. page'.rec = "stop"
        BY <4>4, <4>5 DEF Page
      <4> QED BY <4>6 DEF WaitGoesOn
    <3> QED BY <3>2, <3>3
  <2> QED BY <2>2, <2>3, <2>4
<1> QED BY <1>2, <1>3, <1>4, <1>5, <1>6, <1>7, <1>8, <1>9, <1>10 DEF StreamStep

LEMMA PageGuards ==
  ASSUME IInv, NEW s \in Slots, page.cur = s, st[s].guard,
         RestartInPlace \/ PageReconnects \/ AutoTimerFires \/ WindowExpires \/ RecoveryStep
  PROVE  WaitGoesOn(s)
<1>1. st \in [Slots -> StreamState] /\ page \in Page /\ DOMAIN st = Slots /\ st[s] \in StreamState
  BY DEF IInv, StreamsInv, PageInv
<1>2. CASE RestartInPlace
  <2>1. st'[s].guard
    BY <1>1, <1>2 DEF RestartInPlace, SendStartStream, StreamState
  <2> QED BY <2>1 DEF WaitGoesOn
<1>3. CASE PageReconnects
  BY <1>3, ReportGuards DEF PageReconnects
<1>4. CASE AutoTimerFires
  <2>1. CASE UNCHANGED st
    BY <2>1 DEF WaitGoesOn
  <2>2. CASE /\ page.rec = "no"
             /\ page' = Reconnect(SetRoute([page EXCEPT !.used = page.auto + 1,
                                                        !.auto = Off], "negotiating"))
    <3> DEFINE p == [page EXCEPT !.used = page.auto + 1, !.auto = Off]
               y == SetRoute(p, "negotiating")
    <3>1. /\ page.auto + 1 \in 0 .. MaxAuto /\ Off \in Off .. MaxAuto - 1
      <4>1. page.auto # Off /\ page.auto \in Off .. MaxAuto - 1
        BY <1>1, <1>4, PageFields DEF AutoTimerFires
      <4> QED BY <4>1, RecoveryAssumption DEF Off
    <3>2. p \in Page /\ p.rec = "no" /\ p.cur = s /\ p.auto = Off
      BY <1>1, <2>2, <3>1, Zenon DEF Page
    <3>3. PageInv(p)
      BY <3>2, RecoveryAssumption DEF PageInv
    <3> HIDE DEF p
    <3>4. y \in Page /\ y.rec = "no"
      BY <3>2, <3>3, SetRouteFollows DEF Follows, PageInv, Routes
    <3>5. page' = Reconnect(y)
      BY <2>2 DEF p
    <3> HIDE DEF y
    <3>6. page' = [y EXCEPT !.rec = "stop"]
      BY <3>4, <3>5 DEF Reconnect
    <3>7. page'.rec = "stop"
      BY <3>4, <3>6 DEF Page
    <3> QED BY <3>7 DEF WaitGoesOn
  <2> QED BY <1>4, <2>1, <2>2 DEF AutoTimerFires
<1>5. CASE WindowExpires
  BY <1>5 DEF WindowExpires, WaitGoesOn
<1>6. CASE RecoveryCloses \/ RecoveryClosesWs
  <2>1. page'.rec \in {"close", "start"}
    BY <1>1, <1>6 DEF RecoveryCloses, RecoveryClosesWs, Page
  <2> QED BY <2>1 DEF WaitGoesOn
<1>7. CASE RecoveryStarts
  BY <1>7, RecoveryAssumption DEF RecoveryStarts, IInv, PageInv
<1> QED BY <1>2, <1>3, <1>4, <1>5, <1>6, <1>7 DEF RecoveryStep

\* The guard of the present stream is taken away only by the answer it waits for,
\* by the end of the web socket, by a reconnect, or when it fires with the budget
\* of startup recoveries spent: nothing that a replaced stream still reports, and
\* no timer, attempt or route of its own, leaves a start that nobody watches.
THEOREM StartsStayGuarded ==
  RecoverySpec =>
    [][\A s \in Slots : page.cur = s /\ st[s].guard =>
         \/ st'[s].guard \/ st'[s].complete \/ st'[s].ws = "closed"
         \/ page'.rec # "no" \/ page'.startup = MaxStartup]_recoveryVars
<1>1. IInv /\ [RecoveryNext]_recoveryVars =>
        [\A s \in Slots : page.cur = s /\ st[s].guard =>
           \/ st'[s].guard \/ st'[s].complete \/ st'[s].ws = "closed"
           \/ page'.rec # "no" \/ page'.startup = MaxStartup]_recoveryVars
  <2> SUFFICES ASSUME IInv, RecoveryNext, NEW s \in Slots, page.cur = s, st[s].guard
               PROVE  WaitGoesOn(s)
    BY DEF WaitGoesOn
  <2> QED BY StreamGuards, PageGuards DEF RecoveryNext
<1> QED BY <1>1, Invariance, PTL DEF RecoverySpec
=============================================================================
