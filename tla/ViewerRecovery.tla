--------------------------- MODULE ViewerRecovery ---------------------------
(***************************************************************************)
(* The stream page (src/web/stream.ts, class ViewerApp) and the streams it *)
(* opens one after the other (src/web/stream/index.ts, class Stream, over  *)
(* src/web/stream/transport/webrtc.ts).                                    *)
(*                                                                         *)
(* A Stream owns a web socket and a coroutine, startConnection, that tries *)
(* WebRTC transports one by one: direct attempts first, then TURN.  It     *)
(* reports to the page with events that are dispatched synchronously.  The *)
(* page answers with reconnectStream, a coroutine of its own that stops    *)
(* and closes the present stream and opens the next one.  The page never   *)
(* removes its listener from a stream, so a replaced stream whose          *)
(* coroutine is still running goes on reporting to the page.               *)
(*                                                                         *)
(* Streams live in slots; a slot is used again when nothing of its stream  *)
(* can report any more.  Timers carry no clock: an armed timer may fire in *)
(* any later step.                                                         *)
(***************************************************************************)
EXTENDS Integers, FiniteSets

CONSTANTS
  Slots,        \* the places for streams, the present one and replaced ones
  NoStream,     \* ViewerApp.stream = null
  MaxDirect,    \* direct WebRTC attempts of a stream: 3 in the code, 0 when
                \* no direct ICE server is known
  HasTurn,      \* whether the ICE servers include a TURN server
  MaxStartup,   \* STARTUP_RECOVERY_MAX_ATTEMPTS
  MaxAuto       \* STREAM_AUTO_RECONNECT_MAX_ATTEMPTS

ASSUME RecoveryAssumption ==
  /\ NoStream \notin Slots
  /\ MaxDirect \in Nat /\ HasTurn \in BOOLEAN
  /\ MaxStartup \in Nat \ {0} /\ MaxAuto \in Nat \ {0}

VARIABLES
  page,      \* the fields of ViewerApp that recovery reads and writes
  st,        \* st[s]: the Stream in slot s
  autoRuns   \* history: automatic reconnects since the budget was reset

recoveryVars == <<page, st, autoRuns>>

Off == -1
Routes == {"negotiating", "direct", "relay", "failed"}

Page ==
  [cur : Slots \cup {NoStream},               \* ViewerApp.stream
   rec : {"no", "stop", "close", "start"},    \* await point of reconnectStream
   route : Routes,                            \* currentRouteState
   wasDirect : BOOLEAN,                       \* routeWasDirectOnce
   startup : 0 .. MaxStartup,                 \* startupTimeoutRecoveryAttempts
   auto : Off .. MaxAuto - 1,    \* autoReconnectTimer and the count it captured
   used : 0 .. MaxAuto]          \* attempts in the session storage

\* The direct attempts, then the TURN attempt; without direct servers the
\* configured list is tried once as it is.
Attempts == MaxDirect + (IF HasTurn \/ MaxDirect = 0 THEN 1 ELSE 0)

StreamState ==
  [ws : {"connecting", "open", "closing", "closed"},
   pc : {"setup", "peer", "negotiating", "pipelines", "active",
         "failed", "lost"},
   attempt : 0 .. Attempts,   \* of the loop, while it runs
   peer : {"none", "open", "lost", "closed"},  \* the transport that was set
   complete : BOOLEAN,   \* connectionCompleted
   event : BOOLEAN,      \* connectionComplete follows applyVideoSetup
   guard : BOOLEAN,      \* startStreamGuardTimer
   closing : BOOLEAN]    \* close() was called

NewStream ==
  [ws |-> "connecting", pc |-> "setup", attempt |-> 0, peer |-> "none",
   complete |-> FALSE, event |-> FALSE, guard |-> FALSE, closing |-> FALSE]

Gone == [NewStream EXCEPT !.ws = "closed", !.pc = "failed", !.closing = TRUE]

RecoveryTypeOK ==
  /\ page \in Page
  /\ st \in [Slots -> StreamState]
  /\ autoRuns \in 0 .. MaxAuto

(***************************************************************************)
(* What the page does with a report.  Each operator maps the page's fields *)
(* to their next values; handlers that call one another compose.           *)
(***************************************************************************)

\* reconnectStream up to its first await.
Reconnect(p) == IF p.rec = "no" THEN [p EXCEPT !.rec = "stop"] ELSE p

\* scheduleAutoReconnectAfterRouteFailure: the timer keeps the count it read.
ScheduleAutoReconnect(p) ==
  IF /\ p.auto = Off /\ p.rec = "no" /\ p.cur # NoStream /\ p.wasDirect
     /\ p.used < MaxAuto
  THEN [p EXCEPT !.auto = p.used]
  ELSE p

SetRoute(p, state) ==
  LET q == [p EXCEPT !.route = state,
                     !.wasDirect = @ \/ state = "direct",
                     !.used = IF state = "direct" THEN 0 ELSE @,
                     !.auto = IF state = "failed" THEN @ ELSE Off]
  IN  IF state = "failed" /\ p.route # "failed"
      THEN ScheduleAutoReconnect(q) ELSE q

\* getConnectionRouteUpdate: the page reads the route from the log lines.
RouteUpdate ==
  [trying |-> "negotiating", direct |-> "direct", relayed |-> "relay",
   failed |-> "failed", lost |-> "failed"]

Log(p, line) == SetRoute(p, RouteUpdate[line])

\* The arms of onInfo for startupTimeout and startupInterrupted.
OnStartupFailure(p) ==
  IF p.cur = NoStream \/ p.rec # "no" \/ p.startup >= MaxStartup THEN p
  ELSE Reconnect(SetRoute([p EXCEPT !.startup = @ + 1], "negotiating"))

\* The arm for connectionComplete.
OnConnectionComplete(p) ==
  LET q == [p EXCEPT !.startup = 0]
  IN  IF q.route = "negotiating" THEN SetRoute(q, "direct") ELSE q

\* stop() runs with the handler that called reconnectStream: it disarms the
\* guard timer of the present stream.
Report(p, t) ==
  /\ page' = p
  /\ st' = IF page.rec = "no" /\ p.rec = "stop"
           THEN [t EXCEPT ![p.cur].guard = FALSE] ELSE t
  /\ autoRuns' = IF p.used = 0 THEN 0 ELSE autoRuns

(***************************************************************************)
(* A stream.                                                               *)
(***************************************************************************)
WsOpens(s) ==
  /\ st[s].ws = "connecting"
  /\ st' = [st EXCEPT ![s].ws = "open"]
  /\ UNCHANGED <<page, autoRuns>>

\* onWsClose dispatches no event, and disarms the guard timer.
WsCloses(s) ==
  /\ st[s].ws # "closed"
  /\ st' = [st EXCEPT ![s].ws = "closed", ![s].guard = FALSE]
  /\ UNCHANGED <<page, autoRuns>>

\* The coroutine begins its next attempt; the line it logs moves the route.
BeginAttempt(s) ==
  Report(Log(page, "trying"),
         [st EXCEPT ![s].pc = "peer", ![s].attempt = @ + 1])

\* startConnection ends: startupInterrupted first, then the line that says
\* the route has failed.
EndConnection(s, end, peer) ==
  Report(Log(IF st[s].complete THEN page ELSE OnStartupFailure(page), end),
         [st EXCEPT ![s].pc = end, ![s].attempt = 0, ![s].peer = peer])

\* tryWebRTCTransport returned failednoconnect.
AttemptFails(s, peer) ==
  IF st[s].attempt < Attempts
  THEN Report(Log(page, "trying"),
              [st EXCEPT ![s].pc = "peer", ![s].attempt = @ + 1,
                         ![s].peer = peer])
  ELSE EndConnection(s, "failed", peer)

ServerSetup(s) ==
  /\ st[s].ws = "open" /\ st[s].pc = "setup"
  /\ BeginAttempt(s)

\* initPeer resolved: setTransport closes the transport it replaces.  Nothing
\* here looks at whether the stream was closed meanwhile.
PeerReady(s) ==
  /\ st[s].pc = "peer"
  /\ st' = [st EXCEPT ![s].pc = "negotiating", ![s].peer = "open"]
  /\ UNCHANGED <<page, autoRuns>>

\* Offers and answers travel over the web socket.
Connects(s) ==
  /\ st[s].pc = "negotiating" /\ st[s].peer = "open" /\ st[s].ws = "open"
  /\ st' = [st EXCEPT ![s].pc = "pipelines"]
  /\ UNCHANGED <<page, autoRuns>>

\* The connection timer, or a failed peer, before the first connection.
NegotiationFails(s) ==
  /\ st[s].pc = "negotiating" /\ st[s].peer = "open"
  /\ AttemptFails(s, "lost")

\* reportSelectedCandidatePair logs the line the page reads as the route.
RouteReported(s) ==
  /\ st[s].pc \in {"pipelines", "active"} /\ st[s].peer = "open"
  /\ \E line \in {"direct", "relayed"} : Report(Log(page, line), st)

\* No pipeline for the codec: the transport is closed, and the result,
\* failednoconnect, has the next attempt tried.
NoPipeline(s) ==
  /\ st[s].pc = "pipelines"
  /\ AttemptFails(s, "closed")

\* A slip of SendStartStream: no guard timer.
SendStartStreamUnguarded(t, s) == [t EXCEPT ![s].complete = FALSE]

\* sendStartStreamRequest: StartStream is sent, or queued for ever when the
\* web socket is no longer open, and the guard timer armed.
SendStartStream(t, s) == [t EXCEPT ![s].complete = FALSE, ![s].guard = TRUE]

\* createPipelines resolved.
PipelinesReady(s) ==
  /\ st[s].pc = "pipelines"
  /\ st' = SendStartStream([st EXCEPT ![s].pc = "active", ![s].attempt = 0], s)
  /\ UNCHANGED <<page, autoRuns>>

\* emitClose("failed").  While the pipelines are built the listener is the
\* resolved promise of the negotiation, and the report is lost.
TransportLost(s) ==
  /\ st[s].peer = "open"
  /\ \/ /\ st[s].pc = "pipelines"
        /\ st' = [st EXCEPT ![s].peer = "lost"]
        /\ UNCHANGED <<page, autoRuns>>
     \/ /\ st[s].pc = "active"
        /\ EndConnection(s, "lost", "lost")

\* ConnectionComplete arrives: the flag is set and the guard disarmed before
\* the await of the renderer's setup, the event comes after it.
ServerCompletes(s) ==
  /\ st[s].ws = "open" /\ st[s].pc \in {"active", "lost"} /\ ~st[s].complete
  /\ st' = [st EXCEPT ![s].complete = TRUE, ![s].guard = FALSE,
                      ![s].event = TRUE]
  /\ UNCHANGED <<page, autoRuns>>

VideoSetupDone(s) ==
  /\ st[s].event
  /\ Report(OnConnectionComplete(page), [st EXCEPT ![s].event = FALSE])

GuardFires(s) ==
  /\ st[s].guard
  /\ Report(IF st[s].complete THEN page ELSE OnStartupFailure(page),
            [st EXCEPT ![s].guard = FALSE])

\* restartHostStreamInPlace, on a change of bitrate or frame rate.
RestartInPlace ==
  /\ page.cur # NoStream /\ page.rec = "no"
  /\ st[page.cur].ws = "open" /\ st[page.cur].pc \in {"active", "lost"}
  /\ ~st[page.cur].event
  /\ st' = SendStartStream(st, page.cur)
  /\ UNCHANGED <<page, autoRuns>>

(***************************************************************************)
(* The page.                                                               *)
(***************************************************************************)

\* The user, a change of settings and device match reconnect; the stall watch
\* and the resume timer also put the route back to negotiating.
PageReconnects ==
  /\ page.cur # NoStream /\ page.rec = "no"
  /\ \E p \in {page, SetRoute(page, "negotiating")} : Report(Reconnect(p), st)

\* A slip of AutoTimerFires: the count is not written back.
AutoTimerForgetsCount ==
  /\ page.auto # Off
  /\ IF page.rec # "no" \/ page.route # "failed" \/ page.cur = NoStream
     THEN /\ page' = [page EXCEPT !.auto = Off]
          /\ UNCHANGED <<st, autoRuns>>
     ELSE /\ page' = Reconnect(SetRoute([page EXCEPT !.auto = Off],
                                        "negotiating"))
          /\ st' = [st EXCEPT ![page.cur].guard = FALSE]
          /\ autoRuns' = autoRuns + 1

AutoTimerFires ==
  /\ page.auto # Off
  /\ IF page.rec # "no" \/ page.route # "failed" \/ page.cur = NoStream
     THEN /\ page' = [page EXCEPT !.auto = Off]
          /\ UNCHANGED <<st, autoRuns>>
     ELSE /\ page' = Reconnect(SetRoute([page EXCEPT !.used = page.auto + 1,
                                                     !.auto = Off],
                                        "negotiating"))
          /\ st' = [st EXCEPT ![page.cur].guard = FALSE]
          /\ autoRuns' = autoRuns + 1

\* readAutoReconnectState finds the 90 s window over: the count starts again.
WindowExpires ==
  /\ page.used > 0
  /\ page' = [page EXCEPT !.used = 0, !.auto = IF @ = Off THEN Off ELSE 0]
  /\ autoRuns' = 0
  /\ UNCHANGED st

\* A slip of RecoveryCloses: it waits for a transport that may not be there.
RecoveryClosesTransport ==
  /\ page.rec = "stop" /\ st[page.cur].peer # "none"
  /\ page' = [page EXCEPT !.rec = "close"]
  /\ st' = [st EXCEPT ![page.cur].guard = FALSE, ![page.cur].closing = TRUE,
                      ![page.cur].peer = "closed"]
  /\ UNCHANGED autoRuns

\* stop() resolved: close() begins; it awaits the close of the transport.
RecoveryCloses ==
  /\ page.rec = "stop"
  /\ page' = [page EXCEPT !.rec = "close"]
  /\ st' = [st EXCEPT ![page.cur].guard = FALSE, ![page.cur].closing = TRUE,
                      ![page.cur].peer = IF @ = "none" THEN @ ELSE "closed"]
  /\ UNCHANGED autoRuns

\* A slip of RecoveryClosesWs: the web socket is left open.
RecoveryLeavesWs ==
  /\ page.rec = "close"
  /\ page' = [page EXCEPT !.rec = "start", !.cur = NoStream]
  /\ UNCHANGED <<st, autoRuns>>

\* ... and then closes the web socket, whose close event comes later.
RecoveryClosesWs ==
  /\ page.rec = "close"
  /\ page' = [page EXCEPT !.rec = "start", !.cur = NoStream]
  /\ st' = [st EXCEPT ![page.cur].ws = IF @ = "closed" THEN @ ELSE "closing"]
  /\ UNCHANGED autoRuns

\* Nothing of the stream will report any more, unless a transport that it
\* opened after its close, and nobody closes, is lost some day.
Silent(s) ==
  /\ st[s].ws = "closed" /\ ~st[s].guard /\ ~st[s].event
  /\ \/ st[s].pc \in {"setup", "failed", "lost"}
     \/ st[s].pc = "negotiating" /\ st[s].peer = "closed"
     \/ st[s].pc = "active" /\ st[s].closing

\* The constructor of the next Stream, and the end of reconnectStream.
RecoveryStarts ==
  /\ page.rec = "start"
  /\ \E s \in Slots :
       /\ Silent(s)
       /\ page' = [SetRoute(page, "negotiating") EXCEPT !.rec = "no",
                                                        !.cur = s]
       /\ st' = [st EXCEPT ![s] = NewStream]
  /\ UNCHANGED autoRuns

(***************************************************************************)
(* The page opens its first stream; every other slot is free.              *)
(***************************************************************************)
RecoveryInit ==
  /\ \E s \in Slots :
       /\ page = [cur |-> s, rec |-> "no", route |-> "negotiating",
                  wasDirect |-> FALSE, startup |-> 0, auto |-> Off,
                  used |-> 0]
       /\ st = [x \in Slots |-> IF x = s THEN NewStream ELSE Gone]
  /\ autoRuns = 0

StreamStep(s) ==
  \/ WsOpens(s) \/ WsCloses(s) \/ ServerSetup(s) \/ PeerReady(s)
  \/ Connects(s) \/ NegotiationFails(s) \/ RouteReported(s) \/ NoPipeline(s)
  \/ PipelinesReady(s) \/ TransportLost(s) \/ ServerCompletes(s)
  \/ VideoSetupDone(s) \/ GuardFires(s)

RecoveryStep == RecoveryCloses \/ RecoveryClosesWs \/ RecoveryStarts

RecoveryNext ==
  \/ \E s \in Slots : StreamStep(s)
  \/ RestartInPlace \/ PageReconnects
  \/ AutoTimerFires \/ WindowExpires
  \/ RecoveryStep

RecoverySpec == RecoveryInit /\ [][RecoveryNext]_recoveryVars

\* Timers fire, awaited calls return, and a closing web socket closes; the
\* network, the host and the user owe nothing.
RecoveryFairness ==
  /\ WF_recoveryVars(RecoveryStep)
  /\ \A s \in Slots :
       /\ WF_recoveryVars(PeerReady(s)) /\ WF_recoveryVars(NegotiationFails(s))
       /\ WF_recoveryVars(PipelinesReady(s)) /\ WF_recoveryVars(VideoSetupDone(s))
       /\ WF_recoveryVars(GuardFires(s))
       /\ WF_recoveryVars(st[s].ws = "closing" /\ WsCloses(s))

FairRecoverySpec == RecoverySpec /\ RecoveryFairness

(***************************************************************************)
(* Properties.                                                             *)
(***************************************************************************)

\* Never two streams on the wire: the web socket of a replaced stream is
\* closed, or being closed, before the next stream opens its own.
OneLiveStream ==
  \A s \in Slots \ {page.cur} : st[s].ws \in {"closing", "closed"}

\* The automatic reconnects after a failed route stay within the budget
\* between two direct routes, whatever the interleaving of the timer, the
\* storage and the other recoveries.
AutoReconnectBudget == autoRuns <= MaxAuto /\ autoRuns <= page.used

\* reconnectStream always ends, whatever the replaced streams still do.
ReconnectEnds == []<>(page.rec = "no")

\* A stream that has its pipelines sends StartStream, and either it is
\* answered or the guard timer recovers the stream; only the next attempt, a
\* lost web socket, a lost transport or an exhausted budget ends the wait
\* otherwise.
StartResolves ==
  \A s \in Slots :
    page.cur = s /\ st[s].pc = "pipelines"
      ~> \/ page.cur # s \/ page.rec # "no" \/ st[s].complete
         \/ st[s].ws # "open" \/ page.startup = MaxStartup
         \/ st[s].pc \in {"peer", "failed", "lost"}
=============================================================================
