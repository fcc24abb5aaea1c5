---------------------------- MODULE RuntimeResize ----------------------------
(***************************************************************************)
(* How the size of the stream follows the window and the quality panel     *)
(* (src/web/stream.ts, src/web/stream/index.ts).  The page compares the    *)
(* size of the stream with the one it wants when the window changes, when  *)
(* a stream completes and when the host has resized, and asks for another  *)
(* after timers have let the window settle.  One request is in flight at a *)
(* time, one more is queued; the answer comes on another channel, late or  *)
(* never.  Where the orientation turned the page reconnects instead.       *)
(***************************************************************************)
EXTENDS Naturals, Sequences

CONSTANTS
  Sizes,      \* sizes that differ by a large jump
  Wide,       \* those in landscape
  Rates,      \* frames per second
  NoSize,     \* nothing is asked, nothing is queued
  MaxResizes,   \* bound on what the user does
  MaxFailures \* bound on requests that are not answered, or too late

ASSUME ResizeAssumption ==
  /\ Wide \subseteq Sizes /\ NoSize \notin Sizes
  /\ MaxResizes \in Nat /\ MaxFailures \in Nat

VARIABLES
  window,   \* what the user sees: its size, fullscreen, the soft keyboard
  saved,    \* the settings: device match or a size, and the frame rate
  matching, \* the timers and marks of device match
  control,  \* Stream: its size, the request in flight and the queued one
  requests,     \* messages to the host
  replies,  \* its answers
  missedSizes    \* why the page may stay out of step (history)

resizeVars == <<window, saved, matching, control, requests, replies, missedSizes>>

Reasons == {"resize", "fullscreen", "connection"}
MatchModes == [size : Sizes, fps : Rates]
NothingSent == [size |-> NoSize, fps |-> 0]
Device == NoSize  \* videoSize "device": the size of the window is wanted

FollowsView == saved.size = Device
Wanted(w) == IF FollowsView THEN w.size ELSE saved.size
Target == Wanted(window)
Turned(a, b) == (a \in Wide) # (b \in Wide)

\* hasMeaningfulDeviceMatchViewportShift: a window that keeps its orientation
\* is scaled by the page, unless it is fullscreen or the stream just began.
Meaningful(w, reason, size) ==
  /\ size # Wanted(w)
  /\ Turned(size, Wanted(w)) \/ reason = "connection" \/ w.full

QuietMatching(m) ==
  [m EXCEPT !.armed = FALSE, !.arming = FALSE, !.pending = "none",
            !.resize = "none", !.post = FALSE, !.fullscreen = FALSE, !.settling = FALSE]
Fresh(size) == [size |-> size, ready |-> FALSE, asked |-> NothingSent, queued |-> NothingSent, sent |-> saved.fps]
InFlight(s) == s.asked # NothingSent

ResizeInit ==
  /\ window \in [size : Sizes, full : {FALSE}, typing : {FALSE}, moves : {0}]
  /\ saved \in [size : {Device}, fps : Rates]
  /\ matching = [armed |-> FALSE, arming |-> FALSE, pending |-> "none", resize |-> "none",
                 post |-> FALSE, fullscreen |-> FALSE, settling |-> FALSE,
                 cooling |-> FALSE, reconnecting |-> NoSize, failures |-> 0]
  /\ control = Fresh(window.size)
  /\ requests = <<[kind |-> "StartStream", size |-> window.size, fps |-> saved.fps]>>
  /\ replies = <<>>
  /\ missedSizes = FALSE

ResizeTypeOK ==
  /\ window \in [size : Sizes, full : BOOLEAN, typing : BOOLEAN, moves : 0 .. MaxResizes]
  /\ saved \in [size : Sizes \cup {Device}, fps : Rates]
  /\ matching \in [armed : BOOLEAN, arming : BOOLEAN, pending : Reasons \cup {"none"},
                   resize : Reasons \cup {"none"}, post : BOOLEAN, fullscreen : BOOLEAN,
                   settling : BOOLEAN, cooling : BOOLEAN,
                   reconnecting : Sizes \cup {NoSize}, failures : 0 .. MaxFailures]
  /\ control \in [size : Sizes, ready : BOOLEAN, asked : MatchModes \cup {NothingSent},
                  queued : MatchModes \cup {NothingSent}, sent : Rates]
  /\ requests \in Seq([kind : {"StartStream", "ResizeStream"}, size : Sizes, fps : Rates])
  /\ replies \in Seq([kind : {"ConnectionComplete", "VideoReconfigured"}, size : Sizes, fps : Rates])
  /\ missedSizes \in BOOLEAN

Reconnecting == matching.reconnecting # NoSize
Ready == control.ready /\ ~Reconnecting

-----------------------------------------------------------------------------
(* Stream: one request in flight, one in the queue.                        *)

\* requestRuntimeResize.  The size alone is compared with the stream's: a
\* frame rate of its own, or a return to the size that a request is about to
\* change, asks for nothing.
Asked(s, mode) ==
  IF mode.size = s.size \/ mode \in {s.asked, s.queued} THEN s
  ELSE IF InFlight(s) THEN [s EXCEPT !.queued = mode, !.sent = mode.fps]
  ELSE [s EXCEPT !.asked = mode, !.queued = NothingSent, !.sent = mode.fps]
Sent(s, t) ==
  IF t.asked # s.asked /\ InFlight(t)
  THEN Append(requests, [kind |-> "ResizeStream", size |-> t.asked.size, fps |-> t.asked.fps])
  ELSE requests

Request(mode) ==
  /\ control' = Asked(control, mode)
  /\ requests' = Sent(control, control')

\* The request is forgotten, and the queued one takes its place.
MatchSettled(s) == [s EXCEPT !.asked = NothingSent, !.queued = NothingSent]
Flushed(s) == IF s.queued = NothingSent THEN MatchSettled(s) ELSE Asked(MatchSettled(s), s.queued)

-----------------------------------------------------------------------------
(* Device match.                                                           *)

\* scheduleDynamicDeviceMatchReconnect
MatchGivesUp(w) == FollowsView /\ ~Reconnecting /\ (w.typing \/ matching.cooling)
Schedule(m, w, reason) ==
  IF \/ ~FollowsView \/ Reconnecting \/ w.typing \/ m.cooling
     \/ (reason = "connection" /\ ~control.ready)
  THEN m
  ELSE IF ~m.armed THEN [m EXCEPT !.pending = reason]
  ELSE [m EXCEPT !.resize = IF Meaningful(w, reason, control.size) THEN reason ELSE "none"]

\* scheduleFastFullscreenDeviceMatchSync
ScheduleFullscreen(m, w) ==
  [m EXCEPT !.fullscreen =
     /\ FollowsView /\ Ready /\ w.full /\ ~w.typing
     /\ Meaningful(w, "fullscreen", control.size)]

\* armDynamicDeviceMatchAfterSettle
Arm(m, follows) ==
  IF follows THEN [m EXCEPT !.armed = FALSE, !.arming = TRUE]
  ELSE [m EXCEPT !.armed = FALSE, !.arming = FALSE, !.pending = "none", !.resize = "none"]

\* A slip of QueueSync: a stream that completes is taken to fit.
QueueSyncNever(m, size) == m

\* queueDynamicDeviceMatchConnectionSync
QueueSync(m, size) ==
  IF FollowsView /\ Meaningful(window, "connection", size) THEN [m EXCEPT !.pending = "connection"] ELSE m

Moves == window.moves < MaxResizes

\* onStreamChromeViewportChange
ViewportChanges(size) ==
  /\ Moves /\ size # window.size
  /\ window' = [window EXCEPT !.size = size, !.moves = @ + 1]
  /\ LET m == IF window.full THEN ScheduleFullscreen(matching, window') ELSE matching
     IN  matching' = Schedule(m, window', "resize")
  /\ missedSizes' = (MatchGivesUp(window') \/ (missedSizes /\ ~(FollowsView /\ (matching.armed \/ matching.arming))))
  /\ UNCHANGED <<saved, control, requests, replies>>

\* onFullscreenChange, on a desktop.
FullscreenChanges ==
  /\ Moves
  /\ window' = [window EXCEPT !.full = ~@, !.moves = @ + 1]
  /\ LET m == [ScheduleFullscreen(matching, window') EXCEPT !.settling = TRUE]
     IN  matching' = Schedule(m, window', "fullscreen")
  /\ missedSizes' = (missedSizes \/ MatchGivesUp(window'))
  /\ UNCHANGED <<saved, control, requests, replies>>

\* scheduleFullscreenViewportSettleSync looks again, four times.
SettleTick ==
  /\ matching.settling
  /\ \E more \in BOOLEAN :
       matching' = [IF window.full THEN ScheduleFullscreen(matching, window) ELSE matching
                      EXCEPT !.settling = more]
  /\ UNCHANGED <<window, saved, control, requests, replies, missedSizes>>

KeyboardChanges ==
  /\ Moves
  /\ window' = [window EXCEPT !.typing = ~@, !.moves = @ + 1]
  /\ UNCHANGED <<saved, matching, control, requests, replies, missedSizes>>

\* The window has been left alone for a while.
ArmTimerFires ==
  /\ matching.arming
  /\ LET armed == [matching EXCEPT !.arming = FALSE, !.armed = TRUE, !.pending = "none"]
     IN  matching' = IF matching.pending = "none" THEN armed
                     ELSE Schedule(armed, window, matching.pending)
  /\ missedSizes' = (missedSizes \/ (matching.pending # "none" /\ MatchGivesUp(window)))
  /\ UNCHANGED <<window, saved, control, requests, replies>>

\* Every timer looks again before it asks.
Looks(reason) ==
  /\ ~window.typing
  /\ Meaningful(window, reason, control.size)
AskOrLeave(m, reason) ==
  \/ /\ Looks(reason)
     /\ Request([size |-> Target, fps |-> saved.fps])
     /\ matching' = Arm(m, FollowsView)
     /\ UNCHANGED missedSizes
  \/ /\ ~Looks(reason)
     /\ matching' = m /\ missedSizes' = (missedSizes \/ window.typing)
     /\ UNCHANGED <<control, requests>>

\* The first half of reconnectStream: the size of the window is read here.
Reconnect(m) ==
  /\ matching' = [QuietMatching(m) EXCEPT !.reconnecting = Target]
  /\ control' = [control EXCEPT !.ready = FALSE, !.asked = NothingSent, !.queued = NothingSent]
  /\ requests' = <<>> /\ replies' = <<>>
  /\ missedSizes' = FALSE

\* scheduleDynamicDeviceMatchReconnect, its timer.
ResizeTimerFires ==
  /\ matching.resize # "none"
  /\ LET m == [matching EXCEPT !.resize = "none"]
     IN  IF Looks(matching.resize)
            /\ (Turned(control.size, Target) \/ (matching.resize = "fullscreen" /\ window.full))
         THEN Reconnect(m)
         ELSE AskOrLeave(m, matching.resize) /\ UNCHANGED replies
  /\ UNCHANGED <<window, saved>>

\* scheduleFastFullscreenDeviceMatchSync, its timer.
FullscreenTimerFires ==
  /\ matching.fullscreen
  /\ LET m == [matching EXCEPT !.fullscreen = FALSE]
     IN  IF window.full /\ Looks("fullscreen")
         THEN Reconnect(m)
         ELSE matching' = m /\ missedSizes' = (missedSizes \/ window.typing) /\ UNCHANGED <<control, requests, replies>>
  /\ UNCHANGED <<window, saved>>

\* scheduleDynamicDeviceMatchPostConnectPromotion, its timer.
PostTimerFires ==
  /\ matching.post
  /\ AskOrLeave([matching EXCEPT !.post = FALSE], "connection")
  /\ UNCHANGED <<window, saved, replies>>

\* reconnectStream for a reason of its own, and its second half.
OtherReconnect ==
  /\ Moves /\ ~Reconnecting
  /\ window' = [window EXCEPT !.moves = @ + 1]
  /\ Reconnect(matching)
  /\ UNCHANGED saved
SizedStreamStarts ==
  /\ Reconnecting
  /\ control' = Fresh(matching.reconnecting)
  /\ requests' = <<[kind |-> "StartStream", size |-> matching.reconnecting, fps |-> saved.fps]>>
  /\ matching' = [matching EXCEPT !.reconnecting = NoSize]
  /\ UNCHANGED <<window, saved, replies, missedSizes>>

-----------------------------------------------------------------------------
(* The host and its answers.                                               *)

HostAnswers ==
  /\ requests # <<>> /\ ~Reconnecting
  /\ requests' = Tail(requests)
  /\ replies' = Append(replies,
       [Head(requests) EXCEPT !.kind = IF @ = "StartStream" THEN "ConnectionComplete" ELSE "VideoReconfigured"])
  /\ UNCHANGED <<window, saved, matching, control, missedSizes>>
HostFails ==
  /\ requests # <<>> /\ ~Reconnecting /\ Head(requests).kind = "ResizeStream"
  /\ matching.failures < MaxFailures
  /\ matching' = [matching EXCEPT !.failures = @ + 1]
  /\ requests' = Tail(requests)
  /\ missedSizes' = TRUE
  /\ UNCHANGED <<window, saved, control, replies>>

\* runtimeResizeInFlight is given up; the page is told unless more is queued.
UnderWay == requests # <<>> \/ replies # <<>>
AckTimerFires ==
  /\ InFlight(control)
  /\ UnderWay => matching.failures < MaxFailures
  /\ control' = Flushed(control)
  /\ requests' = Sent(MatchSettled(control), control')
  /\ LET m == [matching EXCEPT !.failures = IF UnderWay THEN @ + 1 ELSE @]
     IN  matching' = IF control.queued = NothingSent
                     THEN [m EXCEPT !.cooling = TRUE, !.pending = "none"] ELSE m
  /\ missedSizes' = (missedSizes \/ ~InFlight(control'))
  /\ UNCHANGED <<window, saved, replies>>
CooldownEnds ==
  /\ matching.cooling
  /\ matching' = [matching EXCEPT !.cooling = FALSE]
  /\ UNCHANGED <<window, saved, control, requests, replies, missedSizes>>

Answered(kind) == replies # <<>> /\ ~Reconnecting /\ Head(replies).kind = kind

\* handleGeneralMessage, and onInfo videoReconfigured.
Reconfigured ==
  /\ Answered("VideoReconfigured")
  /\ LET shown == [control EXCEPT !.size = Head(replies).size]
     IN  /\ control' = Flushed(shown)
         /\ requests' = Sent(MatchSettled(shown), control')
         /\ matching' = Arm(IF control.ready THEN QueueSync(matching, shown.size) ELSE matching, FollowsView)
  /\ replies' = Tail(replies)
  /\ UNCHANGED <<window, saved, missedSizes>>

\* onMessage ConnectionComplete, and onInfo connectionComplete.
Completed ==
  /\ Answered("ConnectionComplete")
  /\ control' = [control EXCEPT !.size = Head(replies).size, !.ready = TRUE]
  /\ LET shift == FollowsView /\ Meaningful(window, "connection", Head(replies).size)
         m == [matching EXCEPT !.pending = "none", !.post = shift]
     IN  matching' = Arm(QueueSync(m, Head(replies).size), FollowsView)
  /\ replies' = Tail(replies)
  /\ UNCHANGED <<window, saved, requests, missedSizes>>

\* setConnectionRoute: a path was found.
RouteFound ==
  /\ Ready
  /\ matching' = Arm(QueueSync(matching, control.size), FollowsView)
  /\ UNCHANGED <<window, saved, control, requests, replies, missedSizes>>

-----------------------------------------------------------------------------
(* The quality panel.                                                      *)

\* restartHostStreamInPlace: what is under way is forgotten, and the stream
\* begins again at the size it has, whatever the settings say.
Restart(fps) ==
  /\ control' = [MatchSettled(control) EXCEPT !.ready = FALSE, !.sent = fps]
  /\ requests' = Append(requests, [kind |-> "StartStream", size |-> control.size, fps |-> fps])

\* What the panel may leave behind: device match chosen while nothing is sent,
\* and a size of its own that goes with a restart, or with a request that is
\* passed over or waits behind another.
Overlaps(size, more) ==
  IF size = Device THEN size # saved.size /\ ~more /\ requests' = requests
  ELSE \/ more /\ (size # saved.size \/ UnderWay)
       \/ size # saved.size /\ requests' = requests

\* getStreamQualityPlan, onStreamQualityApplyClick.  Where nothing but the size
\* and the frame rate changed the size is asked for; else the stream is restarted.
Changed(size, fps, more) == size # saved.size \/ fps # saved.fps \/ more
ApplySize(size, fps, more) ==
  /\ Moves /\ Ready /\ Changed(size, fps, more)
  /\ window' = [window EXCEPT !.moves = @ + 1]
  /\ saved' = [size |-> size, fps |-> fps]
  /\ IF more THEN Restart(fps)
     ELSE Request([size |-> IF size = Device THEN window.size ELSE size, fps |-> fps])
  /\ missedSizes' = (missedSizes \/ Overlaps(size, more))
  /\ UNCHANGED <<matching, replies>>

ResizeNext ==
  \/ \E size \in Sizes : ViewportChanges(size)
  \/ FullscreenChanges \/ SettleTick \/ KeyboardChanges
  \/ ArmTimerFires \/ ResizeTimerFires \/ FullscreenTimerFires \/ PostTimerFires
  \/ OtherReconnect \/ SizedStreamStarts
  \/ HostAnswers \/ HostFails \/ AckTimerFires \/ CooldownEnds
  \/ Reconfigured \/ Completed \/ RouteFound
  \/ \E size \in Sizes \cup {Device}, fps \in Rates, more \in BOOLEAN : ApplySize(size, fps, more)

ResizeSpec == ResizeInit /\ [][ResizeNext]_resizeVars

-----------------------------------------------------------------------------
StreamQuiet ==
  /\ ~matching.arming /\ matching.resize = "none" /\ ~matching.post /\ ~matching.fullscreen
  /\ Ready /\ ~InFlight(control) /\ requests = <<>> /\ replies = <<>>

\* When no timer runs and nothing is under way, the stream has the size that
\* the window or the settings ask for, up to a shift that is left to the page,
\* and no request waits in the queue.  The page may stay out of step only after
\* it gave a change up: under the soft keyboard, after a request that was not
\* answered, when the panel chose device match and nothing was sent, or with a
\* size of the panel that went with a restart or overlapped what was under way.
SizeFollows ==
  /\ control.queued # NothingSent => InFlight(control)
  /\ StreamQuiet => missedSizes \/ ~Meaningful(window, "resize", control.size)

\* The panel says (src/web/stream.ts:23067) that a custom frame rate is sent to
\* the host.
FpsIsSent == ~Reconnecting => control.sent = saved.fps
=============================================================================
