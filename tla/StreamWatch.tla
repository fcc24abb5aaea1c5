----------------------------- MODULE StreamWatch -----------------------------
(***************************************************************************)
(* What the stream page does until it trusts the picture, and while it     *)
(* watches it (src/web/stream.ts): the display transition of a turned      *)
(* phone, the warm-up of the first frames, both of which lock the input,   *)
(* and the stall watch that looks at the video once a second.  The page is *)
(* in its mobile mode; a desktop has neither lock.                         *)
(*                                                                         *)
(* Timers and deadlines fire when the model says so; elapsed times are     *)
(* kept as the thresholds the code compares them with.                     *)
(***************************************************************************)
EXTENDS Naturals, FiniteSets

CONSTANTS
  MaxStreams,  \* bound: streams the page creates one after the other
  MaxTicks     \* bound: ticks of the watch that are in an await together

ASSUME WatchAssumption == MaxStreams \in Nat \ {0} /\ MaxTicks \in Nat

VARIABLES
  session,  \* the current Stream, its messages, and reconnectStream
  shift,    \* displayTransition...
  warmup,   \* startupVideoWarmup...
  stall,    \* videoStall...
  ticks     \* tickVideoStallWatch at an await, with what it read before it

watchVars == <<session, shift, warmup, stall, ticks>>

NewSession(n, locked) ==
  [n |-> n, at |-> "opening", recon |-> FALSE, input |-> locked, mode |-> TRUE,
   flow |-> TRUE, early |-> FALSE, ready |-> FALSE, steady |-> FALSE,
   ghost |-> FALSE]

IdleShift ==
  [phase |-> "idle", lock |-> FALSE, host |-> "unasked", flow |-> "unasked",
   check |-> "none", stable |-> 0, progress |-> FALSE, late |-> FALSE]

ColdWarmup ==
  [active |-> FALSE, lock |-> FALSE, check |-> FALSE, stable |-> FALSE,
   sure |-> FALSE]

QuietStall == [on |-> FALSE, quiet |-> 0, motion |-> FALSE, hushed |-> FALSE,
               touched |-> FALSE, rested |-> TRUE, renderable |-> TRUE]

WatchInit ==
  /\ session = [NewSession(1, FALSE) EXCEPT !.ready = TRUE]
  /\ shift = IdleShift
  /\ warmup = ColdWarmup
  /\ stall = QuietStall
  /\ ticks = {}

WatchTypeOK ==
  /\ session \in
       [n : 1 .. MaxStreams,
        at : {"opening", "applying", "live"},  \* connectionCompleted, and its event
        recon : BOOLEAN,    \* reconnecting
        input : BOOLEAN,    \* transitionLocked of the stream's input
        mode : BOOLEAN,     \* DisplayModeApplied is still to come
        flow : BOOLEAN,     \* VideoFlowReady is still to come
        early : BOOLEAN,    \* history: it came before the warm-up began
        ready : BOOLEAN,    \* displayTransitionReadyAt is past
        steady : BOOLEAN,   \* the video has its size and advances from now on
        ghost : BOOLEAN]    \* a replaced stream still applies its video setup
  /\ shift \in
       [phase : {"idle", "reconnecting", "verifying"}, lock : BOOLEAN,
        host : {"unasked", "due", "acked"},   \* unasked: not, or no longer
        flow : {"unasked", "due", "acked"},
        check : {"none", "wait", "run"}, stable : 0 .. 2, progress : BOOLEAN,
        late : BOOLEAN]     \* 24 attempts
  /\ warmup \in [active : BOOLEAN, lock : BOOLEAN, check : BOOLEAN,
                 stable : BOOLEAN, sure : BOOLEAN]
  /\ stall \in
       [on : BOOLEAN, quiet : 0 .. 2,         \* stalledMs: less, 8 s, 12 s
        motion : BOOLEAN, hushed : BOOLEAN,   \* ExpectMotionUntil, SuppressedUntil
        touched : BOOLEAN,                    \* interaction in the last 15 s
        rested : BOOLEAN, renderable : BOOLEAN]  \* 15 s, 12 s after a recovery
  /\ ticks \subseteq [quiet : 1 .. 2, motion : BOOLEAN, at : {"probe", "render"}]

Shifting == shift.phase # "idle"

\* resetVideoStallWatch: the progress counts from now.
Watched == [stall EXCEPT !.quiet = 0]

(***************************************************************************)
(* Reconnecting.                                                           *)
(***************************************************************************)
\* reconnectStream up to its first await.
InputReconnects(s) == [s EXCEPT !.recon = TRUE]

StopWatch == [stall EXCEPT !.on = FALSE]

SomethingReconnects ==
  /\ ~session.recon /\ session.n < MaxStreams
  /\ session' = InputReconnects(session)
  /\ stall' = StopWatch
  /\ UNCHANGED <<shift, warmup, ticks>>

\* A slip of ReconnectRestarts: startStream does not pass the lock on.
ReconnectRestartsUnlocked ==
  /\ session.recon
  /\ session' = [NewSession(session.n + 1, FALSE) EXCEPT
                   !.ghost = session.at = "applying", !.ready = session.ready]
  /\ warmup' = ColdWarmup
  /\ stall' = [Watched EXCEPT !.on = FALSE, !.motion = FALSE]
  /\ UNCHANGED <<shift, ticks>>

\* The old stream is closed; startStream resets the watch and the warm-up,
\* creates the next stream and gives its input the lock there is.
ReconnectRestarts ==
  /\ session.recon
  /\ session' = [NewSession(session.n + 1, shift.lock) EXCEPT
                   !.ghost = session.at = "applying", !.ready = session.ready]
  /\ warmup' = ColdWarmup
  /\ stall' = [Watched EXCEPT !.on = FALSE, !.motion = FALSE]
  /\ UNCHANGED <<shift, ticks>>

(***************************************************************************)
(* The display transition.                                                 *)
(***************************************************************************)
\* The attempts that wait for the size of a turned viewport to come to rest
\* give up, one after the other, while there is no stream to resize.
MayShift ==
  session.at # "opening" /\ session.ready /\ ~session.recon

\* The native shell turned the viewport, its size came to rest and differs
\* from the stream's: lock the input and reconnect with the new size.
TransitionBegins ==
  /\ MayShift /\ session.n < MaxStreams
  /\ shift' = [IdleShift EXCEPT !.phase = "reconnecting", !.lock = TRUE,
                                !.host = "due"]
  /\ session' = [InputReconnects(session) EXCEPT !.input = TRUE]
  /\ stall' = StopWatch
  /\ UNCHANGED <<warmup, ticks>>

\* verifyDisplayTransitionVideo: wait for the host's two messages until their
\* deadlines, then look at the video.
Verify(s) ==
  IF s.host = "due" \/ s.flow = "due"
  THEN [s EXCEPT !.phase = "verifying", !.check = "wait"]
  ELSE [s EXCEPT !.phase = "verifying", !.check = "run", !.stable = 0,
                 !.progress = FALSE, !.late = FALSE]

ModeApplied ==
  /\ session.mode
  /\ session' = [session EXCEPT !.mode = FALSE]
  /\ shift' = IF Shifting THEN Verify([shift EXCEPT !.host = "acked"]) ELSE shift
  /\ UNCHANGED <<warmup, stall, ticks>>

DeadlinePasses ==
  /\ \/ /\ shift.host = "due"
        /\ shift' = [shift EXCEPT !.host = "unasked"]
     \/ /\ shift.flow = "due"
        /\ shift' = [shift EXCEPT !.flow = "unasked"]
  /\ UNCHANGED <<session, warmup, stall, ticks>>

WaitTimerFires ==
  /\ shift.check = "wait"
  /\ shift' = Verify(shift)
  /\ UNCHANGED <<session, warmup, stall, ticks>>

\* resetDisplayTransitionState.
EndShift ==
  /\ shift' = IdleShift
  /\ session' = [session EXCEPT !.ready = TRUE, !.input = warmup.lock]

\* runCheck of the transition: two good samples in a row, of which one
\* advanced, or one after 24 attempts.
TransitionCheck ==
  /\ shift.check = "run"
  /\ \E good \in BOOLEAN, advanced \in BOOLEAN, late \in {shift.late, TRUE} :
       LET progress == shift.progress \/ advanced
           stable == IF good /\ progress
                     THEN IF shift.stable = 0 THEN 1 ELSE 2 ELSE 0
       IN  /\ session.steady => good /\ advanced
           /\ IF stable = 2 \/ (shift.late /\ stable = 1)
              THEN EndShift
              ELSE /\ shift' = [shift EXCEPT !.progress = progress,
                                             !.stable = stable, !.late = late]
                   /\ UNCHANGED session
  /\ UNCHANGED <<warmup, stall, ticks>>

(***************************************************************************)
(* Connecting and warming up.                                              *)
(***************************************************************************)
\* ConnectionComplete arrives, and the video setup is applied.
Complete ==
  /\ session.at = "opening"
  /\ session' = [session EXCEPT !.at = "applying"]
  /\ UNCHANGED <<shift, warmup, stall, ticks>>

\* The connectionComplete event: outside a transition the warm-up begins.
OnComplete(s) ==
  /\ stall' = [Watched EXCEPT !.on = TRUE, !.motion = TRUE]
  /\ IF Shifting
     THEN /\ shift' = Verify([shift EXCEPT !.flow = "due"])
          /\ session' = [s EXCEPT !.ready = FALSE]
          /\ UNCHANGED warmup
     ELSE /\ warmup' = [warmup EXCEPT !.active = TRUE, !.lock = TRUE,
                                      !.stable = FALSE, !.sure = FALSE]
          /\ session' = [s EXCEPT !.ready = FALSE, !.input = TRUE,
                                   !.early = @ \/ ~s.flow]
          /\ UNCHANGED shift
  /\ UNCHANGED ticks

SetupApplied ==
  /\ session.at = "applying"
  /\ OnComplete([session EXCEPT !.at = "live"])

\* The page's listener is never removed from a stream it replaced.
GhostSetupApplied ==
  /\ session.ghost
  /\ OnComplete([session EXCEPT !.ghost = FALSE])

\* A slip of FlowReady: during a warm-up it starts no check.
FlowReadyUnchecked ==
  /\ session.flow
  /\ session' = [session EXCEPT !.flow = FALSE]
  /\ shift' = IF Shifting THEN Verify([shift EXCEPT !.flow = "acked"]) ELSE shift
  /\ UNCHANGED <<warmup, stall, ticks>>

\* The streamer has sent its first frame: verify the transition or the
\* warm-up.  Only this starts the check of a warm-up, so a message that comes
\* before the warm-up began is spent.
FlowReady ==
  /\ session.flow
  /\ session' = [session EXCEPT !.flow = FALSE]
  /\ IF Shifting
     THEN /\ shift' = Verify([shift EXCEPT !.flow = "acked"])
          /\ UNCHANGED warmup
     ELSE /\ warmup' = IF warmup.active
                       THEN [warmup EXCEPT !.check = TRUE, !.stable = FALSE,
                                           !.sure = FALSE]
                       ELSE warmup
          /\ UNCHANGED shift
  /\ UNCHANGED <<stall, ticks>>

\* runCheck of the warm-up: a good sample that advanced, now or before, or
\* enough attempts.
WarmupCheck ==
  /\ warmup.active /\ warmup.check
  /\ \E good \in BOOLEAN, advanced \in BOOLEAN, sure \in {warmup.sure, TRUE} :
       LET stable == good /\ (advanced \/ warmup.stable)
       IN  /\ session.steady => good /\ advanced
           /\ IF stable /\ (advanced \/ warmup.sure)
              THEN /\ warmup' = ColdWarmup
                   /\ session' = [session EXCEPT !.input = shift.lock]
                   /\ stall' = Watched
              ELSE /\ warmup' = [warmup EXCEPT !.stable = stable,
                                   !.sure = sure \/ advanced]
                   /\ UNCHANGED <<session, stall>>
  /\ UNCHANGED <<shift, ticks>>

(***************************************************************************)
(* The stall watch.                                                        *)
(***************************************************************************)
\* Every second, unless the page knows why there are no frames.
Watching == stall.on /\ ~session.recon /\ ~Shifting /\ ~warmup.lock

\* A tick that sees the video advance, or may not judge it.
TickSeesProgress ==
  /\ Watching
  /\ stall' = Watched
  /\ UNCHANGED <<session, shift, warmup, ticks>>

\* A tick that does not: past the threshold it asks the transport, with the
\* silence and the window it has read.  Nothing keeps the next tick from
\* doing the same meanwhile.
TickSeesStall ==
  /\ Watching /\ ~session.steady /\ ~stall.hushed /\ stall.rested
  /\ stall.quiet >= (IF stall.motion THEN 1 ELSE 2)
  /\ LET tick == [quiet |-> stall.quiet, motion |-> stall.motion, at |-> "probe"]
     IN  /\ Cardinality(ticks \cup {tick}) <= MaxTicks
         /\ ticks' = ticks \cup {tick}
  /\ UNCHANGED <<session, shift, warmup, stall>>

\* The end of a tick: reconnect, unless that is under way.
StallReconnect ==
  /\ session.recon \/ session.n < MaxStreams
  /\ session' = InputReconnects(session)
  /\ stall' = [stall EXCEPT !.rested = FALSE,
                            !.on = @ /\ session.recon]

\* hasInboundVideoActivitySince answers.
ProbeAnswers(tick, inbound) ==
  /\ tick \in ticks /\ tick.at = "probe"
  /\ \/ /\ \/ tick.motion /\ inbound /\ tick.quiet < 2
           \/ ~tick.motion /\ ~(inbound /\ stall.touched)
        /\ stall' = IF tick.motion THEN stall ELSE Watched
        /\ ticks' = ticks \ {tick}
        /\ UNCHANGED session
     \/ /\ IF tick.motion THEN ~inbound \/ tick.quiet = 2
           ELSE inbound /\ stall.touched
        /\ IF inbound /\ stall.renderable
           THEN /\ ticks' = (ticks \ {tick}) \cup {[tick EXCEPT !.at = "render"]}
                /\ UNCHANGED <<session, stall>>
           ELSE StallReconnect /\ ticks' = ticks \ {tick}
  /\ UNCHANGED <<shift, warmup>>

\* recoverVideoRendererInPlace: a new renderer on the same track, or not.
RendererRecovered(tick) ==
  /\ tick \in ticks /\ tick.at = "render"
  /\ \/ /\ stall' = [Watched EXCEPT !.rested = FALSE, !.renderable = FALSE,
                                    !.hushed = TRUE]
        /\ UNCHANGED session
     \/ StallReconnect
  /\ ticks' = ticks \ {tick}
  /\ UNCHANGED <<shift, warmup>>

TicksGoOn ==
  \E tick \in ticks :
    (\E inbound \in BOOLEAN : ProbeAnswers(tick, inbound)) \/ RendererRecovered(tick)

(***************************************************************************)
(* The user, the video and the clock.                                      *)
(***************************************************************************)
UserInteracts ==
  /\ stall' = [stall EXCEPT !.touched = TRUE,
                 !.motion = @ \/ (stall.on /\ ~session.recon /\ ~Shifting)]
  /\ UNCHANGED <<session, shift, warmup, ticks>>

FramesSettle ==
  /\ session.at = "live"
  /\ session' = [session EXCEPT !.steady = TRUE]
  /\ UNCHANGED <<shift, warmup, stall, ticks>>

ReadyTimePasses ==
  /\ session.at = "live"
  /\ session' = [session EXCEPT !.ready = TRUE]
  /\ UNCHANGED <<shift, warmup, stall, ticks>>

StallTimePasses ==
  /\ \/ /\ stall.quiet < 2 /\ stall.on
        /\ stall' = [stall EXCEPT !.quiet = @ + 1]
     \/ stall' = [stall EXCEPT !.motion = FALSE]
     \/ stall' = [stall EXCEPT !.hushed = FALSE, !.touched = FALSE]
     \/ stall' = [stall EXCEPT !.rested = TRUE, !.renderable = TRUE,
                               !.hushed = FALSE]
  /\ UNCHANGED <<session, shift, warmup, ticks>>

WatchNext ==
  \/ SomethingReconnects \/ ReconnectRestarts
  \/ TransitionBegins \/ ModeApplied \/ DeadlinePasses \/ WaitTimerFires
  \/ TransitionCheck
  \/ Complete \/ SetupApplied \/ GhostSetupApplied \/ FlowReady \/ WarmupCheck
  \/ TickSeesProgress \/ TickSeesStall \/ TicksGoOn
  \/ UserInteracts \/ FramesSettle \/ ReadyTimePasses \/ StallTimePasses

WatchSpec == WatchInit /\ [][WatchNext]_watchVars

\* Timers fire, the reconnect's awaits end, and a stream that is opened
\* connects, reports its first frame and settles.
WatchFairness ==
  /\ WF_watchVars(ReconnectRestarts)
  /\ WF_watchVars(DeadlinePasses) /\ WF_watchVars(WaitTimerFires)
  /\ WF_watchVars(TransitionCheck) /\ WF_watchVars(WarmupCheck)
  /\ WF_watchVars(Complete) /\ WF_watchVars(SetupApplied)
  /\ WF_watchVars(FlowReady) /\ WF_watchVars(FramesSettle)

FairWatchSpec == WatchSpec /\ WatchFairness

(***************************************************************************)
(* Properties.                                                             *)
(***************************************************************************)
\* Two owners lock one input, and reconnects replace the input under them:
\* whatever order they come in, the input of the current stream is locked
\* exactly while a transition or a warm-up is under way.
InputLockInStep ==
  /\ session.input = (shift.lock \/ warmup.lock)
  /\ shift.lock = Shifting
  /\ warmup.lock = warmup.active

\* On a stream that connects and shows its video every lock is released,
\* unless VideoFlowReady was spent before the connectionComplete event, the
\* stream's or a replaced one's, began the warm-up: then it waits for a
\* message that does not come again.
LocksEnd ==
  /\ []<>~Shifting
  /\ []<>(~warmup.active \/ session.early)
=============================================================================
