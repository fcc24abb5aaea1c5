--------------------------- MODULE AdaptiveQuality ---------------------------
(***************************************************************************)
(* The stream page's adjustment of bitrate and frame rate to the network   *)
(* (src/web/stream.ts, pollAdaptiveBitrate and its helpers).  A poll every *)
(* three seconds classifies the statistics of a direct route; five poor    *)
(* samples lower the bitrate a step and, at its floor, the frame rate; a   *)
(* long stable stretch raises them again.                                  *)
(*                                                                         *)
(* The statistics are what the network makes of the quality in force: the  *)
(* network is good, fair or slow, and unless it is slow the browser        *)
(* receives the frames per second the page asked the host for.  Clocks are *)
(* abstracted to the thresholds they are compared with.                    *)
(***************************************************************************)
EXTENDS Integers, FiniteSets, FiniteSetsExt

CONSTANTS
  Bitrates,   \* bitrates the user may set, in kbps
  FrameRates  \* frame rates the user may set

\* Numbers, and a highest one of each.
ASSUME QualityAssumption ==
  /\ Bitrates \subseteq Nat /\ \E top \in Bitrates : \A b \in Bitrates : top >= b
  /\ FrameRates \subseteq Nat \ {0} /\ \E top \in FrameRates : \A f \in FrameRates : top >= f

VARIABLES
  wanted,   \* the user's settings
  quality,  \* adaptiveBitrateCurrentKbps, adaptiveFpsCurrent and the counters
  network

qualityVars == <<wanted, quality, network>>

AtLeast(a, b) == IF a >= b THEN a ELSE b
AtMost(a, b) == IF a <= b THEN a ELSE b

\* What a bitrate in kbps and a frame rate are kept between.
LowKbps == 2000
HighKbps == 30000
LowFps == 15
HighFps == 240

PoorSamples == 5
FpsSteps == {24, 30, 45, 60, 90, 120}

\* Math.round(n / d) for a natural n.
Rounded(n, d) == (2 * n + d) \div (2 * d)

NormalizeKbps(kbps) == AtLeast(LowKbps, AtMost(HighKbps, Rounded(kbps, 500) * 500))

FloorKbps(ceiling) ==
  LET top == NormalizeKbps(ceiling)
  IN  NormalizeKbps(AtMost(top, AtLeast(LowKbps, Rounded(top * 35, 50000) * 500)))

StepDownKbps(kbps, floor) ==
  LET step == CASE kbps >= 14000 -> 3000
                [] kbps >= 9000 /\ kbps < 14000 -> 2000
                [] OTHER -> 1000
  IN  AtLeast(floor, NormalizeKbps(kbps - step))

\* A slip of StepUpKbps: a small gap to the ceiling asks for a step that
\* rounds to nothing.
StepUpKbpsTimid(kbps, ceiling) ==
  LET gap == AtLeast(0, ceiling - kbps)
      step == CASE gap >= 4000 -> 2000
                [] gap >= 2000 /\ gap < 4000 -> 1000
                [] OTHER -> 200
  IN  AtMost(ceiling, NormalizeKbps(kbps + step))

StepUpKbps(kbps, ceiling) ==
  LET gap == AtLeast(0, ceiling - kbps)
      step == CASE gap >= 4000 -> 2000
                [] gap >= 2000 /\ gap < 4000 -> 1000
                [] OTHER -> 500
  IN  AtMost(ceiling, NormalizeKbps(kbps + step))

NormalizeFps(fps) == AtLeast(LowFps, AtMost(HighFps, fps))

FloorFps(ceiling) == AtMost(NormalizeFps(ceiling), 24)

StepDownFps(fps, floor) ==
  LET lower == {s \in FpsSteps : s < NormalizeFps(fps)}
  IN  IF lower = {} THEN floor ELSE AtLeast(floor, Max(lower))

StepUpFps(fps, ceiling) ==
  LET higher == {s \in FpsSteps : s > NormalizeFps(fps)}
  IN  IF higher = {} THEN NormalizeFps(ceiling)
      ELSE AtMost(NormalizeFps(ceiling), Min(higher))

Ceiling == NormalizeKbps(wanted.kbps)
CeilingFps == NormalizeFps(wanted.fps)

Fresh(kbps, fps) ==
  [kbps |-> NormalizeKbps(kbps), fps |-> NormalizeFps(fps), poor |-> 0,
   steady |-> 0, since |-> 3]

QualityInit ==
  /\ wanted = [kbps |-> Max(Bitrates), fps |-> Max(FrameRates)]
  /\ quality = Fresh(wanted.kbps, wanted.fps)
  /\ network = [speed |-> "good", direct |-> TRUE, warm |-> FALSE]

QualityTypeOK ==
  /\ wanted \in [kbps : Bitrates, fps : FrameRates]
  /\ quality \in
       [kbps : LowKbps .. HighKbps, fps : LowFps .. HighFps,
        poor : 0 .. PoorSamples,   \* adaptiveBitratePoorSampleCount, >= 5 as 5
        steady : 0 .. 2,           \* since adaptiveBitrateStableSinceAt: unset,
                                   \* set, set for the whole restore window
        since : 0 .. 3]            \* since the last change: at once, 12 s, 25 s,
                                   \* 30 s and more
  /\ network \in [speed : {"good", "fair", "slow"}, direct : BOOLEAN,
                  warm : BOOLEAN]  \* the direct route is 75 s old

(***************************************************************************)
(* The poll.                                                               *)
(***************************************************************************)
Unset == [quality EXCEPT !.poor = 0, !.steady = 0]

\* The frames received are measured, or the statistics do not say.
FramesSeem(fps) == network.speed # "slow" /\ fps > 0

\* severeProblem: against the frame rate the user set, not the one in force.
Severe(fps) ==
  \/ network.speed = "slow"
  \/ FramesSeem(fps) /\ 10 * fps < AtLeast(180, 6 * AtLeast(15, wanted.fps))

Stable(fps) ==
  /\ network.speed = "good"
  /\ FramesSeem(fps) => 10 * fps >= AtLeast(220, 8 * AtLeast(15, wanted.fps))

\* applyAdaptiveBitrateReconfigure: the change is noted before the restart in
\* place, or the full reconnect that replaces it, is awaited.
QualityChange(kbps, fps, steady) ==
  [kbps |-> kbps, fps |-> fps, poor |-> 0, steady |-> steady, since |-> 0]

\* A poor sample that counts, and the downshift after the fifth.
PoorSample ==
  LET floor == FloorKbps(Ceiling)
      counted == [quality EXCEPT !.poor = AtMost(PoorSamples, @ + 1), !.steady = 0]
  IN  IF counted.poor < PoorSamples \/ quality.since < 3 THEN counted
      ELSE IF quality.kbps > floor
           THEN QualityChange(StepDownKbps(quality.kbps, floor), quality.fps, 0)
           ELSE QualityChange(quality.kbps,
                       StepDownFps(quality.fps, FloorFps(CeilingFps)), 0)

\* A sample of a stable path below the ceiling, and the upshift.
StableSample ==
  LET restore == quality.steady = 2 /\ quality.since >= 2
      calm == [quality EXCEPT !.poor = 0, !.steady = AtLeast(@, 1)]
  IN  IF ~restore THEN calm
      ELSE IF quality.kbps < Ceiling
           THEN QualityChange(StepUpKbps(quality.kbps, Ceiling), quality.fps, 1)
           ELSE QualityChange(quality.kbps, StepUpFps(quality.fps, CeilingFps), 1)

AtFloor ==
  quality.kbps <= FloorKbps(Ceiling) /\ quality.fps <= FloorFps(CeilingFps)
AtCeiling == quality.kbps >= Ceiling /\ quality.fps >= CeilingFps

\* pollAdaptiveBitrate with or without a recent interaction of the user.
PollQuality(active, fps) ==
  /\ UNCHANGED <<wanted, network>>
  /\ quality' =
       IF ~network.direct \/ ~network.warm \/ quality.since = 0 THEN Unset
       ELSE IF Severe(fps) /\ active /\ ~AtFloor THEN PoorSample
       ELSE IF Stable(fps) /\ active /\ ~AtCeiling THEN StableSample
       ELSE Unset

Polls == \E active \in BOOLEAN, fps \in {0, quality.fps} : PollQuality(active, fps)

(***************************************************************************)
(* The user, the network and the clock.                                    *)
(***************************************************************************)
\* updateSettings: a new value of the bitrate or the frame rate starts again
\* from the ceiling.
SettingsChange ==
  \E kbps \in Bitrates, fps \in FrameRates :
    /\ wanted' = [kbps |-> kbps, fps |-> fps]
    /\ quality' = [quality EXCEPT
         !.kbps = IF kbps # wanted.kbps THEN NormalizeKbps(kbps) ELSE @,
         !.fps = IF fps # wanted.fps THEN NormalizeFps(fps) ELSE @,
         !.poor = 0, !.steady = 0]
    /\ UNCHANGED network

NetworkChanges ==
  /\ \E speed \in {"good", "fair", "slow"} :
       network' = [network EXCEPT !.speed = speed]
  /\ UNCHANGED <<wanted, quality>>

RouteChanges ==
  /\ network' = [network EXCEPT !.direct = ~@, !.warm = FALSE]
  /\ UNCHANGED <<wanted, quality>>

TimePasses ==
  /\ UNCHANGED wanted
  /\ \/ /\ network.direct /\ ~network.warm
        /\ network' = [network EXCEPT !.warm = TRUE]
        /\ UNCHANGED quality
     \/ /\ quality.since < 3
        /\ quality' = [quality EXCEPT !.since = @ + 1]
        /\ UNCHANGED network
     \/ /\ quality.steady = 1
        /\ quality' = [quality EXCEPT !.steady = 2]
        /\ UNCHANGED network

QualityNext ==
  Polls \/ SettingsChange \/ NetworkChanges \/ RouteChanges \/ TimePasses

QualitySpec == QualityInit /\ [][QualityNext]_qualityVars

\* The interval timer polls while the user plays, and time passes.
QualityFairness ==
  /\ WF_qualityVars(TimePasses)
  /\ WF_qualityVars(PollQuality(TRUE, quality.fps))

FairQualitySpec == QualitySpec /\ QualityFairness

(***************************************************************************)
(* Properties.                                                             *)
(***************************************************************************)
\* Whatever the sequence of samples and settings, the page asks the host for
\* no more than the user allows and no less than the floor of the ceiling.
QualityInBounds ==
  /\ quality.kbps \in FloorKbps(Ceiling) .. Ceiling
  /\ quality.fps \in FloorFps(CeilingFps) .. CeilingFps

\* When the user leaves the settings alone and every sample of a direct route
\* is good, the bitrate returns to its ceiling and stays there, as long as the
\* frame rate is the one the user set; after a downshift of the frame rate the
\* path never counts as stable again.
BitrateRestored ==
  (/\ <>[][TimePasses \/ PollQuality(TRUE, quality.fps)]_qualityVars
   /\ <>[](network.speed = "good" /\ network.direct /\ quality.fps = wanted.fps))
    => <>[](quality.kbps = Ceiling)
=============================================================================
