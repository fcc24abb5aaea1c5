--------------------------- MODULE QuickPadButtons ---------------------------
(***************************************************************************)
(* The buttons of the on-screen pad (src/web/stream.ts, QuickPadOverlay):  *)
(* the user's custom buttons, which tap, hold, latch, repeat or play a     *)
(* sequence of keys, and a face button with its turbo.  A press and its    *)
(* release are separate callbacks (pointers, intervals, timers), and each  *)
(* reads the layout of the moment at which it runs: the layout may have    *)
(* been edited, loaded from a template or swapped by a rotation since.     *)
(*                                                                         *)
(* `down` is what the pad has pressed on the host.                         *)
(***************************************************************************)
EXTENDS Naturals, FiniteSets

CONSTANTS
  Slots,     \* the custom buttons
  MaxTaps,   \* bound: taps of one button whose release is pending
  Steps      \* key combinations of a sequence

ASSUME PadAssumption == MaxTaps \in Nat /\ Steps \in Nat

VARIABLES
  layout,  \* what the callbacks read of the preferences and of the overlay
  pad,     \* per custom button: its pointer, latch, interval and timers
  face,    \* the face button
  down,    \* pressed on the host
  stale    \* history: pressed, and its release no longer leads to it

padVars == <<layout, pad, face, down, stale>>

PadActions == {"off", "gamepad", "keyboard", "macro"}
PadModes == {"tap", "hold", "toggle", "turbo"}
HostInputs == {"gamepad", "keyboard", "step", "face"}

IdleButton ==
  [held |-> "no", latched |-> FALSE, beat |-> FALSE, beatDown |-> FALSE,
   taps |-> 0, left |-> 0]
IdleFace ==
  [held |-> FALSE, beat |-> FALSE, beatDown |-> FALSE, switched |-> FALSE]

PadInit ==
  /\ layout = [action |-> [s \in Slots |-> "off"], mode |-> [s \in Slots |-> "hold"],
               turbo |-> FALSE, guarded |-> FALSE]
  /\ pad = [s \in Slots |-> IdleButton]
  /\ face = IdleFace
  /\ down = {}
  /\ stale = {}

PadTypeOK ==
  /\ layout \in [action : [Slots -> PadActions], mode : [Slots -> PadModes],
                 turbo : BOOLEAN,      \* prefs.turboEnabled
                 guarded : BOOLEAN]    \* isConflictGuardActive
  /\ pad \in [Slots ->
       [held : {"no", "hold", "turbo"},      \* activePointerId, activeMode
        latched : BOOLEAN,                   \* customButtonToggleStates
        beat : BOOLEAN, beatDown : BOOLEAN,  \* TurboIntervals, TurboPressed
        taps : 0 .. MaxTaps,                 \* releases due after 80 ms
        left : 0 .. 2 * Steps]]              \* timers left of a sequence
  /\ face \in [held : BOOLEAN, beat : BOOLEAN, beatDown : BOOLEAN,
               switched : BOOLEAN]   \* history: turbo was switched under it
  /\ down \subseteq HostInputs
  /\ stale \subseteq down

(***************************************************************************)
(* Pressing and releasing what a button is set to.                         *)
(***************************************************************************)
\* setCustomButtonPressed: the virtual pad is not pressed under the guard.
Pressed(s) ==
  CASE layout.action[s] = "gamepad" /\ ~layout.guarded -> {"gamepad"}
    [] layout.action[s] = "keyboard" -> {"keyboard"}
    [] OTHER -> {}

Released(l, s) == {l.action[s]} \cap HostInputs

\* The input a button would release if nothing changed until then.
Owned(s) ==
  IF \/ pad[s].held = "hold" \/ pad[s].latched \/ pad[s].beatDown
     \/ pad[s].taps > 0
  THEN {layout.action[s]} \cap HostInputs ELSE {}

Playing(s) == pad[s].left % 2 = 1

OwnedByFace == IF face.held \/ face.switched THEN {"face"} ELSE {}

Host(released, lost) ==
  /\ down' = down \ released
  /\ stale' = (stale \cup lost) \ released

\* The turbo of a button ends, and releases the button if it is down.
WithoutTurbo(b) == [b EXCEPT !.beat = FALSE, !.beatDown = FALSE]

TurboReleases(l, S) ==
  UNION {Released(l, s) : s \in {t \in S : pad[t].beatDown}}
LatchReleases(l, S) ==
  UNION {Released(l, s) : s \in {t \in S : pad[t].latched}}

\* clearAllCustomButtonRuntimeStates: turbos and latches are released, timers
\* of sequences cancelled, the due release of a step with the rest.
ClearAll(b) == [WithoutTurbo(b) EXCEPT !.latched = FALSE, !.left = 0]
ClearReleases == TurboReleases(layout, Slots) \cup LatchReleases(layout, Slots)
LostSteps(S) == IF \E s \in S : Playing(s) THEN {"step"} \cap down ELSE {}

(***************************************************************************)
(* Custom buttons.                                                         *)
(***************************************************************************)
\* canStartInteraction; whether a layout is being edited is left open.
CanPress(s) == ~layout.guarded /\ layout.action[s] # "off"

PlaySequence(s) ==
  /\ CanPress(s) /\ layout.action[s] = "macro"
  /\ pad' = [pad EXCEPT ![s].left = 2 * Steps]
  /\ Host({}, LostSteps({s}))
  /\ UNCHANGED <<layout, face>>

Tap(s) ==
  /\ CanPress(s) /\ layout.action[s] # "macro" /\ layout.mode[s] = "tap"
  /\ pad[s].taps < MaxTaps
  /\ pad' = [pad EXCEPT ![s].taps = @ + 1]
  /\ down' = down \cup Pressed(s)
  /\ UNCHANGED <<layout, face, stale>>

Toggle(s) ==
  /\ CanPress(s) /\ layout.action[s] # "macro" /\ layout.mode[s] = "toggle"
  /\ pad' = [pad EXCEPT ![s].latched = ~@]
  /\ IF pad[s].latched
     THEN Host(Released(layout, s), {})
     ELSE down' = down \cup Pressed(s) /\ UNCHANGED stale
  /\ UNCHANGED <<layout, face>>

Hold(s) ==
  /\ CanPress(s) /\ layout.action[s] # "macro"
  /\ layout.mode[s] \in {"hold", "turbo"}
  /\ pad' = [pad EXCEPT ![s].held = layout.mode[s],
                        ![s].beat = @ \/ layout.mode[s] = "turbo",
                        ![s].beatDown = @ \/ layout.mode[s] = "turbo"]
  /\ down' = down \cup Pressed(s)
  /\ UNCHANGED <<layout, face, stale>>

\* The pointer goes up, is cancelled or loses its capture.
LetGo(s) ==
  /\ pad[s].held # "no"
  /\ IF pad[s].held = "hold"
     THEN /\ pad' = [pad EXCEPT ![s].held = "no"]
          /\ Host(Released(layout, s), {})
     ELSE /\ pad' = [pad EXCEPT ![s] = [WithoutTurbo(@) EXCEPT !.held = "no"]]
          /\ Host(TurboReleases(layout, {s}), {})
  /\ UNCHANGED <<layout, face>>

TapTimerFires(s) ==
  /\ pad[s].taps > 0
  /\ pad' = [pad EXCEPT ![s].taps = @ - 1]
  /\ Host(Released(layout, s), {})
  /\ UNCHANGED <<layout, face>>

BeatTimerFires(s) ==
  /\ pad[s].beat
  /\ pad' = [pad EXCEPT ![s].beatDown = ~@]
  /\ IF pad[s].beatDown
     THEN Host(Released(layout, s), {})
     ELSE down' = down \cup Pressed(s) /\ UNCHANGED stale
  /\ UNCHANGED <<layout, face>>

\* The timers of a sequence keep the key they were made for.
SequenceTimerFires(s) ==
  /\ pad[s].left > 0
  /\ pad' = [pad EXCEPT ![s].left = @ - 1]
  /\ IF Playing(s) THEN Host({"step"}, {})
     ELSE down' = down \cup {"step"} /\ UNCHANGED stale
  /\ UNCHANGED <<layout, face>>

(***************************************************************************)
(* The face button.                                                        *)
(***************************************************************************)
PressFace ==
  /\ ~layout.guarded
  /\ IF layout.turbo
     THEN face' = [face EXCEPT !.held = TRUE, !.beat = TRUE, !.beatDown = TRUE,
                               !.switched = FALSE]
     ELSE face' = [face EXCEPT !.held = TRUE]
  /\ down' = down \cup {"face"}
  /\ UNCHANGED <<layout, pad, stale>>

\* A slip of LetGoFace: it stops the turbo and leaves the button as it is.
LetGoFaceDown ==
  /\ face.held
  /\ IF layout.turbo
     THEN /\ face' = [face EXCEPT !.held = FALSE, !.beat = FALSE, !.beatDown = FALSE]
          /\ UNCHANGED <<down, stale>>
     ELSE /\ face' = [face EXCEPT !.held = FALSE]
          /\ Host({"face"}, {})
  /\ UNCHANGED <<layout, pad>>

\* Whether the turbo is stopped or the button released is decided by the
\* setting of now, not by the one of the press.
LetGoFace ==
  /\ face.held
  /\ IF layout.turbo
     THEN /\ face' = [face EXCEPT !.held = FALSE, !.beat = FALSE, !.beatDown = FALSE]
          /\ Host(IF face.beatDown THEN {"face"} ELSE {}, {})
     ELSE /\ face' = [face EXCEPT !.held = FALSE]
          /\ Host({"face"}, {})
  /\ UNCHANGED <<layout, pad>>

FaceBeatTimerFires ==
  /\ face.beat
  /\ face' = [face EXCEPT !.beatDown = ~@]
  /\ IF face.beatDown THEN Host({"face"}, {})
     ELSE down' = down \cup {"face"} /\ UNCHANGED stale
  /\ UNCHANGED <<layout, pad>>

(***************************************************************************)
(* The overlay and the layout.                                             *)
(***************************************************************************)
\* setVisible(false) and the timers' owner gone.
Hide ==
  /\ pad' = [s \in Slots |-> ClearAll(pad[s])]
  /\ Host(ClearReleases, LostSteps(Slots))
  /\ UNCHANGED <<layout, face>>

\* A physical gamepad is connected or removed, or the guard switched: under
\* the guard forceReleaseActiveInteractions lets go of every pointer, clears
\* the timers and resets the virtual pad.
GuardChanges ==
  /\ layout' = [layout EXCEPT !.guarded = ~@]
  /\ IF layout.guarded
     THEN UNCHANGED <<pad, face, down, stale>>
     ELSE LET holds == {s \in Slots : pad[s].held = "hold"}
          IN  /\ pad' = [s \in Slots |-> [ClearAll(pad[s]) EXCEPT !.held = "no"]]
              /\ face' = [face EXCEPT !.held = FALSE,
                            !.beat = @ /\ ~(face.held /\ layout.turbo),
                            !.beatDown = @ /\ ~(face.held /\ layout.turbo)]
              /\ Host({"gamepad", "face"} \cup ClearReleases
                        \cup UNION {Released(layout, s) : s \in holds},
                      LostSteps(Slots))

\* Preferences are edited, loaded or swapped, and syncCustomActionButtons runs
\* under the new ones: latches and turbos of buttons that no longer latch or
\* repeat are released as the action they now have.
LayoutChanges ==
  \E action \in [Slots -> PadActions], mode \in [Slots -> PadModes],
     turbo \in BOOLEAN :
    LET l == [layout EXCEPT !.action = action, !.mode = mode, !.turbo = turbo]
        loose == {s \in Slots : action[s] = "off" \/ mode[s] # "toggle"}
        slow == {s \in Slots : action[s] = "off" \/ mode[s] # "turbo"}
        changed == {s \in Slots : action[s] # layout.action[s]}
    IN  /\ layout' = l
        /\ pad' = [s \in Slots |->
             LET b == IF s \in slow THEN WithoutTurbo(pad[s]) ELSE pad[s]
             IN  [b EXCEPT !.latched = @ /\ s \notin loose]]
        /\ face' = [face EXCEPT
             !.switched = @ \/ ((face.held \/ face.beat) /\ turbo # layout.turbo)]
        /\ Host(TurboReleases(l, slow) \cup LatchReleases(l, loose),
                down \cap UNION {Owned(s) : s \in changed})

\* A reconnect: the host starts with nothing pressed, while latches, timers
\* and intervals of the page go on; the face button's turbo keeps beating on
\* the input of the old stream, out of the new host's sight.
StreamReplaced ==
  /\ down' = {} /\ stale' = {}
  /\ face' = [face EXCEPT !.beat = FALSE, !.beatDown = FALSE, !.switched = FALSE]
  /\ UNCHANGED <<layout, pad>>

PadNext ==
  \/ \E s \in Slots :
       \/ PlaySequence(s) \/ Tap(s) \/ Toggle(s) \/ Hold(s) \/ LetGo(s)
       \/ TapTimerFires(s) \/ BeatTimerFires(s) \/ SequenceTimerFires(s)
  \/ PressFace \/ LetGoFace \/ FaceBeatTimerFires
  \/ Hide \/ GuardChanges \/ LayoutChanges \/ StreamReplaced

PadSpec == PadInit /\ [][PadNext]_padVars

(***************************************************************************)
(* Properties.                                                             *)
(***************************************************************************)
\* Nothing the pad has pressed stays pressed for ever: a finger, a latch, an
\* interval or a timer is there that releases it.  The two ways in which the
\* code lets one go astray are named: the button's action, or the turbo
\* setting, changed between press and release (the release reads the new
\* one), and a sequence was cancelled between the press and the release of a
\* step.
NothingStuck ==
  down \ stale \subseteq
    OwnedByFace \cup (IF \E s \in Slots : Playing(s) THEN {"step"} ELSE {})
      \cup UNION {Owned(s) : s \in Slots}
=============================================================================
